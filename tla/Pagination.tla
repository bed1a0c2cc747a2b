----------------------------- MODULE Pagination -----------------------------
(***************************************************************************)
(* The numbered pages on which the web interface shows its lists: how many *)
(* there are (math.Ceil of the rows by paginationMax) and which rows are   *)
(* on each (LIMIT and OFFSET; repository/pagereport.go, repository/issue.go). *)
(***************************************************************************)
EXTENDS Integers, Sequences

CONSTANT PaginationMax  \* rows on a page

ASSUME PaginationAssumption == PaginationMax \in Nat \ {0}

\* A mutant of PageCount: the last page is not counted if it is not full.
PageCount_floor(n) == n \div PaginationMax
PageCount(n) == (n + PaginationMax - 1) \div PaginationMax
NthPage(rows, n) ==
  LET last == n * PaginationMax
  IN  SubSeq(rows, last - PaginationMax + 1, IF last < Len(rows) THEN last ELSE Len(rows))
=============================================================================
