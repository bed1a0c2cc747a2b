------------------------ MODULE FindingsCursor_proofs ------------------------
(***************************************************************************)
(* NothingMissed of FindingsCursor, for any lists, any pages and any rows  *)
(* that are written while a client follows the cursor; and what numbered   *)
(* pages (Pagination) show of a list, for any list and any size of a page. *)
(***************************************************************************)
EXTENDS FindingsCursor, Pagination, FiniteSetTheorems, TLAPS

FoundOK ==
  /\ DOMAIN found = List
  /\ \A l \in List : IsFiniteSet(found[l]) /\ Placed(found[l])

\* Who has not begun has nothing; who has begun has findings of one list.
ReaderOK ==
  /\ cursor \in Nat
  /\ ~reading => got = {} /\ given = 0 /\ cursor = 0 /\ ~done
  /\ reading => /\ list \in List /\ got \cup base \subseteq found[list]
                /\ given = Cardinality(got)

\* The cursor parts what was read from what was not: of what there was when
\* the client began, and of a list of one table of all there is.
AtCursor ==
  reading /\ ~done =>
    /\ \E f \in got : f.after = cursor
    /\ \A f \in got : f.after <= cursor
    /\ \A f \in base : f.after <= cursor => f \in got
    /\ list \notin Merged => \A f \in found[list] : f.after <= cursor => f \in got

\* After the last page only what was written since is left.
AtEnd ==
  reading /\ done =>
    /\ base \subseteq got
    /\ list \notin Merged => \A f \in found[list], g \in got : f.after <= g.after => f \in got

IInv == FoundOK /\ ReaderOK /\ AtCursor /\ AtEnd

-----------------------------------------------------------------------------
(* Pages                                                                   *)

\* A page is a beginning of what is left to read.
LEMMA PageIsFirst ==
  ASSUME CursorAssumption, FoundOK, NEW l \in List, NEW f \in Page(l), NEW g \in Rest(l), g.after <= f.after
  PROVE  g \in Page(l)
<1> DEFINE Below(x) == {h \in Rest(l) : h.after < x.after}
<1>1. \A h \in Rest(l) : h.after \in Nat
  BY DEF FoundOK, Placed, Rest
<1>2. Below(g) \subseteq Below(f)
  BY <1>1 DEF Page
<1>3. IsFiniteSet(Rest(l))
  <2>1. Rest(l) \in SUBSET found[l]
    BY DEF Rest
  <2> QED BY <2>1, FS_Subset DEF FoundOK
<1>4. IsFiniteSet(Below(f)) /\ IsFiniteSet(Below(g))
  <2>1. Below(f) \in SUBSET Rest(l) /\ Below(g) \in SUBSET Rest(l)
    OBVIOUS
  <2> QED BY <1>3, <2>1, FS_Subset
<1>5. Cardinality(Below(g)) <= Cardinality(Below(f))
  <2>1. Below(g) \in SUBSET Below(f)
    BY <1>2
  <2> QED BY <1>4, <2>1, FS_Subset
<1>6. Cardinality(Below(f)) \in Nat /\ Cardinality(Below(g)) \in Nat
  BY <1>4, FS_CardinalityType
<1>7. f \in Rest(l) /\ g \in Rest(l) /\ Cardinality(Below(f)) < PageLimit
  BY DEF Page
<1> QED BY <1>5, <1>6, <1>7 DEF Page, CursorAssumption

\* A page has what comes after the cursor, and nothing the client has.
LEMMA PageIsNew ==
  ASSUME IInv, NEW l \in List, Follow(l)
  PROVE  /\ Page(l) \subseteq Rest(l) /\ Rest(l) \subseteq found[l]
         /\ got \subseteq found[l] /\ base' \subseteq found[l]
         /\ \A f \in got : f.after <= cursor
         /\ \A f \in base' : f.after <= cursor => f \in got
         /\ l \notin Merged => \A f \in found[l] : f.after <= cursor => f \in got
         /\ got \cap Page(l) = {}
<1>1. Page(l) \subseteq Rest(l) /\ Rest(l) \subseteq found[l]
  BY DEF Page, Rest
<1>2. \A f \in found[l] : f.after \in Nat \ {0}
  BY DEF IInv, FoundOK, Placed
<1>3. /\ got \subseteq found[l] /\ base' \subseteq found[l]
      /\ \A f \in got : f.after <= cursor
      /\ \A f \in base' : f.after <= cursor => f \in got
      /\ l \notin Merged => \A f \in found[l] : f.after <= cursor => f \in got
  <2>1. CASE reading
    <3>1. list = l /\ ~done /\ base' = base
      BY <2>1 DEF Follow
    <3> QED BY <2>1, <3>1 DEF IInv, ReaderOK, AtCursor
  <2>2. CASE ~reading
    <3>1. got = {} /\ cursor = 0 /\ base' = found[l]
      BY <2>2 DEF Follow, IInv, ReaderOK
    <3> QED BY <1>2, <3>1
  <2> QED BY <2>1, <2>2
<1>4. got \cap Page(l) = {}
  <2> SUFFICES ASSUME NEW f \in got, f \in Page(l) PROVE FALSE
    OBVIOUS
  <2>1. f.after <= cursor /\ f.after > cursor
    BY <1>1, <1>3 DEF Rest
  <2> QED BY <1>2, <1>3, <2>1 DEF IInv, ReaderOK
<1> QED BY <1>1, <1>3, <1>4

-----------------------------------------------------------------------------
(* The invariant                                                           *)

LEMMA Initially == Init => IInv
BY FS_EmptySet DEF Init, IInv, FoundOK, Placed, ReaderOK, AtCursor, AtEnd

\* Rows that are written come after the cursor, unless the list is merged.
LEMMA KeptByGrow ==
  ASSUME IInv, Grow
  PROVE  IInv'
<1>1. FoundOK'
  BY DEF Grow, FoundOK
<1>2. ReaderOK'
  BY DEF Grow, IInv, ReaderOK
<1>3. ASSUME reading, list \notin Merged, NEW f \in found'[list], NEW g \in got, f.after <= g.after
      PROVE  f \in found[list]
  <2>1. list \in List /\ g \in found[list]
    BY <1>3 DEF IInv, ReaderOK
  <2>2. f.after \in Nat /\ g.after \in Nat
    BY <1>1, <1>3, <2>1 DEF FoundOK, Placed, IInv
  <2> QED BY <1>3, <2>1, <2>2 DEF Grow
<1>4. AtCursor'
  <2> SUFFICES ASSUME reading, ~done PROVE AtCursor'
    BY DEF Grow, AtCursor
  <2>1. AtCursor
    BY DEF IInv
  <2>2. PICK g \in got : g.after = cursor
    BY <2>1 DEF AtCursor
  <2>3. list \notin Merged => \A f \in found'[list] : f.after <= cursor => f \in got
    BY <1>3, <2>1, <2>2 DEF AtCursor
  <2> QED BY <2>1, <2>3 DEF Grow, AtCursor
<1>5. AtEnd'
  <2> SUFFICES ASSUME reading, done PROVE AtEnd'
    BY DEF Grow, AtEnd
  <2>1. AtEnd
    BY DEF IInv
  <2>2. list \notin Merged => \A f \in found'[list], g \in got : f.after <= g.after => f \in got
    BY <1>3, <2>1 DEF AtEnd
  <2> QED BY <2>1, <2>2 DEF Grow, AtEnd
<1> QED BY <1>1, <1>2, <1>4, <1>5 DEF IInv

LEMMA KeptByFollow ==
  ASSUME CursorAssumption, IInv, NEW l \in List, Follow(l)
  PROVE  IInv'
<1>0. /\ found' = found /\ reading' = TRUE /\ list' = l /\ got' = got \cup Page(l)
      /\ given' = given + Cardinality(Page(l)) /\ done' = (Page(l) = Rest(l))
      /\ IF Page(l) = Rest(l) THEN cursor' = 0
         ELSE \E f \in Page(l) : cursor' = f.after /\ \A g \in Page(l) : g.after <= f.after
  BY DEF Follow
<1>1. /\ Page(l) \subseteq Rest(l) /\ Rest(l) \subseteq found[l]
      /\ got \subseteq found[l] /\ base' \subseteq found[l]
      /\ \A f \in got : f.after <= cursor
      /\ \A f \in base' : f.after <= cursor => f \in got
      /\ l \notin Merged => \A f \in found[l] : f.after <= cursor => f \in got
      /\ got \cap Page(l) = {}
  BY PageIsNew
<1>2. \A f \in found[l] : f.after \in Nat
  BY DEF IInv, FoundOK, Placed
<1>3. cursor \in Nat
  BY DEF IInv, ReaderOK
<1>4. \A f \in found[l] : f.after <= cursor \/ f \in Rest(l)
  BY <1>2, <1>3 DEF Rest
<1>5. FoundOK'
  BY <1>0 DEF IInv, FoundOK
<1>6. given' = Cardinality(got')
  <2>1. IsFiniteSet(found[l]) /\ got \in SUBSET found[l] /\ Page(l) \in SUBSET found[l]
    BY <1>1 DEF IInv, FoundOK
  <2>2. IsFiniteSet(got) /\ IsFiniteSet(Page(l))
    BY <2>1, FS_Subset
  <2>3. Cardinality(got \cup Page(l)) = Cardinality(got) + Cardinality(Page(l)) - Cardinality({})
    BY <1>1, <2>2, FS_Union
  <2>4. Cardinality({}) = 0 /\ Cardinality(got) \in Nat /\ Cardinality(Page(l)) \in Nat
    BY <2>2, FS_EmptySet, FS_CardinalityType
  <2>5. given = Cardinality(got)
    BY <2>4 DEF IInv, ReaderOK
  <2> QED BY <1>0, <2>3, <2>4, <2>5
<1>7. CASE Page(l) = Rest(l)
  <2>1. cursor' = 0 /\ done' = TRUE
    BY <1>0, <1>7
  <2>2. ReaderOK'
    BY <1>0, <1>1, <1>6, <2>1 DEF ReaderOK
  <2>3. AtCursor'
    BY <2>1 DEF AtCursor
  <2>4. \A f \in found[l] : f.after <= cursor \/ f \in got'
    BY <1>0, <1>4, <1>7
  <2>5. base' \subseteq got'
    BY <1>0, <1>1, <2>4
  <2>6. l \notin Merged => \A f \in found[l] : f \in got'
    BY <1>0, <1>1, <2>4
  <2>7. AtEnd'
    BY <1>0, <2>5, <2>6 DEF AtEnd
  <2> QED BY <1>5, <2>2, <2>3, <2>7 DEF IInv
<1>8. CASE Page(l) # Rest(l)
  <2>1. PICK f \in Page(l) : cursor' = f.after /\ \A g \in Page(l) : g.after <= f.after
    BY <1>0, <1>8
  <2>2. done' = FALSE
    BY <1>0, <1>8
  <2>3. cursor' \in Nat /\ cursor < cursor'
    BY <1>1, <1>2, <1>3, <2>1 DEF Rest
  <2>4. ReaderOK'
    BY <1>0, <1>1, <1>6, <2>3 DEF ReaderOK
  <2>5. \A g \in got' : g.after <= cursor'
    BY <1>0, <1>1, <1>2, <1>3, <2>1, <2>3
  <2>6. \A g \in found[l] : g.after <= cursor' => g.after <= cursor \/ g \in Page(l)
    BY <1>4, <2>1, PageIsFirst DEF IInv
  <2>7. AtCursor'
    BY <1>0, <1>1, <2>1, <2>5, <2>6 DEF AtCursor
  <2>8. AtEnd'
    BY <2>2 DEF AtEnd
  <2> QED BY <1>5, <2>4, <2>7, <2>8 DEF IInv
<1> QED BY <1>7, <1>8

-----------------------------------------------------------------------------
(* The theorems                                                            *)

\* What a client has of a list, and where its cursor is, fit together.
THEOREM Invariance == ASSUME CursorAssumption PROVE Spec => []IInv
<1>1. IInv /\ [Next]_vars => IInv'
  <2> SUFFICES ASSUME IInv, [Next]_vars PROVE IInv'
    OBVIOUS
  <2>1. CASE Grow
    BY <2>1, KeptByGrow
  <2>2. CASE \E l \in List : Follow(l)
    BY <2>2, KeptByFollow
  <2>3. CASE UNCHANGED vars
    BY <2>3 DEF vars, IInv, FoundOK, ReaderOK, AtCursor, AtEnd
  <2> QED BY <2>1, <2>2, <2>3 DEF Next
<1> QED BY <1>1, Initially, PTL DEF Spec

\* api_findings.go: whatever is written between its requests, a client gets no
\* finding twice and misses none there was when it began.
THEOREM NothingIsMissed == ASSUME CursorAssumption PROVE Spec => []NothingMissed
<1>1. IInv => NothingMissed
  <2> SUFFICES ASSUME IInv, reading PROVE NothingMissed
    BY DEF NothingMissed
  <2>1. list \in List /\ got \subseteq found[list] /\ given = Cardinality(got)
    BY DEF IInv, ReaderOK
  <2>2. CASE done
    BY <2>1, <2>2 DEF IInv, AtEnd, NothingMissed
  <2>3. CASE ~done
    <3>1. \A f \in found[list] : f.after \in Nat
      BY <2>1 DEF IInv, FoundOK, Placed
    <3>2. \A f \in found[list], g \in got : f.after <= g.after => f.after <= cursor
      BY <2>1, <2>3, <3>1 DEF IInv, AtCursor, ReaderOK
    <3> QED BY <2>1, <2>3, <3>2 DEF IInv, AtCursor, NothingMissed
  <2> QED BY <2>2, <2>3
<1> QED BY <1>1, Invariance, PTL

-----------------------------------------------------------------------------
(* Numbered pages                                                          *)

\* How many rows there are before page n, and whether it shows the i-th row.
RowsBefore(n) == (n - 1) * PaginationMax
ShowsRow(rows, n, i) == i - RowsBefore(n) \in 1..Len(NthPage(rows, n))

\* The number of pages is rounded up.
LEMMA RoundedUp ==
  ASSUME NEW n \in Nat
  PROVE  /\ PageCount(n) \in Nat
         /\ RowsBefore(PageCount(n)) < n
         /\ n <= RowsBefore(PageCount(n) + 1)
BY PaginationAssumption, Z3 DEF PageCount, RowsBefore

\* Pages follow each other.
LEMMA PagesFollow ==
  ASSUME NEW n \in Nat, NEW m \in Nat
  PROVE  /\ RowsBefore(n) \in Int /\ RowsBefore(n + 1) = RowsBefore(n) + PaginationMax
         /\ RowsBefore(1) = 0
         /\ n < m => RowsBefore(n + 1) <= RowsBefore(m)
BY PaginationAssumption, Z3 DEF RowsBefore

\* Numbers.
LEMMA BeforeIsInt ==
  ASSUME NEW n \in Nat
  PROVE  n + 1 \in Nat /\ RowsBefore(n) \in Int /\ RowsBefore(n + 1) \in Int
BY PaginationAssumption, Z3 DEF RowsBefore

\* A page shows the rows after those of the pages before it.
LEMMA PageOfRows ==
  ASSUME NEW S, NEW rows \in Seq(S), NEW n \in Nat \ {0}
  PROVE  /\ Len(NthPage(rows, n)) = IF Len(rows) <= RowsBefore(n) THEN 0
                                    ELSE IF Len(rows) < RowsBefore(n + 1)
                                         THEN Len(rows) - RowsBefore(n) ELSE PaginationMax
         /\ \A j \in 1..Len(NthPage(rows, n)) : NthPage(rows, n)[j] = rows[RowsBefore(n) + j]
<1>1. PICK first \in Nat : /\ first = RowsBefore(n) /\ RowsBefore(n + 1) = first + PaginationMax
                            /\ n * PaginationMax = first + PaginationMax
  BY PaginationAssumption, Z3 DEF RowsBefore
<1>2. PICK end \in Nat : end = IF first + PaginationMax < Len(rows) THEN first + PaginationMax
                               ELSE Len(rows)
  BY PaginationAssumption
<1>3. NthPage(rows, n) = SubSeq(rows, first + 1, end)
  <2>1. n * PaginationMax - PaginationMax + 1 = first + 1
    BY <1>1, PaginationAssumption
  <2> QED BY <1>1, <1>2, <2>1 DEF NthPage
<1>4. CASE Len(rows) <= first
  <2>1. end = Len(rows)
    BY <1>2, <1>4, PaginationAssumption
  <2>2. Len(SubSeq(rows, first + 1, end)) = 0
    BY <1>4, <2>1
  <2> QED BY <1>1, <1>3, <1>4, <2>2
<1>5. CASE first < Len(rows)
  <2>1. first < end /\ end <= Len(rows)
    BY <1>2, <1>5, PaginationAssumption
  <2>2. /\ Len(SubSeq(rows, first + 1, end)) = end - first
        /\ \A j \in 1..(end - first) : SubSeq(rows, first + 1, end)[j] = rows[first + j]
    BY <2>1
  <2>3. Len(NthPage(rows, n)) = end - first
    BY <1>3, <2>2
  <2>4. end - first = IF Len(rows) < first + PaginationMax THEN Len(rows) - first ELSE PaginationMax
    BY <1>2, <1>5, PaginationAssumption
  <2> QED BY <1>1, <1>3, <1>5, <2>2, <2>3, <2>4
<1>6. Len(rows) \in Nat
  OBVIOUS
<1> QED BY <1>4, <1>5, <1>6

\* On the pages that are counted (repository/pagereport.go:905) each row of a list
\* is shown once, in its place, and no page is empty or has too many rows
\* (repository/pagereport.go:838), if what is counted is the list.
THEOREM PagesShowAll ==
  ASSUME NEW S, NEW rows \in Seq(S)
  PROVE  /\ \A n \in 1..PageCount(Len(rows)) : Len(NthPage(rows, n)) \in 1..PaginationMax
         /\ \A i \in 1..Len(rows) : \E n \in 1..PageCount(Len(rows)) :
              /\ NthPage(rows, n)[i - RowsBefore(n)] = rows[i]
              /\ \A m \in Nat \ {0} : ShowsRow(rows, m, i) <=> m = n
<1>1. Len(rows) \in Nat
  OBVIOUS
<1>2. ASSUME NEW n \in 1..PageCount(Len(rows)) PROVE Len(NthPage(rows, n)) \in 1..PaginationMax
  <2>1. PageCount(Len(rows)) \in Nat /\ RowsBefore(PageCount(Len(rows))) < Len(rows)
    BY <1>1, RoundedUp
  <2>2. n \in Nat \ {0} /\ n <= PageCount(Len(rows))
    BY <2>1
  <2>3. /\ RowsBefore(n) \in Int /\ RowsBefore(PageCount(Len(rows))) \in Int
        /\ RowsBefore(n) <= RowsBefore(PageCount(Len(rows)))
        /\ RowsBefore(n + 1) = RowsBefore(n) + PaginationMax
    <3>1. n = PageCount(Len(rows)) \/ RowsBefore(n + 1) <= RowsBefore(PageCount(Len(rows)))
      BY <2>1, <2>2, PagesFollow
    <3>2. /\ RowsBefore(n) \in Int /\ RowsBefore(PageCount(Len(rows))) \in Int
          /\ RowsBefore(n + 1) = RowsBefore(n) + PaginationMax
      BY <2>1, <2>2, PagesFollow
    <3> QED BY <3>1, <3>2, PaginationAssumption
  <2>4. RowsBefore(n) < Len(rows)
    BY <1>1, <2>1, <2>3
  <2> QED BY <1>1, <2>2, <2>3, <2>4, PageOfRows, PaginationAssumption
<1>3. ASSUME NEW i \in 1..Len(rows)
      PROVE  \E n \in 1..PageCount(Len(rows)) :
               /\ NthPage(rows, n)[i - RowsBefore(n)] = rows[i]
               /\ \A m \in Nat \ {0} : ShowsRow(rows, m, i) <=> m = n
  <2>1. i \in Nat \ {0} /\ i <= Len(rows)
    BY <1>1
  <2>2. PICK n \in Nat : n = PageCount(i) /\ RowsBefore(n) < i /\ i <= RowsBefore(n + 1)
    BY <2>1, RoundedUp, Zenon
  <2>3. n # 0 /\ n <= PageCount(Len(rows)) /\ PageCount(Len(rows)) \in Nat
    <3>1. PICK k \in Nat : k = PageCount(Len(rows)) /\ Len(rows) <= RowsBefore(k + 1)
      BY <1>1, RoundedUp
    <3>2. /\ RowsBefore(n) \in Int /\ RowsBefore(n + 1) \in Int /\ RowsBefore(k + 1) \in Int
          /\ k + 1 \in Nat /\ n + 1 \in Nat
      BY BeforeIsInt
    <3>3. ~(k < n)
      <4> SUFFICES ASSUME k < n PROVE FALSE
        OBVIOUS
      <4>1. RowsBefore(k + 1) <= RowsBefore(n)
        BY PagesFollow
      <4> QED BY <1>1, <2>1, <2>2, <3>1, <3>2, <4>1
    <3>4. n # 0
      BY <2>1, <2>2, PagesFollow
    <3> QED BY <3>1, <3>3, <3>4
  <2>4. ASSUME NEW m \in Nat \ {0} PROVE ShowsRow(rows, m, i) <=> RowsBefore(m) < i /\ i <= RowsBefore(m + 1)
    <3>1. RowsBefore(m) \in Int /\ RowsBefore(m + 1) = RowsBefore(m) + PaginationMax
      BY PagesFollow
    <3> QED BY <1>1, <2>1, <3>1, PageOfRows, PaginationAssumption DEF ShowsRow
  <2>5. ASSUME NEW m \in Nat \ {0}, RowsBefore(m) < i, i <= RowsBefore(m + 1) PROVE m = n
    <3>1. /\ RowsBefore(n) \in Int /\ RowsBefore(n + 1) \in Int
          /\ RowsBefore(m) \in Int /\ RowsBefore(m + 1) \in Int
      BY BeforeIsInt
    <3>2. ~(n < m)
      <4>1. n < m => RowsBefore(n + 1) <= RowsBefore(m)
        BY PagesFollow
      <4> QED BY <2>1, <2>2, <2>5, <3>1, <4>1
    <3>3. ~(m < n)
      <4>1. m < n => RowsBefore(m + 1) <= RowsBefore(n)
        BY PagesFollow
      <4> QED BY <2>1, <2>2, <2>5, <3>1, <4>1
    <3> QED BY <3>2, <3>3
  <2>6. ShowsRow(rows, n, i)
    BY <2>2, <2>3, <2>4
  <2>7. NthPage(rows, n)[i - RowsBefore(n)] = rows[i]
    <3>1. RowsBefore(n) \in Int /\ RowsBefore(n) + (i - RowsBefore(n)) = i
      <4>1. RowsBefore(n) \in Int
        BY BeforeIsInt, Zenon
      <4> QED BY <2>1, <4>1
    <3>2. NthPage(rows, n)[i - RowsBefore(n)] = rows[RowsBefore(n) + (i - RowsBefore(n))]
      BY <2>3, <2>6, PageOfRows DEF ShowsRow
    <3> QED BY <3>1, <3>2
  <2>8. n \in 1..PageCount(Len(rows))
    BY <2>3
  <2>9. \A m \in Nat \ {0} : ShowsRow(rows, m, i) <=> m = n
    BY <2>2, <2>4, <2>5, <2>6
  <2> QED BY <2>7, <2>8, <2>9
<1> QED BY <1>2, <1>3
=============================================================================
