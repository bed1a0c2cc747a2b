---------------------------- MODULE FindingsCursor ----------------------------
(***************************************************************************)
(* What the API promises a client that reads a list of findings with a     *)
(* cursor while the crawl still writes them.  A finding has a place in its *)
(* list, the id it is ordered by.  A list of one table grows at its end; a *)
(* merged list grows at the ends of several tables, which may come before  *)
(* places that were read already.                                          *)
(***************************************************************************)
EXTENDS Naturals, FiniteSets

CONSTANTS
  List, Merged,  \* the lists; those of several tables
  PageLimit      \* rows a client asks for

\* What the proofs assume, and an implementation has to give.
CursorAssumption == Merged \subseteq List /\ PageLimit \in Nat \ {0}

VARIABLES
  found,    \* the findings of each list
  reading, list, \* whether the client has begun, and with which list
  cursor,   \* where its next page begins; 0: at the first place
  got, given, \* the findings it has, and how many it was given
  base,     \* those there were when it began
  done      \* whether a page had no cursor to another one

vars == <<found, reading, list, cursor, got, given, base, done>>

Init ==
  /\ found = [l \in List |-> {}]
  /\ ~reading /\ cursor = 0 /\ got = {} /\ given = 0 /\ base = {} /\ ~done

\* One finding to a place, and no place before the first.
Placed(findings) ==
  /\ \A f \in findings : f.after \in Nat \ {0}
  /\ \A f, g \in findings : f.after = g.after => f = g

\* Rows are written; nothing that was found changes or goes.
Grow ==
  /\ DOMAIN found' = List
  /\ \A l \in List :
       /\ IsFiniteSet(found'[l]) /\ Placed(found'[l]) /\ found[l] \subseteq found'[l]
       /\ l \notin Merged =>
            \A f \in found[l], g \in found'[l] \ found[l] : f.after < g.after
  /\ UNCHANGED <<reading, list, cursor, got, given, base, done>>

\* What comes after the cursor, and as many of these as fit on a page, those
\* with the lowest places.
Rest(l) == {f \in found[l] : f.after > cursor}
Page(l) == {f \in Rest(l) : Cardinality({g \in Rest(l) : g.after < f.after}) < PageLimit}

\* The next page.  If there is more, its cursor is the last place on it.
Follow(l) ==
  /\ ~done /\ (reading => list = l)
  /\ reading' = TRUE /\ list' = l
  /\ got' = got \cup Page(l) /\ given' = given + Cardinality(Page(l))
  /\ base' = IF reading THEN base ELSE found[l]
  /\ done' = (Page(l) = Rest(l))
  /\ IF Page(l) = Rest(l) THEN cursor' = 0
     ELSE \E f \in Page(l) : cursor' = f.after /\ \A g \in Page(l) : g.after <= f.after
  /\ UNCHANGED found

Next == Grow \/ \E l \in List : Follow(l)

Spec == Init /\ [][Next]_vars

-----------------------------------------------------------------------------
\* A client that follows the cursors to the end gets no finding twice and
\* misses none there was when it began; of a list of one table it misses none
\* before the last place it has read.
NothingMissed ==
  reading =>
    /\ got \subseteq found[list] /\ given = Cardinality(got)
    /\ done => base \subseteq got
    /\ list \notin Merged =>
         \A f \in found[list], g \in got : f.after <= g.after => f \in got
=============================================================================
