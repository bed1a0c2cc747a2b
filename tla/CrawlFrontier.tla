---------------------------- MODULE CrawlFrontier ----------------------------
(***************************************************************************)
(* What one crawl promises, with no goroutine, channel or queue in sight.  *)
(* A crawl discovers URLs, admits some of them, and visits each admitted   *)
(* URL once.  It ends when nothing admitted is left unvisited; the only    *)
(* other ways to end are the crawl limit and being cut short (a stop, the  *)
(* two hour deadline, a panic of the response callback).                   *)
(***************************************************************************)
EXTENDS Naturals

CONSTANTS URL, Limit

VARIABLES
  seen,      \* URLs the crawl has come across
  pending,   \* admitted and not visited yet
  visited,   \* answered, successfully or not
  count,     \* visits so far
  running,
  cut        \* the crawl has been told to end early

vars == <<seen, pending, visited, count, running, cut>>

Init ==
  /\ seen = {} /\ pending = {} /\ visited = {}
  /\ count = 0
  /\ running = TRUE
  /\ cut = FALSE

\* A new URL is admitted, or turned away by the domain and robots rules.
Discover(u) ==
  /\ running
  /\ u \notin seen
  /\ seen' = seen \cup {u}
  /\ pending' \in {pending, pending \cup {u}}
  /\ UNCHANGED <<visited, count, running, cut>>

Visit(u) ==
  /\ running
  /\ u \in pending
  /\ count < Limit
  /\ pending' = pending \ {u}
  /\ visited' = visited \cup {u}
  /\ count' = count + 1
  /\ UNCHANGED <<seen, running, cut>>

Cut ==
  /\ cut' = TRUE
  /\ UNCHANGED <<seen, pending, visited, count, running>>

\* Ending early counts as cut from the same step on.
Finish ==
  /\ running
  /\ running' = FALSE
  /\ \/ UNCHANGED cut /\ (pending = {} \/ cut \/ count >= Limit)
     \/ cut' = TRUE
  /\ UNCHANGED <<seen, pending, visited, count>>

Next ==
  \/ \E u \in URL : Discover(u) \/ Visit(u)
  \/ Cut
  \/ Finish

Spec == Init /\ [][Next]_vars
=============================================================================
