----------------------------- MODULE RateLimiter -----------------------------
(***************************************************************************)
(* FixedWindowLimiter of internal/api/ratelimit.go.  The caller reads the  *)
(* clock first (t) and takes the lock later, so a caller that was slow in  *)
(* between brings the number of a window that is over.                     *)
(***************************************************************************)
EXTENDS Integers

CONSTANTS
  Class,       \* classes of requests that are counted
  Subject,     \* who is counted: keys or tenants
  Limit,       \* per class; 0 is no limit
  WindowSize   \* ticks of the clock

ASSUME LimiterAssumption ==
  /\ Limit \in [Class -> Nat]
  /\ WindowSize \in Nat \ {0}

VARIABLE windows   \* the window of each class and subject

NoWindow == [start |-> -1, count |-> 0]
LimiterInit == windows = [w \in Class \X Subject |-> NoWindow]

WindowAt(t) == t \div WindowSize
Limited(class) == Limit[class] > 0

\* The window the call counts in: a window with another start is dropped, the
\* newer one too.
Current(class, s, t) ==
  IF windows[<<class, s>>].start = WindowAt(t)
  THEN windows[<<class, s>>]
  ELSE [start |-> WindowAt(t), count |-> 0]

\* Mutant of Admits: one request more than the limit.
Admits_oneMore(class, s, t) == Current(class, s, t).count <= Limit[class]

Admits(class, s, t) == Current(class, s, t).count < Limit[class]

Allow(class, s, t) ==
  windows' = [windows EXCEPT ![<<class, s>>] =
    LET cur == Current(class, s, t)
    IN  [cur EXCEPT !.count = IF Admits(class, s, t) THEN @ + 1 ELSE @]]

\* The clock of this call is behind the window that is open.
Late(class, s, t) == WindowAt(t) < windows[<<class, s>>].start
=============================================================================
