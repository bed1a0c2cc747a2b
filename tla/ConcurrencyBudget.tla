-------------------------- MODULE ConcurrencyBudget ---------------------------
(***************************************************************************)
(* ConcurrencyBudget of internal/api/ratelimit.go: how many operations run *)
(* at once, per key (the tenant) and in total.  A mutex makes each call    *)
(* one step; a limit of 0 is no limit.                                     *)
(***************************************************************************)
EXTENDS Naturals

CONSTANTS Key, KeyLimit, TotalLimit

VARIABLES
  perKey,   \* operations in progress per key; a missing entry of the map is 0
  total,    \* operations in progress
  holders   \* the release functions handed out and not called yet

budgetVars == <<perKey, total, holders>>

BudgetInit ==
  /\ perKey = [k \in Key |-> 0]
  /\ total = 0
  /\ holders = {}

Full(k) ==
  \/ KeyLimit > 0 /\ perKey[k] >= KeyLimit
  \/ TotalLimit > 0 /\ total >= TotalLimit

\* h names the release function that Acquire returns.
Acquire(k, h) ==
  /\ ~Full(k)
  /\ perKey' = [perKey EXCEPT ![k] = @ + 1]
  /\ total' = total + 1
  /\ holders' = holders \cup {h}

\* Mutant of Release: without the sync.Once.
Release_again(k, h) ==
  /\ perKey' = [perKey EXCEPT ![k] = @ - 1]
  /\ total' = total - 1
  /\ holders' = holders \ {h}

\* sync.Once: only the first call counts.
Release(k, h) ==
  IF h \in holders
  THEN /\ perKey' = [perKey EXCEPT ![k] = @ - 1]
       /\ total' = total - 1
       /\ holders' = holders \ {h}
  ELSE UNCHANGED budgetVars
=============================================================================
