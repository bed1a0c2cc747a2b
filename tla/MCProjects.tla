----------------------------- MODULE MCProjects -----------------------------
(***************************************************************************)
(* The two sides that change users and projects in one database: the web   *)
(* interface (Accounts) and the API (ApiProjects).  They share no row: the *)
(* user of an API tenant cannot sign in, and the API sees only projects of *)
(* its tenants.  Requests are made to one side in each behaviour.          *)
(***************************************************************************)
EXTENDS Accounts, ApiProjects

CONSTANTS u1, u2, p1, p2, add1, edit1, start1, start2, start3, delete1, account1, signup1,
          t1, x1, provision1, provision2, put1, put2, put3, put4, patch1, patch2

MCKindOf == [r \in Req |->
  CASE r = add1 -> "add" [] r = edit1 -> "edit" [] r \in {start1, start2, start3} -> "start"
    [] r = delete1 -> "delete" [] r = account1 -> "account" [] r = signup1 -> "signup"]
MCTargetOf == [r \in Req |-> CASE r = signup1 -> u2 [] r \in {add1, start3} -> p2 [] OTHER -> p1]
MCEmailOf == [u \in User |-> "address"]
MCFrom == [r \in Req |-> "address"]
MCOwned == [p \in Project |-> IF p = p1 THEN u1 ELSE None]

MCOp == [c \in Call |-> CASE c \in {provision1, provision2} -> "provision"
                          [] c \in {patch1, patch2} -> "patch" [] OTHER -> "put"]
MCTenantOf == [c \in Call |-> t1]
MCNameOf == [c \in Call |-> x1]
\* put2 repeats put1, put3 uses its key for another request, put4 is a new one.
MCIdemOf == [c \in Call |-> IF c = put4 THEN "i2" ELSE "i1"]
MCKeyOf == [c \in Call |-> "k"]
MCField == {"archive", "robots"}
MCBody == [c \in Call |->
  CASE c \in {put1, put2} -> [f \in MCField |-> FALSE]
    [] c \in {put3, put4} -> [f \in MCField |-> f = "robots"]
    [] c = patch1 -> [f \in {"archive"} |-> TRUE]
    [] c = patch2 -> [f \in {"robots"} |-> TRUE]
    [] OTHER -> << >>]

\* Bound: which requests of the web interface, and which calls of the API,
\* meet in one behaviour.
MCWorkloads == { {start1, start2, delete1}, {start1, edit1, delete1}, {start1, start2, account1},
                 {start1, delete1, account1}, {start1, add1, start3, account1},
                 {signup1, add1, account1} }
MCCalls == { {provision1, provision2, put1}, {provision1, put1, put2, put3, put4},
             {provision1, put1, put2, put4, patch1}, {provision1, put1, patch1, patch2} }
Begun == {r \in Req : pc[r] \notin {"auth", "known"}}
Called == {c \in Call : at[c] # "begin"}

Init == AccountsInit /\ ApiInit
Next == \/ /\ AccountsNext /\ \E w \in MCWorkloads : Begun' \subseteq w
           /\ Called = {} /\ now = 0 /\ UNCHANGED apiVars
        \/ /\ ApiNext /\ \E w \in MCCalls : Called' \subseteq w
           /\ Begun = {} /\ crashes = 0 /\ UNCHANGED accountsVars
Spec == /\ Init /\ [][Next]_<<accountsVars, apiVars>>
        /\ AccountsFairness
=============================================================================
