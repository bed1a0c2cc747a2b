-------------------------- MODULE MCCrawlLifecycle ---------------------------
(***************************************************************************)
(* Instances of CrawlLifecycle for TLC.  Requests r1 and r2 are for        *)
(* project p1, r3 is for p2 if it exists; with key k2, r2 is a new request *)
(* and otherwise it repeats r1.  Project p2 belongs to t2 if it exists.    *)
(***************************************************************************)
EXTENDS CrawlLifecycle

CONSTANTS r1, r2, r3, p1, p2, k1, k2, k3, t1, t2

MCProjectOf == [r \in Req |-> IF r = r3 /\ p2 \in Project THEN p2 ELSE p1]
MCTenantOf  == [p \in Project |-> IF p = p2 /\ t2 \in Tenant THEN t2 ELSE t1]
MCIdemOf    == [r \in Req |-> CASE r = r2 /\ k2 \in Idem -> k2
                                [] r = r3 /\ k3 \in Idem -> k3
                                [] OTHER -> k1]
=============================================================================
