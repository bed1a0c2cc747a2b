----------------------------- MODULE CrawlRecord -----------------------------
(***************************************************************************)
(* What the API promises of a crawl, whatever fails: its record only moves *)
(* forward and its last state is final; a project has at most one crawl    *)
(* queued or running; a crawl is called succeeded only with all its        *)
(* findings stored; and from the moment it is known to run, no findings of *)
(* it are deleted.                                                         *)
(***************************************************************************)
CONSTANTS Crawl, ProjectOf

VARIABLES
  state,     \* "none" before the crawl is accepted
  running,   \* crawls that have been seen running
  findings   \* "none", "partial", "finished" or "deleted"

vars == <<state, running, findings>>

Open(c) == state[c] \in {"queued", "running"}

Init ==
  /\ state = [c \in Crawl |-> "none"]
  /\ running = {}
  /\ findings = [c \in Crawl |-> "none"]

Accept(c) ==
  /\ state[c] = "none"
  /\ \A d \in Crawl : ProjectOf[d] = ProjectOf[c] => ~Open(d)
  /\ state' = [state EXCEPT ![c] = "queued"]
  /\ UNCHANGED <<running, findings>>

Run(c) ==
  /\ state[c] = "queued"
  /\ state' = [state EXCEPT ![c] = "running"]
  /\ running' = running \cup {c}
  /\ UNCHANGED findings

End(c) ==
  /\ Open(c)
  /\ \/ state' = [state EXCEPT ![c] = "failed"]
     \/ state[c] = "running" /\ state' = [state EXCEPT ![c] = "canceled"]
     \/ /\ state[c] = "running" /\ findings[c] = "finished"
        /\ state' = [state EXCEPT ![c] = "succeeded"]
  /\ UNCHANGED <<running, findings>>

Store(c) ==
  /\ \/ findings[c] = "none" /\ findings' = [findings EXCEPT ![c] = "partial"]
     \/ findings[c] = "partial" /\ findings' = [findings EXCEPT ![c] = "finished"]
  /\ UNCHANGED <<state, running>>

Delete(c) ==
  /\ c \notin running
  /\ findings' = [findings EXCEPT ![c] = "deleted"]
  /\ UNCHANGED <<state, running>>

\* A restart: every open crawl has failed, some findings are deleted.
Recover ==
  /\ state' \in {state, [c \in Crawl |-> IF Open(c) THEN "failed" ELSE state[c]]}
  /\ \E D \in SUBSET (Crawl \ running) :
       findings' = [c \in Crawl |-> IF c \in D THEN "deleted" ELSE findings[c]]
  /\ UNCHANGED running

Next ==
  \/ \E c \in Crawl : Accept(c) \/ Run(c) \/ End(c) \/ Store(c) \/ Delete(c)
  \/ Recover

Spec == Init /\ [][Next]_vars
=============================================================================
