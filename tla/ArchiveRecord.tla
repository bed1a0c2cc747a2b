---------------------------- MODULE ArchiveRecord ----------------------------
(***************************************************************************)
(* What an API client may rely on for the archive of a crawl, whatever     *)
(* fails: it is published at most once; the answer on it is final once it  *)
(* is ready or failed, until it expires; nothing is removed before that;   *)
(* and when the export is forgotten, so are its files.                     *)
(***************************************************************************)
CONSTANT Crawl

VARIABLES
  status,     \* "none", "pending", "ready" or "failed"
  archive,    \* "none", "published" or "removed"
  expired     \* exports that are older than seven days

vars == <<status, archive, expired>>

Init ==
  /\ status = [c \in Crawl |-> "none"]
  /\ archive = [c \in Crawl |-> "none"]
  /\ expired = {}

Publish(c) ==
  /\ archive[c] = "none"
  /\ archive' = [archive EXCEPT ![c] = "published"]
  /\ UNCHANGED <<status, expired>>

Reserve(c) ==
  /\ status[c] = "none"
  /\ status' = [status EXCEPT ![c] = "pending"]
  /\ UNCHANGED <<archive, expired>>

\* An export of an archive nobody published can only fail.
Settle(c) ==
  /\ status[c] = "pending"
  /\ \/ status' = [status EXCEPT ![c] = "failed"]
     \/ archive[c] # "none" /\ status' = [status EXCEPT ![c] = "ready"]
  /\ UNCHANGED <<archive, expired>>

Expire(c) ==
  /\ status[c] # "none"
  /\ expired' = expired \cup {c}
  /\ UNCHANGED <<status, archive>>

Remove(c) ==
  /\ c \in expired /\ archive[c] = "published"
  /\ archive' = [archive EXCEPT ![c] = "removed"]
  /\ UNCHANGED <<status, expired>>

Forget(c) ==
  /\ c \in expired /\ archive[c] # "published"
  /\ status' = [status EXCEPT ![c] = "none"]
  /\ expired' = expired \ {c}
  /\ UNCHANGED archive

Next == \E c \in Crawl :
  \/ Publish(c) \/ Reserve(c) \/ Settle(c)
  \/ Expire(c) \/ Remove(c) \/ Forget(c)

Spec == Init /\ [][Next]_vars
=============================================================================
