-------------------------- MODULE ApiExports_proofs --------------------------
(***************************************************************************)
(* Proofs about ApiExports, for any set of crawls and of requests, any     *)
(* number of failures, crashes and rows.  First, what a move of one worker *)
(* leaves alone, one lemma per part of the invariant; then one lemma per   *)
(* action; then the theorems.  Last, why a failed export has no archive.   *)
(***************************************************************************)
EXTENDS ApiExports, TLAPS

USE DEF rowVars, jobVars, localVars, purgeVars, runVars, procVars, faultVars,
        historyVars, NoFault, At, CurrentJob, JobId, Nobody

Places == {"idle", "open", "write", "bind", "insert", "select", "reject",
           "enter", "stat", "complete", "fail", "exit", "list", "sweep",
           "delete", "resolve", "serve", "finish", "retry", "gone"}

\* The parts of the type invariant: what workers hold, and the rest.
LocalsOK ==
  /\ pc \in [Worker -> Places]
  /\ target \in [Worker -> Crawl \cup {Boot}]
  /\ seen \in [Worker -> JobId]
  /\ saw \in [Client -> {"none", "queued", "running"} \cup Final]

RowsOK ==
  /\ crawlState \in [Crawl -> {"none", "queued", "running"} \cup Final]
  /\ bound \subseteq Crawl
  /\ handler \in [Crawl -> {"mark", "abort", "done"}]
  /\ ready \subseteq Crawl
  /\ outcome \in [Crawl -> {"none"} \cup Final]

JobsOK ==
  /\ jobState \in [Crawl -> {"none", "pending", "ready", "failed"}]
  /\ made \in [Crawl -> Nat]
  /\ expired \subseteq {c \in Crawl : jobState[c] # "none"}

FilesOK ==
  /\ disk \in [Crawl -> SUBSET {"partial", "file"}]
  /\ published \subseteq Crawl
  /\ crossed \subseteq Crawl

PurgeOK ==
  /\ todo \in [Worker -> SUBSET (Crawl \X Nat)]
  /\ victim \in [Worker -> JobId]

FaultOK ==
  /\ up \in BOOLEAN
  /\ crashes \in 0 .. MaxCrashes
  /\ failures \in 0 .. MaxFailures
  /\ hindered \subseteq Crawl

LEMMA TypeParts ==
  TypeOK <=> /\ LocalsOK /\ RowsOK /\ JobsOK /\ FilesOK /\ PurgeOK /\ FaultOK
             /\ inflight \subseteq JobId
BY DEF TypeOK, LocalsOK, RowsOK, JobsOK, FilesOK, PurgeOK, FaultOK, Places

LEMMA TypePartsNext ==
  TypeOK' <=> /\ LocalsOK' /\ RowsOK' /\ JobsOK' /\ FilesOK' /\ PurgeOK'
              /\ FaultOK' /\ inflight' \subseteq JobId'
BY DEF TypeOK, LocalsOK, RowsOK, JobsOK, FilesOK, PurgeOK, FaultOK, Places

LEMMA FaultKept ==
  ASSUME FaultOK, NEW w, UNCHANGED procVars, NoFault \/ Fault(w)
  PROVE  FaultOK'
BY ExportsAssumption DEF FaultOK, Fault

-----------------------------------------------------------------------------
(* Moves                                                                   *)

\* Only w moves.
Moves(w) ==
  /\ LocalsOK' /\ Placed'
  /\ \A v \in Worker \ {w} :
       pc'[v] = pc[v] /\ target'[v] = target[v] /\ seen'[v] = seen[v]
  /\ pc'[w] \notin {"idle", "list"} => target'[w] = target[w]
  /\ pc'[w] \in {"stat", "complete", "fail", "exit"} => seen'[w] = seen[w]

LEMMA GotoMoves ==
  ASSUME LocalsOK, Placed, NEW w \in Worker, NEW to \in Places,
         to = "idle" => w \in Client, pc[w] # "idle" \/ w \in Crawl,
         Goto(w, to)
  PROVE  Moves(w) /\ pc'[w] = to
<1> USE ExportsAssumption DEF Worker, LocalsOK, Goto
<1>1. LocalsOK'
  OBVIOUS
<1>2. pc'[w] = to
  OBVIOUS
<1>3. \A v \in Worker \ {w} :
        pc'[v] = pc[v] /\ target'[v] = target[v] /\ seen'[v] = seen[v]
  OBVIOUS
<1>4. to # "idle" => target' = target /\ seen' = seen
  OBVIOUS
<1>5. Placed'
  BY <1>2, <1>3, <1>4 DEF Placed
<1> QED BY <1>1, <1>2, <1>3, <1>4, <1>5 DEF Moves

\* What has to be known of a move for a part of the invariant to hold on.
KeepsSettling ==
  /\ \A v \in Crawl \cup Client : Settling(v)' => Settling(v)
  /\ \A v \in Crawl \cup Client : Settling(v)' \/ pc'[v] = "enter" =>
       /\ Settling(v) \/ pc[v] = "enter"
       /\ seen'[v] = seen[v] /\ target'[v] = target[v]
KeepsWriting ==
  \A c \in Crawl :
    /\ pc'[c] \in {"idle", "open"} => pc[c] \in {"idle", "open"}
    /\ pc'[c] = "write" => pc[c] \in {"open", "write"}
KeepsComplete ==
  \A v \in Crawl \cup Client : pc'[v] = "complete" =>
    pc[v] = "complete" /\ seen'[v] = seen[v] /\ target'[v] = target[v]
KeepsGone == \A c \in Crawl : pc[c] = "gone" => pc'[c] = "gone"
KeepsDelete == \A v \in Worker : pc'[v] = "delete" => pc[v] = "delete"

LEMMA KeepOneFinaliser ==
  ASSUME IInv, KeepsSettling, inflight' = inflight,
         \A c \in Crawl \cup {Boot} : made'[c] = made[c]
  PROVE  OneFinaliser'
<1>1. \A v \in Crawl \cup Client : target[v] \in Crawl \cup {Boot}
  BY TypeParts DEF IInv, LocalsOK, Worker
<1> QED BY <1>1 DEF IInv, OneFinaliser, KeepsSettling

LEMMA KeepPublished ==
  ASSUME IInv, KeepsWriting, KeepsComplete, disk' = disk, published' = published
  PROVE  Published'
BY DEF IInv, Published, KeepsWriting, KeepsComplete

LEMMA KeepDoomed ==
  ASSUME NEW j, Doomed(j), JobsOK, KeepsGone, UNCHANGED jobVars,
         disk'[j[1]] \subseteq disk[j[1]]
  PROVE  Doomed(j)'
BY DEF Doomed, KeepsGone

LEMMA KeepPurging ==
  ASSUME IInv, KeepsGone, KeepsDelete, UNCHANGED <<jobVars, disk, purgeVars>>
  PROVE  Purging'
<1>1. JobsOK
  BY TypeParts DEF IInv
<1>2. \A j : Doomed(j) => Doomed(j)'
  BY <1>1, KeepDoomed
<1> QED BY <1>2 DEF IInv, Purging, KeepsGone, KeepsDelete

LEMMA KeepNothingLeft ==
  ASSUME IInv, KeepsGone, UNCHANGED <<jobState, made, disk>>
  PROVE  NothingLeftBehind'
BY DEF IInv, NothingLeftBehind, KeepsGone

LEMMA KeepReady ==
  ASSUME IInv, UNCHANGED <<jobState, expired, crossed, disk>>
  PROVE  ReadyHasFile'
BY DEF IInv, ReadyHasFile

LEMMA KeepCompleting ==
  ASSUME IInv, KeepsComplete, UNCHANGED <<jobVars, disk>>
  PROVE  Completing'
BY DEF IInv, Completing, KeepsComplete

\* A step that changes neither jobs nor files.
LEMMA KeepAll ==
  ASSUME IInv, TypeOK', Placed', KeepsSettling, KeepsWriting, KeepsComplete,
         KeepsGone, KeepsDelete,
         UNCHANGED <<jobVars, disk, inflight, purgeVars, historyVars>>
  PROVE  IInv'
BY KeepOneFinaliser, KeepPublished, KeepPurging, KeepNothingLeft, KeepReady,
   KeepCompleting DEF IInv

-----------------------------------------------------------------------------
(* Steps that change neither jobs nor files                                *)

LEMMA StartCrawlInv ==
  ASSUME IInv, NEW c \in Crawl, StartCrawl(c)
  PROVE  IInv'
<1> USE ExportsAssumption DEF StartCrawl
<1>1. LocalsOK /\ Placed
  BY TypeParts DEF IInv
<1>2. LocalsOK'
  BY <1>1 DEF LocalsOK, Places, Worker
<1>3. pc'[c] = "open" /\ \A v \in Worker \ {c} : pc'[v] = pc[v]
  BY <1>1 DEF LocalsOK, Worker
<1>4. Placed'
  BY <1>1, <1>3 DEF Placed, Worker
<1>5. TypeOK'
  BY <1>2, TypeParts, TypePartsNext
  DEF IInv, RowsOK, JobsOK, FilesOK, PurgeOK, FaultOK, faultVars
<1>6. /\ KeepsSettling /\ KeepsWriting /\ KeepsComplete /\ KeepsGone
      /\ KeepsDelete
  BY <1>3 DEF KeepsSettling, KeepsWriting, KeepsComplete, KeepsGone,
     KeepsDelete, Settling, Worker, IInv, Published
<1> QED BY <1>4, <1>5, <1>6, KeepAll

LEMMA HandlerStepInv ==
  ASSUME IInv, NEW c \in Crawl, HandlerStep(c)
  PROVE  IInv'
<1> USE ExportsAssumption DEF HandlerStep
<1>1. RowsOK'
  BY TypeParts DEF IInv, RowsOK, MarkRow, CompleteRow, Final
<1>2. FaultOK'
  BY TypeParts, FaultKept DEF IInv
<1>3. TypeOK'
  BY <1>1, <1>2, TypeParts, TypePartsNext DEF IInv, LocalsOK, JobsOK, FilesOK, PurgeOK
<1>4. /\ KeepsSettling /\ KeepsWriting /\ KeepsComplete /\ KeepsGone
      /\ KeepsDelete /\ Placed'
  BY DEF KeepsSettling, KeepsWriting, KeepsComplete, KeepsGone,
     KeepsDelete, Settling, IInv, Published, Placed
<1> QED BY <1>3, <1>4, KeepAll

LEMMA BindRowInv ==
  ASSUME IInv, NEW c \in Crawl, BindRow(c)
  PROVE  IInv'
<1> USE ExportsAssumption DEF BindRow
<1>1. Moves(c) /\ pc[c] = "bind" /\ pc'[c] = "insert"
  BY TypeParts, GotoMoves DEF IInv, Places, Worker
<1>2. RowsOK'
  BY TypeParts DEF IInv, RowsOK, MarkRow, Final
<1>3. FaultOK'
  BY TypeParts, FaultKept DEF IInv
<1>4. TypeOK'
  BY <1>1, <1>2, <1>3, TypeParts, TypePartsNext DEF IInv, Moves, JobsOK, FilesOK, PurgeOK
<1>5. /\ KeepsSettling /\ KeepsWriting /\ KeepsComplete /\ KeepsGone
      /\ KeepsDelete /\ Placed'
  BY <1>1 DEF Moves, KeepsSettling, KeepsWriting, KeepsComplete, KeepsGone,
     KeepsDelete, Settling, IInv, Published, Worker
<1> QED BY <1>4, <1>5, KeepAll

LEMMA FinishRowInv ==
  ASSUME IInv, NEW c \in Crawl, FinishRow(c)
  PROVE  IInv'
<1> USE ExportsAssumption DEF FinishRow
<1>1. /\ Moves(c) /\ pc[c] \in {"finish", "retry"}
      /\ pc'[c] \in {"retry", "gone"}
  BY TypeParts, GotoMoves DEF IInv, Places, Worker
<1>2. RowsOK'
  BY TypeParts DEF IInv, RowsOK, CompleteRow, Final
<1>3. FaultOK'
  BY TypeParts, FaultKept DEF IInv
<1>4. TypeOK'
  BY <1>1, <1>2, <1>3, TypeParts, TypePartsNext DEF IInv, Moves, JobsOK, FilesOK, PurgeOK
<1>5. /\ KeepsSettling /\ KeepsWriting /\ KeepsComplete /\ KeepsGone
      /\ KeepsDelete /\ Placed'
  BY <1>1 DEF Moves, KeepsSettling, KeepsWriting, KeepsComplete, KeepsGone,
     KeepsDelete, Settling, IInv, Published, Worker
<1> QED BY <1>4, <1>5, KeepAll

LEMMA AskInv ==
  ASSUME IInv, NEW q \in Client, NEW c \in Crawl, Ask(q, c)
  PROVE  IInv'
<1> USE ExportsAssumption DEF Ask
<1>1. LocalsOK /\ Placed
  BY TypeParts DEF IInv
<1>2. LocalsOK'
  BY <1>1 DEF LocalsOK, Places, Worker
<1>3. /\ pc'[q] = "list" /\ target'[q] = c
      /\ \A v \in Worker \ {q} : pc'[v] = pc[v] /\ target'[v] = target[v]
  BY <1>1 DEF LocalsOK, Worker
<1>4. Placed'
  BY <1>1, <1>3 DEF Placed, Worker
<1>5. TypeOK'
  BY <1>2, TypeParts, TypePartsNext
  DEF IInv, RowsOK, JobsOK, FilesOK, PurgeOK, FaultOK, faultVars
<1>6. /\ KeepsSettling /\ KeepsWriting /\ KeepsComplete /\ KeepsGone
      /\ KeepsDelete
  BY <1>3 DEF KeepsSettling, KeepsWriting, KeepsComplete, KeepsGone,
     KeepsDelete, Settling, Worker, IInv, Published
<1> QED BY <1>4, <1>5, <1>6, KeepAll

LEMMA ResolveSourceInv ==
  ASSUME IInv, NEW q \in Client, ResolveSource(q)
  PROVE  IInv'
<1> USE ExportsAssumption DEF ResolveSource
<1>1. LocalsOK /\ Placed /\ bound \subseteq Crawl /\ pc[q] = "resolve"
  BY TypeParts DEF IInv, RowsOK
<1>2. Moves(q) /\ pc'[q] \in {"insert", "idle"}
  <2>1. CASE Goto(q, "idle")
    BY <1>1, <2>1, GotoMoves DEF Places, Worker
  <2>2. CASE /\ target[q] \in bound
             /\ pc' = [pc EXCEPT ![q] = "insert"]
             /\ saw' = [saw EXCEPT ![q] = crawlState[target[q]]]
             /\ UNCHANGED <<target, seen>>
    <3>1. crawlState[target[q]] \in {"none", "queued", "running"} \cup Final
      BY <1>1, <2>2, TypeParts DEF IInv, RowsOK
    <3>2. LocalsOK'
      BY <1>1, <2>2, <3>1 DEF LocalsOK, Places, Worker
    <3>3. pc'[q] = "insert" /\ \A v \in Worker \ {q} : pc'[v] = pc[v]
      BY <1>1, <2>2 DEF LocalsOK, Worker
    <3>4. Placed'
      BY <1>1, <2>2, <3>3 DEF Placed, Worker
    <3> QED BY <2>2, <3>2, <3>3, <3>4 DEF Moves
  <2> QED BY <2>1, <2>2
<1>3. FaultOK'
  BY TypeParts, FaultKept DEF IInv
<1>4. TypeOK'
  BY <1>2, <1>3, TypeParts, TypePartsNext DEF IInv, Moves, RowsOK, JobsOK, FilesOK, PurgeOK
<1>5. /\ KeepsSettling /\ KeepsWriting /\ KeepsComplete /\ KeepsGone
      /\ KeepsDelete /\ Placed'
  BY <1>2 DEF Moves, KeepsSettling, KeepsWriting, KeepsComplete, KeepsGone,
     KeepsDelete, Settling, IInv, Published, Worker
<1> QED BY <1>4, <1>5, KeepAll

LEMMA ServeInv ==
  ASSUME IInv, NEW q \in Client, Serve(q)
  PROVE  IInv'
<1> USE ExportsAssumption DEF Serve
<1>1. Moves(q) /\ pc[q] = "serve" /\ pc'[q] = "idle"
  BY TypeParts, GotoMoves DEF IInv, Places, Worker
<1>2. TypeOK'
  BY <1>1, TypeParts, TypePartsNext
  DEF IInv, Moves, RowsOK, JobsOK, FilesOK, PurgeOK, FaultOK, faultVars
<1>3. /\ KeepsSettling /\ KeepsWriting /\ KeepsComplete /\ KeepsGone
      /\ KeepsDelete /\ Placed'
  BY <1>1 DEF Moves, KeepsSettling, KeepsWriting, KeepsComplete, KeepsGone,
     KeepsDelete, Settling, IInv, Published, Worker
<1> QED BY <1>2, <1>3, KeepAll

LEMMA ReadFailsInv ==
  ASSUME IInv, NEW w \in Crawl \cup Client, ReadFails(w)
  PROVE  IInv'
<1> USE ExportsAssumption DEF ReadFails, Return
<1>1. /\ Moves(w)
      /\ pc'[w] = "idle" => w \in Client
      /\ \/ pc[w] = "select" /\ pc'[w] \in {"list", "idle"}
         \/ pc[w] = "stat" /\ pc'[w] = "fail"
  BY TypeParts, GotoMoves DEF IInv, Places, Worker
<1>2. FaultOK'
  BY TypeParts, FaultKept DEF IInv
<1>3. TypeOK'
  BY <1>1, <1>2, TypeParts, TypePartsNext
  DEF IInv, Moves, RowsOK, JobsOK, FilesOK, PurgeOK
<1>4. /\ KeepsSettling /\ KeepsWriting /\ KeepsComplete /\ KeepsGone
      /\ KeepsDelete /\ Placed'
  BY <1>1 DEF Moves, KeepsSettling, KeepsWriting, KeepsComplete, KeepsGone,
     KeepsDelete, Settling, IInv, Published, Worker
<1> QED BY <1>3, <1>4, KeepAll

LEMMA StatFileInv ==
  ASSUME IInv, NEW w \in Crawl \cup Client, StatFile(w)
  PROVE  IInv'
<1> USE ExportsAssumption DEF StatFile
<1>1. /\ Moves(w) /\ pc[w] = "stat"
      /\ \/ pc'[w] = "complete" /\ "file" \in disk[target[w]]
         \/ pc'[w] = "fail"
  BY TypeParts, GotoMoves DEF IInv, Places, Worker
<1>2. TypeOK'
  BY <1>1, TypeParts, TypePartsNext
  DEF IInv, Moves, RowsOK, JobsOK, FilesOK, PurgeOK, FaultOK, faultVars
<1>3. KeepsSettling /\ KeepsWriting /\ KeepsGone /\ KeepsDelete /\ Placed'
  BY <1>1 DEF Moves, KeepsSettling, KeepsWriting, KeepsGone, KeepsDelete,
     Settling, Worker
<1>4. \A v \in (Crawl \cup Client) \ {w} :
        pc'[v] = pc[v] /\ seen'[v] = seen[v] /\ target'[v] = target[v]
  BY <1>1 DEF Moves, Worker
<1>5. target'[w] = target[w] /\ target[w] \in Crawl
  BY <1>1 DEF Moves, IInv, Placed
<1>6. Published'
  BY <1>1, <1>3, <1>4, <1>5 DEF IInv, Published, KeepsWriting
<1>7. Completing'
  BY <1>1, <1>4, <1>5 DEF IInv, Completing
<1> QED BY <1>2, <1>3, <1>6, <1>7, KeepOneFinaliser, KeepPurging,
           KeepNothingLeft, KeepReady DEF IInv

-----------------------------------------------------------------------------
(* Who settles a job                                                       *)

LEMMA EnterInv ==
  ASSUME IInv, NEW w \in Crawl \cup Client, Enter(w)
  PROVE  IInv'
<1> USE ExportsAssumption DEF Enter, Return
<1>1. /\ Moves(w) /\ pc[w] = "enter"
      /\ pc'[w] = "idle" => w \in Client
      /\ \/ /\ pc'[w] = "stat" /\ seen[w] \notin inflight
            /\ inflight' = inflight \cup {seen[w]}
         \/ pc'[w] \in {"list", "idle"} /\ inflight' = inflight
  BY TypeParts, GotoMoves DEF IInv, Places, Worker
<1>2. inflight' \subseteq JobId'
  BY <1>1, TypeParts DEF IInv, LocalsOK, Worker
<1>3. TypeOK'
  BY <1>1, <1>2, TypeParts, TypePartsNext
  DEF IInv, Moves, RowsOK, JobsOK, FilesOK, PurgeOK, FaultOK, faultVars
<1>4. KeepsWriting /\ KeepsComplete /\ KeepsGone /\ KeepsDelete /\ Placed'
  BY <1>1 DEF Moves, KeepsWriting, KeepsComplete, KeepsGone, KeepsDelete,
     Worker
<1>5. \A v \in (Crawl \cup Client) \ {w} :
        pc'[v] = pc[v] /\ seen'[v] = seen[v] /\ target'[v] = target[v]
  BY <1>1 DEF Moves, Worker
<1>6. pc'[w] = "stat" => seen'[w] = seen[w] /\ target'[w] = target[w]
  BY <1>1 DEF Moves
<1>7. OneFinaliser'
  BY <1>1, <1>5, <1>6 DEF IInv, OneFinaliser, Settling
<1> QED BY <1>3, <1>4, <1>7, KeepPublished, KeepPurging, KeepNothingLeft,
           KeepReady, KeepCompleting DEF IInv

LEMMA ExitInv ==
  ASSUME IInv, NEW w \in Crawl \cup Client, Exit(w)
  PROVE  IInv'
<1> USE ExportsAssumption DEF Exit, Return
<1>1. /\ Moves(w) /\ pc[w] = "exit" /\ pc'[w] \in {"list", "idle"}
      /\ pc'[w] = "idle" => w \in Client
  BY TypeParts, GotoMoves DEF IInv, Places, Worker
<1>2. TypeOK'
  BY <1>1, TypeParts, TypePartsNext
  DEF IInv, Moves, RowsOK, JobsOK, FilesOK, PurgeOK, FaultOK, faultVars
<1>3. KeepsWriting /\ KeepsComplete /\ KeepsGone /\ KeepsDelete /\ Placed'
  BY <1>1 DEF Moves, KeepsWriting, KeepsComplete, KeepsGone, KeepsDelete,
     Worker
<1>4. \A v \in (Crawl \cup Client) \ {w} :
        pc'[v] = pc[v] /\ seen'[v] = seen[v] /\ target'[v] = target[v]
  BY <1>1 DEF Moves, Worker
<1>5. \A v \in (Crawl \cup Client) \ {w} : Settling(v) => seen[v] # seen[w]
  BY <1>1 DEF IInv, OneFinaliser, Settling
<1>6. OneFinaliser'
  BY <1>1, <1>4, <1>5 DEF IInv, OneFinaliser, Settling
<1> QED BY <1>2, <1>3, <1>6, KeepPublished, KeepPurging, KeepNothingLeft,
           KeepReady, KeepCompleting DEF IInv

LEMMA SelectJobInv ==
  ASSUME IInv, NEW w \in Crawl \cup Client, SelectJob(w)
  PROVE  IInv'
<1> USE ExportsAssumption DEF SelectJob
<1>1. LocalsOK /\ Placed /\ JobsOK /\ pc[w] = "select" /\ target[w] \in Crawl
  BY TypeParts DEF IInv, Placed
<1>2. AfterSelect(w) \in {"list", "reject", "enter", "serve", "idle"}
      /\ (AfterSelect(w) = "idle" => w \in Client)
      /\ (AfterSelect(w) = "enter" => jobState[target[w]] = "pending")
  BY DEF AfterSelect
<1>3. CASE AfterSelect(w) = "enter"
  <2>1. /\ pc'[w] = "enter" /\ seen'[w] = <<target[w], made[target[w]]>>
        /\ \A v \in Worker \ {w} : pc'[v] = pc[v] /\ seen'[v] = seen[v]
        /\ target' = target
    BY <1>1, <1>3 DEF LocalsOK, Worker
  <2>2. made[target[w]] \in Nat /\ made[target[w]] > 0
    BY <1>1, <1>2, <1>3 DEF IInv, Purging, JobsOK
  <2>3. LocalsOK'
    BY <1>1, <1>3, <2>2 DEF LocalsOK, Places, Worker
  <2>4. TypeOK'
    BY <2>3, TypeParts, TypePartsNext
    DEF IInv, RowsOK, JobsOK, FilesOK, PurgeOK, FaultOK, faultVars
  <2>5. /\ KeepsWriting /\ KeepsComplete /\ KeepsGone /\ KeepsDelete
        /\ Placed'
    BY <1>1, <2>1 DEF KeepsWriting, KeepsComplete, KeepsGone, KeepsDelete,
       Placed, Worker
  <2>6. OneFinaliser'
    BY <2>1, <2>2 DEF IInv, OneFinaliser, Settling, Worker
  <2> QED BY <2>4, <2>5, <2>6, KeepPublished, KeepPurging, KeepNothingLeft,
             KeepReady, KeepCompleting DEF IInv
<1>4. CASE AfterSelect(w) # "enter"
  <2>1. /\ Moves(w) /\ pc'[w] \in {"list", "reject", "serve", "idle"}
        /\ pc'[w] = "idle" => w \in Client
    BY <1>1, <1>2, <1>4, GotoMoves DEF Places, Worker
  <2>2. TypeOK'
    BY <2>1, TypeParts, TypePartsNext
    DEF IInv, Moves, RowsOK, JobsOK, FilesOK, PurgeOK, FaultOK, faultVars
  <2>3. /\ KeepsSettling /\ KeepsWriting /\ KeepsComplete /\ KeepsGone
        /\ KeepsDelete /\ Placed'
    BY <1>1, <2>1 DEF Moves, KeepsSettling, KeepsWriting, KeepsComplete,
       KeepsGone, KeepsDelete, Settling, Worker
  <2> QED BY <2>2, <2>3, KeepAll
<1> QED BY <1>3, <1>4

-----------------------------------------------------------------------------
(* Steps that change a job                                                 *)

LEMMA InsertJobInv ==
  ASSUME IInv, NEW w \in Crawl \cup Client, InsertJob(w)
  PROVE  IInv'
<1> DEFINE c == target[w]
<1> USE ExportsAssumption DEF InsertJob, Return
<1>1. /\ Moves(w) /\ pc[w] = "insert"
      /\ pc'[w] = "idle" => w \in Client
      /\ pc'[w] \in {"select", "list", "idle"}
  BY TypeParts, GotoMoves DEF IInv, Places, Worker
<1>2. KeepsSettling /\ KeepsWriting /\ KeepsComplete /\ KeepsGone
      /\ KeepsDelete /\ Placed'
  BY <1>1 DEF Moves, KeepsSettling, KeepsWriting, KeepsComplete, KeepsGone,
     KeepsDelete, Settling, Worker
<1>3. c \in Crawl /\ (InsertRow(c) \/ UNCHANGED jobVars)
  BY <1>1 DEF IInv, Placed
<1>4. FaultOK'
  BY TypeParts, FaultKept DEF IInv
<1>6. JobsOK
  BY TypeParts DEF IInv
<1>7. /\ expired' = expired
      /\ \A e \in Crawl :
           \/ jobState'[e] = jobState[e] /\ made'[e] = made[e]
           \/ /\ jobState[e] = "none" /\ jobState'[e] = "pending"
              /\ made'[e] = made[e] + 1
  BY <1>3, <1>6 DEF InsertRow, JobsOK
<1>8. JobsOK'
  BY <1>3, <1>6 DEF InsertRow, JobsOK
<1>9. TypeOK'
  BY <1>1, <1>4, <1>8, TypeParts, TypePartsNext
  DEF IInv, Moves, RowsOK, FilesOK, PurgeOK
<1>10. ASSUME NEW j, Doomed(j)
       PROVE  Doomed(j)'
  <2>1. /\ j \in Crawl \X Nat /\ j[1] \in Crawl /\ j[2] \in Nat
        /\ made[j[1]] \in Nat
    BY <1>6, <1>10 DEF Doomed, JobsOK
  <2>2. CASE jobState'[j[1]] = jobState[j[1]] /\ made'[j[1]] = made[j[1]]
    BY <1>2, <1>7, <1>10, <2>1, <2>2 DEF Doomed, KeepsGone
  <2>3. CASE /\ jobState[j[1]] = "none" /\ jobState'[j[1]] = "pending"
             /\ made'[j[1]] = made[j[1]] + 1
    <3>1. j[1] \notin expired /\ disk[j[1]] = {}
      BY <1>6, <1>10, <2>3 DEF Doomed, JobsOK
    <3>2. j[2] \in 1 .. made'[j[1]] /\ j # <<j[1], made'[j[1]]>>
      BY <1>10, <2>1, <2>3 DEF Doomed
    <3> QED BY <1>2, <1>10, <2>1, <3>1, <3>2 DEF Doomed, KeepsGone
  <2> QED BY <1>7, <2>1, <2>2, <2>3
<1>11. Purging'
  BY <1>2, <1>6, <1>7, <1>10
  DEF IInv, Purging, KeepsGone, KeepsDelete, JobsOK
<1>12. NothingLeftBehind'
  BY <1>2, <1>7 DEF IInv, NothingLeftBehind, KeepsGone
<1>13. ReadyHasFile'
  BY <1>7 DEF IInv, ReadyHasFile
<1>14. OneFinaliser'
  <2>1. \A v \in Crawl \cup Client : Settling(v)' \/ pc'[v] = "enter" =>
          /\ Settling(v) \/ pc[v] = "enter"
          /\ pc[v] # "idle" /\ target[v] \in Crawl
    BY <1>2 DEF KeepsSettling, Settling, IInv, Placed
  <2>2. \A v \in Crawl \cup Client : Settling(v)' \/ pc'[v] = "enter" =>
          seen[v][2] \in 1 .. made'[target[v]]
    BY <1>6, <1>7, <2>1 DEF IInv, OneFinaliser, JobsOK
  <2> QED BY <1>2, <2>2 DEF IInv, OneFinaliser, KeepsSettling
<1>15. Completing'
  <2> SUFFICES ASSUME NEW v \in Crawl \cup Client, pc'[v] = "complete"
               PROVE  LET e == target'[v] IN
                        \/ "file" \in disk'[e] \/ e \in expired'
                        \/ seen'[v] # <<e, made'[e]>> \/ jobState'[e] = "none"
    BY DEF Completing
  <2>1. /\ pc[v] = "complete" /\ seen'[v] = seen[v] /\ target'[v] = target[v]
        /\ target[v] \in Crawl
    BY <1>2 DEF KeepsComplete, IInv, Placed
  <2>2. seen[v][2] \in 1 .. made[target[v]]
    BY <2>1 DEF IInv, OneFinaliser, Settling
  <2> QED BY <1>6, <1>7, <2>1, <2>2 DEF IInv, Completing, JobsOK
<1> QED BY <1>2, <1>9, <1>11, <1>12, <1>13, <1>14, <1>15, KeepPublished
        DEF IInv

\* A job of w's crawl is settled or not: what does not depend on how.
LEMMA SettleKeeps ==
  ASSUME IInv, NEW w \in Crawl \cup Client, target[w] \in Crawl,
         NEW s \in {"ready", "failed"},
         SettleRow(w, s) \/ UNCHANGED <<jobVars, crossed>>,
         UNCHANGED <<disk, published, inflight, purgeVars>>,
         KeepsSettling, KeepsWriting, KeepsComplete, KeepsGone, KeepsDelete
  PROVE  /\ JobsOK' /\ FilesOK' /\ OneFinaliser' /\ Published' /\ Purging'
         /\ NothingLeftBehind' /\ Completing'
<1> DEFINE c == target[w]
<1>1. JobsOK /\ FilesOK
  BY TypeParts DEF IInv
<1>2. /\ made' = made /\ expired' = expired
      /\ \A e \in Crawl :
           \/ jobState'[e] = jobState[e]
           \/ jobState[e] = "pending" /\ jobState'[e] = s
      /\ crossed \subseteq crossed' /\ crossed' \subseteq Crawl
  BY <1>1 DEF SettleRow, JobsOK, FilesOK
<1>3. \A e \in Crawl : jobState'[e] = "none" <=> jobState[e] = "none"
  BY <1>2
<1>4. JobsOK' /\ FilesOK'
  BY <1>1, <1>2 DEF SettleRow, JobsOK, FilesOK
<1>5. \A j : Doomed(j) => Doomed(j)'
  BY <1>2, <1>3 DEF Doomed, KeepsGone
<1>6. Purging'
  BY <1>2, <1>3, <1>5 DEF IInv, Purging, KeepsGone, KeepsDelete
<1>7. NothingLeftBehind'
  BY <1>2, <1>3 DEF IInv, NothingLeftBehind, KeepsGone
<1>8. Completing'
  BY <1>2, <1>3 DEF IInv, Completing, KeepsComplete, Placed
<1>9. OneFinaliser' /\ Published'
  BY <1>2, KeepOneFinaliser, KeepPublished
<1> QED BY <1>4, <1>6, <1>7, <1>8, <1>9

LEMMA CompleteArchiveInv ==
  ASSUME IInv, NEW w \in Crawl \cup Client, CompleteArchive(w)
  PROVE  IInv'
<1> DEFINE c == target[w]
<1> USE ExportsAssumption DEF CompleteArchive
<1>1. Moves(w) /\ pc[w] = "complete" /\ pc'[w] \in {"exit", "fail"}
  BY TypeParts, GotoMoves DEF IInv, Places, Worker
<1>2. KeepsSettling /\ KeepsWriting /\ KeepsComplete /\ KeepsGone
      /\ KeepsDelete /\ Placed'
  BY <1>1 DEF Moves, KeepsSettling, KeepsWriting, KeepsComplete, KeepsGone,
     KeepsDelete, Settling, Worker
<1>3. c \in Crawl /\ (SettleRow(w, "ready") \/ UNCHANGED <<jobVars, crossed>>)
  BY <1>1 DEF IInv, Placed
<1>4. /\ JobsOK' /\ FilesOK' /\ OneFinaliser' /\ Published' /\ Purging'
      /\ NothingLeftBehind' /\ Completing'
  BY <1>2, <1>3, SettleKeeps
<1>5. FaultOK'
  BY TypeParts, FaultKept DEF IInv
<1>6. TypeOK'
  BY <1>1, <1>4, <1>5, TypeParts, TypePartsNext
  DEF IInv, Moves, RowsOK, PurgeOK
<1>7. ReadyHasFile'
  <2>1. CASE UNCHANGED <<jobVars, crossed>>
    BY <2>1, KeepReady
  <2>2. CASE SettleRow(w, "ready")
    <3>1. /\ \A e \in Crawl \ {c} : jobState'[e] = jobState[e]
          /\ expired' = expired /\ crossed \subseteq crossed'
      BY <2>2, TypeParts DEF SettleRow, IInv, JobsOK
    <3>2. ASSUME jobState'[c] = "ready", c \notin expired', c \notin crossed'
          PROVE  disk[c] = {"file"}
      <4>1. CASE jobState[c] = "ready"
        BY <1>3, <3>1, <3>2, <4>1 DEF IInv, ReadyHasFile
      <4>2. CASE jobState[c] = "pending"
        <5>1. seen[w] = CurrentJob(c)
          BY <1>1, <1>3, <2>2, <3>2, <4>2 DEF SettleRow, IInv, OneFinaliser,
             Settling
        <5>2. "file" \in disk[c]
          BY <1>1, <3>1, <3>2, <4>2, <5>1 DEF IInv, Completing
        <5> QED BY <1>3, <5>2 DEF IInv, Published
      <4> QED BY <2>2, <3>2, <4>1, <4>2 DEF SettleRow
    <3> QED BY <3>1, <3>2 DEF IInv, ReadyHasFile
  <2> QED BY <1>3, <2>1, <2>2
<1> QED BY <1>2, <1>4, <1>6, <1>7 DEF IInv

LEMMA FailArchiveInv ==
  ASSUME IInv, NEW w \in Crawl \cup Client, FailArchive(w)
  PROVE  IInv'
<1> USE ExportsAssumption DEF FailArchive
<1>1. /\ Moves(w)
      /\ \/ pc[w] = "fail" /\ pc'[w] = "exit"
         \/ pc[w] = "reject" /\ pc'[w] = "list"
  BY TypeParts, GotoMoves DEF IInv, Places, Worker
<1>2. KeepsSettling /\ KeepsWriting /\ KeepsComplete /\ KeepsGone
      /\ KeepsDelete /\ Placed'
  BY <1>1 DEF Moves, KeepsSettling, KeepsWriting, KeepsComplete, KeepsGone,
     KeepsDelete, Settling, Worker
<1>3. /\ target[w] \in Crawl
      /\ SettleRow(w, "failed") \/ UNCHANGED <<jobVars, crossed>>
  BY <1>1 DEF IInv, Placed
<1>4. /\ JobsOK' /\ FilesOK' /\ OneFinaliser' /\ Published' /\ Purging'
      /\ NothingLeftBehind' /\ Completing'
  BY <1>2, <1>3, SettleKeeps
<1>5. FaultOK'
  BY TypeParts, FaultKept DEF IInv
<1>6. TypeOK'
  BY <1>1, <1>4, <1>5, TypeParts, TypePartsNext
  DEF IInv, Moves, RowsOK, PurgeOK
<1>7. ReadyHasFile'
  BY <1>3, TypeParts DEF SettleRow, IInv, JobsOK, ReadyHasFile
<1> QED BY <1>2, <1>4, <1>6, <1>7 DEF IInv

-----------------------------------------------------------------------------
(* Steps that change a file                                                *)

\* The files of other crawls than c stay, and c still works on its own.
LEMMA FilesOfOne ==
  ASSUME IInv, NEW c \in Crawl, pc[c] # "gone", FilesOK',
         \A e \in Crawl \ {c} : disk'[e] = disk[e],
         UNCHANGED <<jobVars, purgeVars>>, KeepsGone, KeepsDelete
  PROVE  Purging' /\ NothingLeftBehind'
<1>1. JobsOK /\ FilesOK /\ PurgeOK
  BY TypeParts DEF IInv
<1>2. ASSUME NEW j, Doomed(j)
      PROVE  Doomed(j)' /\ disk'[j[1]] = disk[j[1]]
  BY <1>2 DEF Doomed, KeepsGone
<1>3. Purging'
  BY <1>2 DEF IInv, Purging, KeepsGone, KeepsDelete
<1>4. NothingLeftBehind'
  BY DEF IInv, NothingLeftBehind, KeepsGone
<1> QED BY <1>3, <1>4

LEMMA OpenArchiveInv ==
  ASSUME IInv, NEW c \in Crawl, OpenArchive(c)
  PROVE  IInv'
<1> USE ExportsAssumption DEF OpenArchive
<1>1. Moves(c) /\ pc[c] = "open" /\ pc'[c] = "write"
  BY TypeParts, GotoMoves DEF IInv, Places, Worker
<1>2. KeepsSettling /\ KeepsComplete /\ KeepsGone /\ KeepsDelete /\ Placed'
  BY <1>1 DEF Moves, KeepsSettling, KeepsComplete, KeepsGone, KeepsDelete,
     Settling, Worker
<1>3. /\ disk[c] = {} /\ c \notin published
      /\ disk'[c] \in {{}, {"partial"}}
      /\ \A e \in Crawl \ {c} : disk'[e] = disk[e]
  BY <1>1, TypeParts DEF IInv, Published, FilesOK
<1>4. FilesOK'
  BY TypeParts DEF IInv, FilesOK
<1>5. TypeOK'
  BY <1>1, <1>4, TypeParts, TypePartsNext
  DEF IInv, Moves, RowsOK, JobsOK, PurgeOK, FaultOK, faultVars
<1>6. Purging' /\ NothingLeftBehind'
  BY <1>1, <1>2, <1>3, <1>4, FilesOfOne
<1>7. Published'
  BY <1>1, <1>2, <1>3 DEF IInv, Published, Moves, KeepsComplete, Worker
<1>8. ReadyHasFile'
  BY <1>3 DEF IInv, ReadyHasFile
<1>9. Completing'
  BY <1>2, <1>3 DEF IInv, Completing, Published, KeepsComplete, Placed
<1> QED BY <1>2, <1>5, <1>6, <1>7, <1>8, <1>9, KeepOneFinaliser DEF IInv

LEMMA CloseArchiveInv ==
  ASSUME IInv, NEW c \in Crawl, CloseArchive(c)
  PROVE  IInv'
<1> USE ExportsAssumption DEF CloseArchive
<1>1. Moves(c) /\ pc[c] = "write" /\ pc'[c] = "bind"
  BY TypeParts, GotoMoves DEF IInv, Places, Worker
<1>2. /\ KeepsSettling /\ KeepsWriting /\ KeepsComplete /\ KeepsGone
      /\ KeepsDelete /\ Placed'
  BY <1>1 DEF Moves, KeepsSettling, KeepsWriting, KeepsComplete, KeepsGone,
     KeepsDelete, Settling, Worker
<1>3. /\ \A e \in Crawl \ {c} : disk'[e] = disk[e]
      /\ \/ disk'[c] = disk[c] /\ published' = published
         \/ disk'[c] = {"file"} /\ published' = published \cup {c}
  BY TypeParts DEF IInv, FilesOK
<1>4. FilesOK' /\ RowsOK'
  BY TypeParts DEF IInv, FilesOK, RowsOK
<1>5. FaultOK'
  BY TypeParts, FaultKept DEF IInv
<1>6. TypeOK'
  BY <1>1, <1>4, <1>5, TypeParts, TypePartsNext
  DEF IInv, Moves, JobsOK, PurgeOK
<1>7. Purging' /\ NothingLeftBehind'
  BY <1>1, <1>2, <1>3, <1>4, FilesOfOne
<1>8. Published'
  BY <1>1, <1>2, <1>3
  DEF IInv, Published, Moves, KeepsWriting, KeepsComplete, Worker
<1>9. ReadyHasFile'
  BY <1>3 DEF IInv, ReadyHasFile
<1>10. Completing'
  BY <1>2, <1>3 DEF IInv, Completing, KeepsComplete, Placed
<1> QED BY <1>2, <1>6, <1>7, <1>8, <1>9, <1>10, KeepOneFinaliser DEF IInv

-----------------------------------------------------------------------------
(* The purge                                                               *)

LEMMA ListExpiredInv ==
  ASSUME IInv, NEW w \in Worker, ListExpired(w)
  PROVE  IInv'
<1> USE ExportsAssumption DEF ListExpired
<1>1. /\ Moves(w) /\ pc[w] = "list"
      /\ pc'[w] = "idle" => w \in Client
      /\ pc'[w] \in {"sweep", "finish", "resolve", "gone", "idle"}
  <2>1. Purged(w) \in {"finish", "resolve", "gone"}
    BY DEF Purged
  <2>2. PurgeFailed(w) \in {"finish", "resolve", "gone", "idle"}
        /\ (PurgeFailed(w) = "idle" => w \in Client)
    BY <2>1 DEF PurgeFailed
  <2> QED BY <2>1, <2>2, TypeParts, GotoMoves DEF IInv, Places
<1>2. /\ KeepsSettling /\ KeepsWriting /\ KeepsComplete /\ KeepsGone
      /\ KeepsDelete /\ Placed'
  BY <1>1 DEF Moves, KeepsSettling, KeepsWriting, KeepsComplete, KeepsGone,
     KeepsDelete, Settling, Worker
<1>3. JobsOK /\ PurgeOK
  BY TypeParts DEF IInv
<1>4. \A c \in expired : c \in Crawl /\ made[c] \in Nat /\ made[c] > 0
                         /\ pc[c] = "gone"
  BY <1>3 DEF JobsOK, IInv, Purging
<1>5. \A c \in expired : Doomed(<<c, made[c]>>)
  BY <1>4 DEF Doomed
<1>6. \A v \in Worker : \A j \in todo'[v] : Doomed(j)
  BY <1>3, <1>5 DEF IInv, Purging, PurgeOK
<1>7. PurgeOK'
  BY <1>3, <1>4 DEF PurgeOK
<1>8. FaultOK'
  BY TypeParts, FaultKept DEF IInv
<1>9. TypeOK'
  BY <1>1, <1>7, <1>8, TypeParts, TypePartsNext
  DEF IInv, Moves, RowsOK, JobsOK, FilesOK
<1>10. \A j : Doomed(j) => Doomed(j)'
  BY <1>2, <1>3, KeepDoomed
<1>11. Purging'
  BY <1>2, <1>6, <1>10 DEF IInv, Purging, KeepsGone, KeepsDelete
<1> QED BY <1>2, <1>9, <1>11, KeepOneFinaliser, KeepPublished,
           KeepNothingLeft, KeepReady, KeepCompleting DEF IInv

\* What a purge that goes on or ends does to the places of workers.
LEMMA PurgeMoves ==
  ASSUME IInv, NEW w \in Worker, pc[w] \in {"sweep", "delete"},
         NEW to, Goto(w, to),
         to \in {"sweep", "delete"} \/ to = Purged(w) \/ to = PurgeFailed(w)
  PROVE  /\ Moves(w) /\ KeepsSettling /\ KeepsWriting /\ KeepsComplete
         /\ KeepsGone /\ Placed'
         /\ pc'[w] = to /\ \A v \in Worker \ {w} : pc'[v] = pc[v]
<1> USE ExportsAssumption
<1>1. Purged(w) \in {"finish", "resolve", "gone"}
  BY DEF Purged
<1>2. PurgeFailed(w) \in {"finish", "resolve", "gone", "idle"}
      /\ (PurgeFailed(w) = "idle" => w \in Client)
  BY <1>1 DEF PurgeFailed
<1>3. /\ Moves(w) /\ pc'[w] = to
      /\ to = "idle" => w \in Client
      /\ to \in {"sweep", "delete", "finish", "resolve", "gone", "idle"}
  BY <1>1, <1>2, TypeParts, GotoMoves DEF IInv, Places
<1> QED BY <1>3 DEF Moves, KeepsSettling, KeepsWriting, KeepsComplete,
           KeepsGone, Settling, Worker

LEMMA RemoveFilesInv ==
  ASSUME IInv, NEW w \in Worker, NEW j \in todo[w], RemoveFiles(w, j)
  PROVE  IInv'
<1> USE ExportsAssumption DEF RemoveFiles
<1>1. JobsOK /\ FilesOK /\ PurgeOK /\ LocalsOK
  BY TypeParts DEF IInv
<1>2. Doomed(j) /\ j \in Crawl \X Nat /\ j[1] \in Crawl /\ pc[w] = "sweep"
  BY DEF IInv, Purging, Doomed
<1>3. /\ Moves(w) /\ KeepsSettling /\ KeepsWriting /\ KeepsComplete
      /\ KeepsGone /\ Placed'
      /\ \/ pc'[w] = "delete" /\ victim'[w] = j /\ disk'[j[1]] = {}
         \/ pc'[w] # "delete" /\ victim' = victim
      /\ \A v \in Worker \ {w} : pc'[v] = pc[v] /\ victim'[v] = victim[v]
  <2>1. CASE Goto(w, PurgeFailed(w)) /\ victim' = victim
    BY <1>2, <2>1, PurgeMoves DEF PurgeFailed, Purged
  <2>2. CASE /\ disk' = [disk EXCEPT ![j[1]] = {}]
             /\ pc' = [pc EXCEPT ![w] = "delete"]
             /\ victim' = [victim EXCEPT ![w] = j]
             /\ UNCHANGED localVars
    <3>1. Goto(w, "delete")
      BY <2>2 DEF Goto
    <3>2. /\ Moves(w) /\ KeepsSettling /\ KeepsWriting /\ KeepsComplete
          /\ KeepsGone /\ Placed'
          /\ pc'[w] = "delete" /\ \A v \in Worker \ {w} : pc'[v] = pc[v]
      BY <1>2, <3>1, PurgeMoves
    <3> QED BY <1>1, <1>2, <2>2, <3>2 DEF PurgeOK, FilesOK
  <2> QED BY <2>1, <2>2
<1>4. /\ \A e \in Crawl \ {j[1]} : disk'[e] = disk[e]
      /\ disk'[j[1]] \in {disk[j[1]], {}, disk[j[1]] \ {"file"}}
  BY <1>1, <1>2 DEF FilesOK
<1>5. \A e \in Crawl : disk'[e] \subseteq disk[e]
  BY <1>4
<1>6. FilesOK' /\ PurgeOK'
  BY <1>1, <1>2 DEF FilesOK, PurgeOK
<1>7. FaultOK'
  BY TypeParts, FaultKept DEF IInv
<1>8. TypeOK'
  BY <1>3, <1>6, <1>7, TypeParts, TypePartsNext
  DEF IInv, Moves, RowsOK, JobsOK
<1>9. Published'
  BY <1>3, <1>4 DEF IInv, Published, KeepsWriting, KeepsComplete
<1>10. ASSUME NEW k, Doomed(k)
       PROVE  Doomed(k)' /\ disk'[k[1]] \subseteq disk[k[1]]
  BY <1>1, <1>3, <1>5, <1>10, KeepDoomed DEF Doomed
<1>11. Purging'
  <2>1. \A v \in Worker : todo'[v] \subseteq todo[v]
    BY <1>1 DEF PurgeOK
  <2>2. \A v \in Worker : \A k \in todo'[v] : Doomed(k)'
    BY <1>10, <2>1 DEF IInv, Purging
  <2>3. \A v \in Worker : victim'[v] # Nobody =>
          Doomed(victim[v])' /\ disk'[victim'[v][1]] = {}
    <3> SUFFICES ASSUME NEW v \in Worker, victim'[v] # Nobody
                 PROVE  Doomed(victim[v])' /\ disk'[victim'[v][1]] = {}
      OBVIOUS
    <3> PICK k : k = victim'[v]
      OBVIOUS
    <3>1. CASE k = victim[v]
      <4>1. Doomed(k) /\ disk[k[1]] = {}
        BY <3>1 DEF IInv, Purging
      <4> QED BY <1>10, <4>1 DEF Doomed
    <3>2. CASE k = j /\ disk'[j[1]] = {}
      BY <1>2, <1>10, <3>2 DEF Doomed
    <3> QED BY <1>3, <3>1, <3>2
  <2>4. \A v \in Worker : pc'[v] = "delete" => victim'[v] # Nobody
    BY <1>2, <1>3 DEF IInv, Purging
  <2> QED BY <1>3, <2>2, <2>3, <2>4 DEF IInv, Purging, KeepsGone
<1>12. NothingLeftBehind'
  BY <1>3, <1>5 DEF IInv, NothingLeftBehind, KeepsGone
<1>13. ReadyHasFile'
  BY <1>2, <1>4 DEF IInv, ReadyHasFile, Doomed
<1>14. Completing'
  BY <1>2, <1>3, <1>4 DEF IInv, Completing, KeepsComplete, Placed, Doomed
<1> QED BY <1>3, <1>8, <1>9, <1>11, <1>12, <1>13, <1>14, KeepOneFinaliser
        DEF IInv

LEMMA DeleteExpiredInv ==
  ASSUME IInv, NEW w \in Worker, DeleteExpired(w)
  PROVE  IInv'
<1> DEFINE j == victim[w]
<1> USE ExportsAssumption DEF DeleteExpired
<1>1. JobsOK /\ PurgeOK
  BY TypeParts DEF IInv
<1>2. /\ pc[w] = "delete" /\ Doomed(j) /\ disk[j[1]] = {}
      /\ j \in Crawl \X Nat /\ j[1] \in Crawl /\ pc[j[1]] = "gone"
  BY DEF IInv, Purging, Doomed
<1>3. /\ Moves(w) /\ KeepsSettling /\ KeepsWriting /\ KeepsComplete
      /\ KeepsGone /\ Placed' /\ pc'[w] # "delete"
      /\ \A v \in Worker \ {w} : pc'[v] = pc[v]
  <2>1. PICK to : /\ Goto(w, to)
                  /\ to \in {"sweep", Purged(w), PurgeFailed(w)}
    OBVIOUS
  <2>2. to # "delete"
    BY <2>1 DEF PurgeFailed, Purged
  <2> QED BY <1>2, <2>1, <2>2, PurgeMoves
<1>4. \/ UNCHANGED jobVars
      \/ /\ made' = made /\ jobState'[j[1]] = "none"
         /\ j = CurrentJob(j[1]) /\ expired' = expired \ {j[1]}
         /\ \A e \in Crawl \ {j[1]} : jobState'[e] = jobState[e]
  BY <1>1, <1>2 DEF DeleteRow, RowToDelete, JobsOK
<1>5. JobsOK'
  BY <1>1, <1>2 DEF DeleteRow, JobsOK
<1>6. PurgeOK'
  BY <1>1 DEF PurgeOK
<1>7. FaultOK'
  BY TypeParts, FaultKept DEF IInv
<1>8. TypeOK'
  BY <1>3, <1>5, <1>6, <1>7, TypeParts, TypePartsNext
  DEF IInv, Moves, RowsOK, FilesOK
<1>9. ASSUME NEW k, Doomed(k)
      PROVE  Doomed(k)'
  BY <1>2, <1>3, <1>4, <1>9 DEF Doomed, KeepsGone
<1>10. Purging'
  <2>1. \A v \in Worker :
          /\ todo'[v] \subseteq todo[v]
          /\ victim'[v] = IF v = w THEN Nobody ELSE victim[v]
    BY <1>1 DEF PurgeOK
  <2>2. \A c \in Crawl : c \in expired' => c \in expired
    BY <1>4
  <2>3. \A c \in Crawl : jobState'[c] # "none" => made'[c] > 0
    BY <1>4 DEF IInv, Purging
  <2>4. \A v \in Worker : \A k \in todo'[v] : Doomed(k)'
    BY <1>9, <2>1 DEF IInv, Purging
  <2>5. \A v \in Worker : victim'[v] # Nobody =>
          Doomed(victim[v])' /\ disk'[victim'[v][1]] = {}
    <3> SUFFICES ASSUME NEW v \in Worker, victim'[v] # Nobody
                 PROVE  Doomed(victim[v])' /\ disk'[victim'[v][1]] = {}
      OBVIOUS
    <3> PICK k : k = victim'[v]
      OBVIOUS
    <3>1. k = victim[v] /\ Doomed(k) /\ disk[k[1]] = {}
      BY <2>1 DEF IInv, Purging
    <3> QED BY <1>9, <3>1
  <2>6. \A v \in Worker : pc'[v] = "delete" => victim'[v] # Nobody
    BY <1>3, <2>1 DEF IInv, Purging
  <2> QED BY <1>3, <2>2, <2>3, <2>4, <2>5, <2>6
          DEF IInv, Purging, KeepsGone
<1>11. NothingLeftBehind'
  BY <1>2, <1>3, <1>4 DEF IInv, NothingLeftBehind, KeepsGone
<1>12. ReadyHasFile'
  BY <1>2, <1>4 DEF IInv, ReadyHasFile
<1>13. Completing'
  BY <1>2, <1>3, <1>4 DEF IInv, Completing, KeepsComplete, Placed
<1>14. OneFinaliser'
  BY <1>3, <1>4, KeepOneFinaliser
<1> QED BY <1>3, <1>8, <1>10, <1>11, <1>12, <1>13, <1>14, KeepPublished
        DEF IInv

-----------------------------------------------------------------------------
(* Time and the process                                                    *)

LEMMA ExpireInv ==
  ASSUME IInv, NEW c \in Crawl, Expire(c)
  PROVE  IInv'
<1> USE ExportsAssumption DEF Expire
<1>1. TypeOK'
  BY TypeParts, TypePartsNext
  DEF IInv, LocalsOK, RowsOK, JobsOK, FilesOK, PurgeOK, FaultOK
<1>2. KeepsSettling /\ KeepsWriting /\ KeepsComplete /\ Placed'
  BY DEF KeepsSettling, KeepsWriting, KeepsComplete, Settling, IInv, Placed
<1>3. \A j : Doomed(j) => Doomed(j)'
  BY DEF Doomed
<1>4. Purging'
  BY <1>3 DEF IInv, Purging
<1>5. NothingLeftBehind' /\ ReadyHasFile' /\ Completing'
  BY DEF IInv, NothingLeftBehind, ReadyHasFile, Completing
<1> QED BY <1>1, <1>2, <1>4, <1>5, KeepOneFinaliser, KeepPublished DEF IInv

LEMMA CrashInv ==
  ASSUME IInv, Crash
  PROVE  IInv'
<1> USE ExportsAssumption DEF Crash
<1>1. /\ LocalsOK /\ RowsOK /\ JobsOK /\ FilesOK /\ PurgeOK /\ FaultOK
  BY TypeParts DEF IInv
<1>2. LocalsOK'
  <2>1. \A w \in Worker : pc'[w] \in {"idle", "gone"}
    OBVIOUS
  <2>2. pc' \in [Worker -> Places]
    BY DEF Places
  <2> QED BY <2>2 DEF LocalsOK, Worker
<1>3. RowsOK' /\ JobsOK' /\ FilesOK' /\ PurgeOK' /\ FaultOK'
  <2>1. RowsOK'
    BY <1>1 DEF RowsOK
  <2>2. JobsOK' /\ FilesOK'
    BY <1>1 DEF JobsOK, FilesOK
  <2>3. PurgeOK'
    BY DEF PurgeOK
  <2>4. FaultOK'
    <3>1. /\ up' = FALSE /\ crashes < MaxCrashes /\ crashes' = crashes + 1
          /\ failures' = failures /\ hindered' = hindered
      OBVIOUS
    <3>2. FaultOK
      BY <1>1
    <3>3. MaxCrashes \in Nat
      OBVIOUS
    <3> HIDE DEF Crash
    <3>4. up' \in BOOLEAN
      BY <3>1
    <3>5. crashes' \in 0 .. MaxCrashes
      BY <3>1, <3>2, <3>3 DEF FaultOK
    <3> QED BY <3>1, <3>2, <3>4, <3>5 DEF FaultOK
  <2> QED BY <2>1, <2>2, <2>3, <2>4
<1>4. TypeOK'
  BY <1>2, <1>3, TypePartsNext
<1>5. \A w \in Worker :
        /\ pc'[w] \in {"idle", "gone"}
        /\ w \in Crawl => target'[w] = w
        /\ w \in Client => pc'[w] = "idle"
        /\ w \in Crawl => (pc'[w] = "idle" <=> pc[w] = "idle")
        /\ todo'[w] = {} /\ victim'[w] = Nobody
  BY DEF Worker
<1>6. Placed' /\ OneFinaliser' /\ Completing'
  BY <1>5 DEF Placed, OneFinaliser, Completing, Settling, Worker
<1>7. KeepsGone /\ Published'
  BY <1>5 DEF KeepsGone, IInv, Published, Worker
<1>8. Purging'
  BY <1>5, <1>7 DEF IInv, Purging, KeepsGone, Worker
<1> QED BY <1>4, <1>6, <1>7, <1>8, KeepNothingLeft, KeepReady DEF IInv

LEMMA RestartInv ==
  ASSUME IInv, Restart
  PROVE  IInv'
<1> USE ExportsAssumption DEF Restart
<1>1. LocalsOK /\ Placed
  BY TypeParts DEF IInv
<1>2. /\ LocalsOK' /\ pc'[Boot] = "list"
      /\ \A v \in Worker \ {Boot} : pc'[v] = pc[v]
  BY <1>1 DEF LocalsOK, Places, Worker
<1>3. RowsOK'
  BY TypeParts DEF IInv, RowsOK, Final
<1>4. FaultOK'
  <2>1. FaultOK /\ (NoFault \/ Fault(Boot)) /\ up' \in BOOLEAN
        /\ crashes' = crashes
    BY TypeParts DEF IInv
  <2> QED BY <2>1 DEF FaultOK, Fault
<1>5. TypeOK'
  BY <1>2, <1>3, <1>4, TypeParts, TypePartsNext
  DEF IInv, JobsOK, FilesOK, PurgeOK
<1>6. /\ KeepsSettling /\ KeepsWriting /\ KeepsComplete /\ KeepsGone
      /\ KeepsDelete /\ Placed'
  BY <1>1, <1>2 DEF KeepsSettling, KeepsWriting, KeepsComplete, KeepsGone,
     KeepsDelete, Settling, Placed, Worker
<1> QED BY <1>5, <1>6, KeepAll

-----------------------------------------------------------------------------
(* The theorems                                                            *)

LEMMA InitInv == Init => IInv
<1> USE ExportsAssumption
<1> SUFFICES ASSUME Init PROVE IInv
  OBVIOUS
<1>1. LocalsOK /\ RowsOK /\ JobsOK /\ FilesOK /\ PurgeOK /\ FaultOK
  <2>1. LocalsOK
    BY DEF Init, LocalsOK, Places, Worker
  <2>2. RowsOK /\ JobsOK /\ FilesOK /\ PurgeOK /\ FaultOK
    BY DEF Init, RowsOK, JobsOK, FilesOK, PurgeOK, FaultOK
  <2> QED BY <2>1, <2>2
<1>2. TypeOK
  BY <1>1, TypeParts DEF Init
<1>3. \A w \in Worker : pc[w] = IF w = Boot THEN "gone" ELSE "idle"
  BY DEF Init
<1>4. Placed /\ OneFinaliser /\ Completing
  BY <1>3 DEF Init, Placed, OneFinaliser, Completing, Settling, Worker
<1>5. Published /\ NothingLeftBehind /\ ReadyHasFile
  BY <1>3 DEF Init, Published, NothingLeftBehind, ReadyHasFile, Worker
<1>6. Purging
  BY <1>3 DEF Init, Purging, Worker
<1> QED BY <1>2, <1>4, <1>5, <1>6 DEF IInv

\* Every action, and a step that changes nothing.
LEMMA NextInv ==
  ASSUME IInv, [Next]_vars
  PROVE  IInv'
<1>1. ASSUME NEW c \in Crawl, StartCrawl(c) \/ HandlerStep(c) \/ Expire(c)
      PROVE  IInv'
  BY <1>1, StartCrawlInv, HandlerStepInv, ExpireInv
<1>2. ASSUME NEW c \in Crawl, CrawlStep(c)
      PROVE  IInv'
  BY <1>2, OpenArchiveInv, CloseArchiveInv, BindRowInv, FinishRowInv
  DEF CrawlStep
<1>3. ASSUME NEW q \in Client, ClientStep(q) \/ \E c \in Crawl : Ask(q, c)
      PROVE  IInv'
  BY <1>3, ResolveSourceInv, ServeInv, AskInv DEF ClientStep
<1>4. ASSUME NEW w \in Crawl \cup Client, ArchiveStep(w)
      PROVE  IInv'
  BY <1>4, InsertJobInv, SelectJobInv, ReadFailsInv, EnterInv, StatFileInv,
     CompleteArchiveInv, FailArchiveInv, ExitInv DEF ArchiveStep
<1>5. ASSUME NEW w \in Worker, PurgeStep(w)
      PROVE  IInv'
  BY <1>5, ListExpiredInv, DeleteExpiredInv, RemoveFilesInv DEF PurgeStep
<1>6. CASE Crash \/ Restart
  BY <1>6, CrashInv, RestartInv
<1>7. CASE UNCHANGED vars
  <2> SUFFICES ASSUME UNCHANGED vars PROVE IInv'
    BY <1>7
  <2>1. \A j : Doomed(j)' <=> Doomed(j)
    BY DEF vars, Doomed
  <2>2. TypeOK' /\ Placed' /\ OneFinaliser'
    BY DEF vars, IInv, TypeOK, Placed, OneFinaliser, Settling
  <2>3. Published' /\ NothingLeftBehind' /\ ReadyHasFile' /\ Completing'
    BY DEF vars, IInv, Published, NothingLeftBehind, ReadyHasFile, Completing
  <2>4. Purging'
    BY <2>1 DEF vars, IInv, Purging
  <2> QED BY <2>2, <2>3, <2>4 DEF IInv
<1> QED BY <1>1, <1>2, <1>3, <1>4, <1>5, <1>6, <1>7 DEF Next

\* The invariant of the exports, for any number of crawls, requests, rows,
\* failures and crashes.
THEOREM Invariance == Spec => []IInv
BY InitInv, NextInv, PTL DEF Spec

\* An export that is offered as ready has its file until it expires (services/
\* api_exports.go:286-304), unless who settled it had read an older row: who
\* completes a job has seen the file, and only a purge takes it away.
THEOREM ReadyExportsHaveFiles == Spec => []ReadyHasFile
<1>1. IInv => ReadyHasFile
  BY DEF IInv
<1> QED BY <1>1, Invariance, PTL

\* The purge (api_exports.go:78-104) forgets no export before its files are
\* gone, whichever of its calls fail and wherever the process stops.
THEOREM ForgottenExportsLeaveNothing == Spec => []NothingLeftBehind
<1>1. IInv => NothingLeftBehind
  BY DEF IInv
<1> QED BY <1>1, Invariance, PTL

-----------------------------------------------------------------------------
(* The refinement                                                          *)

LEMMA RecordInit == Init => Record!Init
BY DEF Init, Record!Init, Archive

LEMMA SameRecord ==
  ASSUME UNCHANGED <<jobState, expired, disk, published>>
  PROVE  UNCHANGED Record!vars
BY DEF Record!vars, Archive

LEMMA ReserveRecord ==
  ASSUME IInv, NEW w \in Crawl \cup Client, InsertJob(w)
  PROVE  [Record!Next]_(Record!vars)
<1> DEFINE c == target[w]
<1>1. c \in Crawl /\ (InsertRow(c) \/ UNCHANGED jobVars)
  BY DEF InsertJob, IInv, Placed
<1>2. UNCHANGED <<disk, published>>
  BY DEF InsertJob
<1>3. CASE jobState[c] = "none" /\ InsertRow(c)
  <2>1. Record!Reserve(c)
    BY <1>2, <1>3 DEF InsertRow, Record!Reserve, Archive
  <2> QED BY <1>1, <2>1 DEF Record!Next
<1>4. CASE UNCHANGED <<jobState, expired>>
  BY <1>2, <1>4, SameRecord
<1> QED BY <1>1, <1>3, <1>4 DEF InsertRow

LEMMA SettleRecord ==
  ASSUME IInv, NEW w \in Crawl \cup Client, NEW s \in {"ready", "failed"},
         target[w] \in Crawl, s = "ready" => target[w] \in published,
         SettleRow(w, s) \/ UNCHANGED jobVars, UNCHANGED <<disk, published>>
  PROVE  [Record!Next]_(Record!vars)
<1> DEFINE c == target[w]
<1>1. CASE jobState[c] = "pending" /\ SettleRow(w, s)
  <2>1. s = "ready" => Archive(c) # "none"
    BY DEF Archive
  <2>2. Record!Settle(c)
    BY <1>1, <2>1 DEF SettleRow, Record!Settle, Archive
  <2> QED BY <2>2 DEF Record!Next
<1>2. CASE UNCHANGED <<jobState, expired>>
  BY <1>2, SameRecord
<1> QED BY <1>1, <1>2 DEF SettleRow

LEMMA PublishRecord ==
  ASSUME IInv, NEW c \in Crawl, CloseArchive(c)
  PROVE  [Record!Next]_(Record!vars)
<1> USE DEF CloseArchive
<1>1. pc[c] = "write" /\ "file" \notin disk[c] /\ c \notin published
  BY DEF IInv, Published
<1>2. CASE /\ disk' = [disk EXCEPT ![c] = {"file"}]
           /\ published' = published \cup {c}
  <2>1. disk \in [Crawl -> SUBSET {"partial", "file"}]
    BY TypeParts DEF IInv, FilesOK
  <2>2. Archive(c) = "none" /\ Archive(c)' = "published"
    BY <1>1, <1>2, <2>1 DEF Archive
  <2>3. \A e \in Crawl \ {c} : Archive(e)' = Archive(e)
    BY <1>2, <2>1 DEF Archive
  <2>4. Record!Publish(c)
    BY <2>2, <2>3 DEF Record!Publish
  <2> QED BY <2>4 DEF Record!Next
<1>3. CASE UNCHANGED <<disk, published>>
  BY <1>3, SameRecord
<1> QED BY <1>2, <1>3

LEMMA OpenRecord ==
  ASSUME IInv, NEW c \in Crawl, OpenArchive(c)
  PROVE  UNCHANGED Record!vars
<1> USE DEF OpenArchive
<1>1. disk[c] = {} /\ disk \in [Crawl -> SUBSET {"partial", "file"}]
  BY TypeParts DEF IInv, Published, FilesOK
<1>2. \A e \in Crawl : "file" \in disk'[e] <=> "file" \in disk[e]
  BY <1>1
<1>3. \A e \in Crawl : Archive(e)' = Archive(e)
  BY <1>2 DEF Archive
<1> QED BY <1>3 DEF Record!vars

LEMMA RemoveRecord ==
  ASSUME IInv, NEW w \in Worker, NEW j \in todo[w], RemoveFiles(w, j)
  PROVE  [Record!Next]_(Record!vars)
<1> DEFINE c == j[1]
<1> USE DEF RemoveFiles
<1>1. Doomed(j) /\ c \in Crawl
  BY DEF IInv, Purging, Doomed
<1>2. disk \in [Crawl -> SUBSET {"partial", "file"}]
  BY TypeParts DEF IInv, FilesOK
<1>3. \A e \in Crawl \ {c} : Archive(e)' = Archive(e)
  BY <1>1, <1>2 DEF Archive
<1>4. CASE "file" \in disk[c] /\ disk' # disk
  <2>1. c \in expired
    BY <1>1, <1>4 DEF Doomed
  <2>2. Archive(c) = "published" /\ Archive(c)' = "removed"
    BY <1>1, <1>2, <1>4 DEF IInv, Published, Archive
  <2>3. Record!Remove(c)
    BY <1>1, <1>3, <2>1, <2>2 DEF Record!Remove
  <2> QED BY <1>1, <2>3 DEF Record!Next
<1>5. CASE "file" \notin disk[c] \/ disk' = disk
  <2>1. Archive(c)' = Archive(c)
    BY <1>1, <1>2, <1>5 DEF Archive
  <2> QED BY <1>3, <2>1 DEF Record!vars
<1> QED BY <1>4, <1>5

LEMMA ForgetRecord ==
  ASSUME IInv, NEW w \in Worker, DeleteExpired(w)
  PROVE  [Record!Next]_(Record!vars)
<1> DEFINE j == victim[w]
           c == j[1]
<1> USE DEF DeleteExpired
<1>1. Doomed(j) /\ c \in Crawl /\ disk[c] = {}
  BY DEF IInv, Purging, Doomed
<1>2. CASE DeleteRow(j) /\ RowToDelete(j)
  <2>1. c \in expired /\ Archive(c) # "published"
    BY <1>1, <1>2 DEF Doomed, RowToDelete, Archive
  <2>2. Record!Forget(c)
    BY <1>1, <1>2, <2>1 DEF DeleteRow, Record!Forget, Archive
  <2> QED BY <1>1, <2>2 DEF Record!Next
<1>3. CASE UNCHANGED <<jobState, expired>>
  BY <1>3, SameRecord
<1> QED BY <1>2, <1>3 DEF DeleteRow

LEMMA RecordStep ==
  ASSUME IInv, [Next]_vars
  PROVE  [Record!Next]_(Record!vars)
<1>1. ASSUME NEW c \in Crawl, Expire(c)
      PROVE  [Record!Next]_(Record!vars)
  <2>1. Record!Expire(c)
    BY <1>1 DEF Expire, Record!Expire, Archive
  <2> QED BY <2>1 DEF Record!Next
<1>2. ASSUME NEW c \in Crawl, StartCrawl(c) \/ HandlerStep(c) \/ CrawlStep(c)
      PROVE  [Record!Next]_(Record!vars)
  <2>1. CASE StartCrawl(c) \/ HandlerStep(c) \/ BindRow(c) \/ FinishRow(c)
    BY <2>1, SameRecord DEF StartCrawl, HandlerStep, BindRow, FinishRow
  <2> QED BY <1>2, <2>1, PublishRecord, OpenRecord DEF CrawlStep
<1>3. ASSUME NEW q \in Client, ClientStep(q) \/ \E c \in Crawl : Ask(q, c)
      PROVE  [Record!Next]_(Record!vars)
  BY <1>3, SameRecord DEF ClientStep, ResolveSource, Serve, Ask
<1>4. ASSUME NEW w \in Crawl \cup Client, ArchiveStep(w)
      PROVE  [Record!Next]_(Record!vars)
  <2>1. CASE SelectJob(w) \/ ReadFails(w) \/ Enter(w) \/ StatFile(w) \/ Exit(w)
    BY <2>1, SameRecord DEF SelectJob, ReadFails, Enter, StatFile, Exit
  <2>2. CASE CompleteArchive(w)
    <3>1. /\ target[w] \in Crawl /\ target[w] \in published
          /\ SettleRow(w, "ready") \/ UNCHANGED jobVars
          /\ UNCHANGED <<disk, published>>
      BY <2>2 DEF CompleteArchive, IInv, Placed, Published
    <3> QED BY <3>1, SettleRecord
  <2>3. CASE FailArchive(w)
    <3>1. /\ target[w] \in Crawl
          /\ SettleRow(w, "failed") \/ UNCHANGED jobVars
          /\ UNCHANGED <<disk, published>>
      BY <2>3 DEF FailArchive, IInv, Placed
    <3> QED BY <3>1, SettleRecord
  <2> QED BY <1>4, <2>1, <2>2, <2>3, ReserveRecord DEF ArchiveStep
<1>5. ASSUME NEW w \in Worker, PurgeStep(w)
      PROVE  [Record!Next]_(Record!vars)
  <2>1. CASE ListExpired(w)
    BY <2>1, SameRecord DEF ListExpired
  <2> QED BY <1>5, <2>1, RemoveRecord, ForgetRecord DEF PurgeStep
<1>6. CASE Crash \/ Restart \/ UNCHANGED vars
  BY <1>6, SameRecord DEF Crash, Restart, vars
<1> QED BY <1>1, <1>2, <1>3, <1>4, <1>5, <1>6 DEF Next

\* The rows and the files keep the promises of ArchiveRecord: nobody settles,
\* removes or forgets an archive out of its turn, however the crawl, the
\* requests and the purges of services/api_exports.go overlap and fail.
THEOREM ExportsImplementRecord == Spec => RecordSpec
<1>1. IInv /\ [Next]_vars => [Record!Next]_(Record!vars)
  BY RecordStep
<1> QED BY <1>1, RecordInit, Invariance, PTL
        DEF Spec, RecordSpec, Record!Spec

-----------------------------------------------------------------------------
(* FailureIsReal: an archive that is there is reported as failed only if a *)
(* call made for its crawl failed.                                         *)

\* A row that ended has no goroutine any more, unless its handler gave up on
\* it; a crawl that has not started has no row.
Ended ==
  /\ \A c \in Crawl : crawlState[c] \in Final => pc[c] = "gone" \/ c \in hindered
  /\ \A c \in Crawl : handler[c] = "abort" => c \in hindered
  /\ \A c \in Crawl : pc[c] = "idle" => crawlState[c] = "none"
  /\ ~up => \A c \in Crawl : pc[c] \in {"idle", "gone"}

\* A request that may settle a job saw the row of its crawl ended.
SawEnd(q) ==
  \/ pc[q] \in {"insert", "select"} /\ saw[q] \in Final
  \/ pc[q] = "enter" \/ Settling(q)
Watching ==
  \A q \in Client : SawEnd(q) => pc[target[q]] = "gone" \/ target[q] \in hindered

\* A goroutine knows that its archive was published, and rejects a job
\* only without one.
Known ==
  /\ \A c \in Crawl : c \in published \ ready => pc[c] = "gone" \/ c \in hindered
  /\ \A w \in Crawl \cup Client : pc[w] = "reject" => w \in Crawl \ ready

\* Who is about to fail a job has no file to offer, or is too late to fail it.
Failing ==
  \A w \in Crawl \cup Client : pc[w] = "fail" =>
    LET c == target[w] IN
      "file" \in disk[c] => jobState[c] \in {"ready", "failed"} \/ c \in hindered

\* A failed job has no archive, now or later.
Failed ==
  \A c \in Crawl : jobState[c] = "failed" =>
    \/ "file" \notin disk[c] /\ pc[c] \notin {"idle", "open", "write"}
    \/ c \in hindered

FInv == IInv /\ Ended /\ Watching /\ Known /\ Failing /\ Failed

\* What the parts need of the types.
LEMMA Types ==
  ASSUME IInv
  PROVE  /\ pc \in [Worker -> Places] /\ target \in [Worker -> Crawl \cup {Boot}]
         /\ saw \in [Client -> {"none", "queued", "running"} \cup Final]
         /\ crawlState \in [Crawl -> {"none", "queued", "running"} \cup Final]
         /\ handler \in [Crawl -> {"mark", "abort", "done"}]
         /\ jobState \in [Crawl -> {"none", "pending", "ready", "failed"}]
         /\ disk \in [Crawl -> SUBSET {"partial", "file"}]
         /\ hindered \subseteq Crawl
         /\ \A c \in Crawl : target[c] = c
         /\ \A q \in Client : pc[q] # "idle" => target[q] \in Crawl
BY TypeParts DEF IInv, LocalsOK, RowsOK, JobsOK, FilesOK, FaultOK, Placed

LEMMA HinderedGrows == [Next]_vars => hindered \subseteq hindered'
BY DEF Next, vars, StartCrawl, HandlerStep, CrawlStep, OpenArchive, CloseArchive, BindRow, FinishRow,
   Expire, ClientStep, ResolveSource, Serve, Ask, ArchiveStep, InsertJob, SelectJob, ReadFails, Enter,
   StatFile, CompleteArchive, FailArchive, Exit, PurgeStep, ListExpired, DeleteExpired, RemoveFiles,
   Crash, Restart, Fault

-----------------------------------------------------------------------------
(* Where workers go                                                        *)

LEMMA GoneIsFinal ==
  ASSUME IInv, Next, NEW c \in Crawl, pc[c] = "gone" PROVE pc'[c] = "gone"
<1> USE Types, ExportsAssumption DEF Worker
<1>1. ASSUME NEW d \in Crawl, StartCrawl(d) \/ HandlerStep(d) \/ Expire(d) PROVE pc'[c] = "gone"
  BY <1>1 DEF StartCrawl, HandlerStep, Expire
<1>2. ASSUME NEW d \in Crawl, CrawlStep(d) PROVE pc'[c] = "gone"
  BY <1>2 DEF CrawlStep, OpenArchive, CloseArchive, BindRow, FinishRow, Goto
<1>3. ASSUME NEW q \in Client, ClientStep(q) \/ \E d \in Crawl : Ask(q, d) PROVE pc'[c] = "gone"
  BY <1>3 DEF ClientStep, ResolveSource, Serve, Ask, Goto
<1>4. ASSUME NEW w \in Crawl \cup Client, ArchiveStep(w) PROVE pc'[c] = "gone"
  BY <1>4 DEF ArchiveStep, InsertJob, SelectJob, ReadFails, Enter, StatFile, CompleteArchive, FailArchive,
     Exit, Goto
<1>5. ASSUME NEW w \in Worker, PurgeStep(w) PROVE pc'[c] = "gone"
  BY <1>5 DEF PurgeStep, ListExpired, DeleteExpired, RemoveFiles, Goto
<1>6. CASE Crash \/ Restart
  BY <1>6 DEF Crash, Restart
<1> QED BY <1>1, <1>2, <1>3, <1>4, <1>5, <1>6 DEF Next

\* A goroutine that has started never is where it was before.
LEMMA EarlyIsFirst ==
  ASSUME IInv, Next, NEW c \in Crawl
  PROVE  /\ pc'[c] = "idle" => pc[c] = "idle"
         /\ pc'[c] \in {"idle", "open", "write"} => pc[c] \in {"idle", "open", "write"}
<1> USE Types, ExportsAssumption DEF Worker
<1> DEFINE Goal == /\ pc'[c] = "idle" => pc[c] = "idle"
                   /\ pc'[c] \in {"idle", "open", "write"} => pc[c] \in {"idle", "open", "write"}
<1>1. ASSUME NEW d \in Crawl, StartCrawl(d) \/ HandlerStep(d) \/ Expire(d) PROVE Goal
  BY <1>1 DEF StartCrawl, HandlerStep, Expire
<1>2. ASSUME NEW d \in Crawl, CrawlStep(d) PROVE Goal
  BY <1>2 DEF CrawlStep, OpenArchive, CloseArchive, BindRow, FinishRow, Goto
<1>3. ASSUME NEW q \in Client, ClientStep(q) \/ \E d \in Crawl : Ask(q, d) PROVE Goal
  BY <1>3 DEF ClientStep, ResolveSource, Serve, Ask, Goto
<1>4. ASSUME NEW w \in Crawl \cup Client, ArchiveStep(w) PROVE Goal
  <2>1. CASE SelectJob(w)
    BY <2>1 DEF SelectJob, AfterSelect, Goto
  <2>2. CASE ~SelectJob(w)
    BY <1>4, <2>2 DEF ArchiveStep, InsertJob, ReadFails, Enter, StatFile, CompleteArchive, FailArchive,
       Exit, Goto, Return
  <2> QED BY <2>1, <2>2
<1>5. ASSUME NEW w \in Worker, PurgeStep(w) PROVE Goal
  BY <1>5 DEF PurgeStep, ListExpired, DeleteExpired, RemoveFiles, Goto, Purged, PurgeFailed
<1>6. CASE Crash \/ Restart
  BY <1>6 DEF Crash, Restart
<1> QED BY <1>1, <1>2, <1>3, <1>4, <1>5, <1>6 DEF Next

\* A process that is down does nothing but start again; time passes.
LEMMA DownIsStill == ASSUME Next, ~Crash, ~up' PROVE UNCHANGED pc /\ ~up
<1>1. ASSUME NEW c \in Crawl, StartCrawl(c) \/ HandlerStep(c) PROVE up'
  BY <1>1 DEF StartCrawl, HandlerStep
<1>2. ASSUME NEW c \in Crawl, CrawlStep(c) PROVE up'
  BY <1>2 DEF CrawlStep, OpenArchive, CloseArchive, BindRow, FinishRow
<1>3. ASSUME NEW q \in Client, ClientStep(q) \/ \E c \in Crawl : Ask(q, c) PROVE up'
  BY <1>3 DEF ClientStep, ResolveSource, Serve, Ask
<1>4. ASSUME NEW w \in Crawl \cup Client, ArchiveStep(w) PROVE up'
  BY <1>4 DEF ArchiveStep, InsertJob, SelectJob, ReadFails, Enter, StatFile, CompleteArchive,
     FailArchive, Exit
<1>5. ASSUME NEW w \in Worker, PurgeStep(w) PROVE up'
  BY <1>5 DEF PurgeStep, ListExpired, DeleteExpired, RemoveFiles
<1>6. ASSUME Restart PROVE up'
  BY <1>6 DEF Restart
<1>7. ASSUME NEW c \in Crawl, Expire(c) PROVE UNCHANGED <<pc, up>>
  BY <1>7 DEF Expire
<1> QED BY <1>1, <1>2, <1>3, <1>4, <1>5, <1>6, <1>7 DEF Next

LEMMA EndedStep == ASSUME FInv, Next PROVE Ended'
<1> USE Types, ExportsAssumption DEF FInv
<1> DEFINE Rows == /\ \A c \in Crawl : crawlState'[c] \in Final => pc'[c] = "gone" \/ c \in hindered'
                   /\ \A c \in Crawl : handler'[c] = "abort" => c \in hindered'
                   /\ \A c \in Crawl : pc'[c] = "idle" => crawlState'[c] = "none"
<1>1. /\ \A c \in Crawl : pc[c] = "gone" => pc'[c] = "gone"
      /\ \A c \in Crawl : pc'[c] = "idle" => pc[c] = "idle"
      /\ hindered \subseteq hindered'
  BY GoneIsFinal, EarlyIsFirst, HinderedGrows
<1>2. ASSUME UNCHANGED <<crawlState, handler>> PROVE Rows
  BY <1>1, <1>2 DEF Ended
<1>3. ASSUME NEW c \in Crawl, StartCrawl(c) PROVE Rows
  BY <1>1, <1>3 DEF Ended, StartCrawl, Final, Worker
<1>4. ASSUME NEW c \in Crawl, HandlerStep(c) PROVE Rows
  BY <1>1, <1>4 DEF Ended, HandlerStep, MarkRow, CompleteRow, Fault, Final
<1>5. ASSUME NEW c \in Crawl, CrawlStep(c) PROVE Rows
  <2>1. CASE BindRow(c)
    BY <1>1, <2>1 DEF Ended, BindRow, MarkRow, Final
  <2>2. CASE FinishRow(c)
    BY <1>1, <2>2 DEF Ended, FinishRow, CompleteRow, Goto, Final, Worker
  <2>3. CASE OpenArchive(c) \/ CloseArchive(c)
    BY <1>2, <2>3 DEF OpenArchive, CloseArchive
  <2> QED BY <1>5, <2>1, <2>2, <2>3 DEF CrawlStep
<1>6. ASSUME Crash PROVE Rows
  <2>1. UNCHANGED crawlState /\ \A c \in Crawl : handler'[c] = "done"
    BY <1>6 DEF Crash
  <2> QED BY <1>1, <2>1 DEF Ended
<1>7. ASSUME Restart PROVE Rows
  BY <1>1, <1>7 DEF Ended, Restart, Final
<1>8. Rows
  <2>1. ASSUME NEW c \in Crawl, Expire(c) PROVE Rows
    BY <1>2, <2>1 DEF Expire
  <2>2. ASSUME NEW q \in Client, ClientStep(q) \/ \E c \in Crawl : Ask(q, c) PROVE Rows
    BY <1>2, <2>2 DEF ClientStep, ResolveSource, Serve, Ask
  <2>3. ASSUME NEW w \in Crawl \cup Client, ArchiveStep(w) PROVE Rows
    BY <1>2, <2>3 DEF ArchiveStep, InsertJob, SelectJob, ReadFails, Enter, StatFile, CompleteArchive,
       FailArchive, Exit
  <2>4. ASSUME NEW w \in Worker, PurgeStep(w) PROVE Rows
    BY <1>2, <2>4 DEF PurgeStep, ListExpired, DeleteExpired, RemoveFiles
  <2> QED BY <1>3, <1>4, <1>5, <1>6, <1>7, <2>1, <2>2, <2>3, <2>4 DEF Next
<1>9. ~up' => \A c \in Crawl : pc'[c] \in {"idle", "gone"}
  <2>1. CASE Crash
    BY <2>1 DEF Crash, Worker
  <2>2. CASE ~Crash
    BY <2>2, DownIsStill DEF Ended
  <2> QED BY <2>1, <2>2
<1> QED BY <1>8, <1>9 DEF Ended

\* Only ResolveSource makes a request one that may settle a job.
LEMMA SawEndBefore ==
  ASSUME IInv, Next, NEW q \in Client, SawEnd(q)'
  PROVE  /\ target'[q] = target[q] /\ target[q] \in Crawl
         /\ SawEnd(q) \/ crawlState[target[q]] \in Final
<1> USE Types, ExportsAssumption DEF Worker, SawEnd, Settling
<1> DEFINE Goal == /\ target'[q] = target[q] /\ target[q] \in Crawl
                   /\ SawEnd(q) \/ crawlState[target[q]] \in Final
<1>1. ASSUME NEW c \in Crawl, StartCrawl(c) \/ HandlerStep(c) \/ Expire(c) PROVE Goal
  BY <1>1 DEF StartCrawl, HandlerStep, Expire
<1>2. ASSUME NEW c \in Crawl, CrawlStep(c) PROVE Goal
  BY <1>2 DEF CrawlStep, OpenArchive, CloseArchive, BindRow, FinishRow, Goto
<1>3. ASSUME NEW p \in Client, ClientStep(p) \/ \E c \in Crawl : Ask(p, c) PROVE Goal
  BY <1>3 DEF ClientStep, ResolveSource, Serve, Ask, Goto
<1>4. ASSUME NEW w \in Crawl \cup Client, ArchiveStep(w) PROVE Goal
  <2>1. CASE SelectJob(w)
    BY <2>1 DEF SelectJob, AfterSelect, Goto
  <2>2. CASE ~SelectJob(w)
    BY <1>4, <2>2 DEF ArchiveStep, InsertJob, ReadFails, Enter, StatFile, CompleteArchive, FailArchive,
       Exit, Goto, Return
  <2> QED BY <2>1, <2>2
<1>5. ASSUME NEW w \in Worker, PurgeStep(w) PROVE Goal
  BY <1>5 DEF PurgeStep, ListExpired, DeleteExpired, RemoveFiles, Goto, Purged, PurgeFailed
<1>6. CASE Crash \/ Restart
  BY <1>6 DEF Crash, Restart
<1> QED BY <1>1, <1>2, <1>3, <1>4, <1>5, <1>6 DEF Next

LEMMA WatchingStep == ASSUME FInv, Next PROVE Watching'
<1> SUFFICES ASSUME NEW q \in Client, SawEnd(q)'
             PROVE  pc'[target'[q]] = "gone" \/ target'[q] \in hindered'
  BY DEF Watching
<1>1. /\ target'[q] = target[q] /\ target[q] \in Crawl
      /\ SawEnd(q) \/ crawlState[target[q]] \in Final
  BY SawEndBefore DEF FInv
<1>2. pc[target[q]] = "gone" \/ target[q] \in hindered
  BY <1>1 DEF FInv, Watching, Ended
<1> QED BY <1>1, <1>2, GoneIsFinal, HinderedGrows DEF FInv

LEMMA RejectBefore ==
  ASSUME IInv, Known, Next, NEW w \in Crawl \cup Client, pc'[w] = "reject"
  PROVE  w \in Crawl \ ready
<1> USE Types, ExportsAssumption DEF Worker, Known
<1>1. ASSUME NEW c \in Crawl, StartCrawl(c) \/ HandlerStep(c) \/ Expire(c) PROVE w \in Crawl \ ready
  BY <1>1 DEF StartCrawl, HandlerStep, Expire
<1>2. ASSUME NEW c \in Crawl, CrawlStep(c) PROVE w \in Crawl \ ready
  BY <1>2 DEF CrawlStep, OpenArchive, CloseArchive, BindRow, FinishRow, Goto
<1>3. ASSUME NEW p \in Client, ClientStep(p) \/ \E c \in Crawl : Ask(p, c) PROVE w \in Crawl \ ready
  BY <1>3 DEF ClientStep, ResolveSource, Serve, Ask, Goto
<1>4. ASSUME NEW v \in Crawl \cup Client, ArchiveStep(v) PROVE w \in Crawl \ ready
  <2>1. CASE SelectJob(v)
    BY <2>1 DEF SelectJob, AfterSelect, Goto
  <2>2. CASE ~SelectJob(v)
    BY <1>4, <2>2 DEF ArchiveStep, InsertJob, ReadFails, Enter, StatFile, CompleteArchive, FailArchive,
       Exit, Goto, Return
  <2> QED BY <2>1, <2>2
<1>5. ASSUME NEW v \in Worker, PurgeStep(v) PROVE w \in Crawl \ ready
  BY <1>5 DEF PurgeStep, ListExpired, DeleteExpired, RemoveFiles, Goto, Purged, PurgeFailed
<1>6. CASE Crash \/ Restart
  BY <1>6 DEF Crash, Restart
<1> QED BY <1>1, <1>2, <1>3, <1>4, <1>5, <1>6 DEF Next

LEMMA KnownStep == ASSUME FInv, Next PROVE Known'
<1> USE Types, ExportsAssumption
<1>1. /\ \A c \in Crawl : pc[c] = "gone" => pc'[c] = "gone"
      /\ hindered \subseteq hindered' /\ IInv /\ Known
      /\ \A w \in Crawl \cup Client : pc'[w] = "reject" => w \in Crawl \ ready
  BY GoneIsFinal, HinderedGrows, RejectBefore DEF FInv
<1>2. ASSUME UNCHANGED <<published, ready>> PROVE Known'
  BY <1>1, <1>2 DEF Known
<1>3. ASSUME NEW c \in Crawl, CrawlStep(c) PROVE Known'
  <2>1. CASE CloseArchive(c)
    BY <1>1, <2>1 DEF Known, CloseArchive, Goto, Worker
  <2>2. CASE BindRow(c)
    BY <1>1, <2>2 DEF Known, BindRow, Fault
  <2>3. CASE OpenArchive(c) \/ FinishRow(c)
    BY <1>2, <2>3 DEF OpenArchive, FinishRow
  <2> QED BY <1>3, <2>1, <2>2, <2>3 DEF CrawlStep
<1>4. CASE Crash
  BY <1>1, <1>4 DEF Known, Crash, IInv, Published, Worker
<1>5. ASSUME NEW c \in Crawl, StartCrawl(c) \/ HandlerStep(c) \/ Expire(c) PROVE Known'
  BY <1>2, <1>5 DEF StartCrawl, HandlerStep, Expire
<1>6. ASSUME NEW q \in Client, ClientStep(q) \/ \E c \in Crawl : Ask(q, c) PROVE Known'
  BY <1>2, <1>6 DEF ClientStep, ResolveSource, Serve, Ask
<1>7. ASSUME NEW w \in Crawl \cup Client, ArchiveStep(w) PROVE Known'
  BY <1>2, <1>7 DEF ArchiveStep, InsertJob, SelectJob, ReadFails, Enter, StatFile, CompleteArchive,
     FailArchive, Exit
<1>8. ASSUME NEW w \in Worker, PurgeStep(w) PROVE Known'
  BY <1>2, <1>8 DEF PurgeStep, ListExpired, DeleteExpired, RemoveFiles
<1>9. CASE Restart
  BY <1>2, <1>9 DEF Restart
<1> QED BY <1>3, <1>4, <1>5, <1>6, <1>7, <1>8, <1>9 DEF Next

-----------------------------------------------------------------------------
(* Files and jobs                                                          *)

\* A file appears when its crawl closes the archive.
LEMMA FileComes ==
  ASSUME IInv, Next, NEW c \in Crawl, "file" \in disk'[c]
  PROVE  "file" \in disk[c] \/ (pc[c] = "write" /\ pc'[c] = "bind")
<1> USE Types, ExportsAssumption DEF Worker
<1> DEFINE Goal == "file" \in disk[c] \/ (pc[c] = "write" /\ pc'[c] = "bind")
<1>1. ASSUME NEW d \in Crawl, StartCrawl(d) \/ HandlerStep(d) \/ Expire(d) PROVE Goal
  BY <1>1 DEF StartCrawl, HandlerStep, Expire
<1>2. ASSUME NEW d \in Crawl, CrawlStep(d) PROVE Goal
  BY <1>2 DEF CrawlStep, OpenArchive, CloseArchive, BindRow, FinishRow, Goto
<1>3. ASSUME NEW q \in Client, ClientStep(q) \/ \E d \in Crawl : Ask(q, d) PROVE Goal
  BY <1>3 DEF ClientStep, ResolveSource, Serve, Ask
<1>4. ASSUME NEW w \in Crawl \cup Client, ArchiveStep(w) PROVE Goal
  BY <1>4 DEF ArchiveStep, InsertJob, SelectJob, ReadFails, Enter, StatFile, CompleteArchive, FailArchive,
     Exit
<1>5. ASSUME NEW w \in Worker, PurgeStep(w) PROVE Goal
  BY <1>5 DEF PurgeStep, ListExpired, DeleteExpired, RemoveFiles
<1>6. CASE Crash \/ Restart
  BY <1>6 DEF Crash, Restart
<1> QED BY <1>1, <1>2, <1>3, <1>4, <1>5, <1>6 DEF Next

\* Somebody fails the pending job of c.
Fails(c) ==
  \E w \in Crawl \cup Client :
    /\ FailArchive(w) /\ target[w] = c /\ jobState[c] = "pending"

\* What can become of the job of c.
JobMoves(c) ==
  \/ jobState'[c] = jobState[c]
  \/ jobState[c] \in {"none", "pending"} /\ jobState'[c] \in {"pending", "ready"}
  \/ jobState'[c] = "none" /\ "file" \notin disk'[c]
  \/ jobState'[c] = "failed" /\ Fails(c)

LEMMA JobStep == ASSUME IInv, Next, NEW c \in Crawl PROVE JobMoves(c)
<1> USE Types, ExportsAssumption DEF Worker
<1>1. ASSUME NEW d \in Crawl, StartCrawl(d) \/ HandlerStep(d) \/ CrawlStep(d) \/ Expire(d) PROVE JobMoves(c)
  BY <1>1 DEF JobMoves, StartCrawl, HandlerStep, CrawlStep, OpenArchive, CloseArchive, BindRow, FinishRow, Expire
<1>2. ASSUME NEW q \in Client, ClientStep(q) \/ \E d \in Crawl : Ask(q, d) PROVE JobMoves(c)
  BY <1>2 DEF JobMoves, ClientStep, ResolveSource, Serve, Ask
<1>3. ASSUME NEW w \in Crawl \cup Client, ArchiveStep(w) PROVE JobMoves(c)
  <2>1. CASE InsertJob(w)
    BY <2>1 DEF JobMoves, InsertJob, InsertRow
  <2>2. CASE CompleteArchive(w)
    BY <2>2 DEF JobMoves, CompleteArchive, SettleRow
  <2>3. CASE FailArchive(w)
    BY <2>3 DEF JobMoves, Fails, FailArchive, SettleRow
  <2>4. CASE SelectJob(w) \/ ReadFails(w) \/ Enter(w) \/ StatFile(w) \/ Exit(w)
    BY <2>4 DEF JobMoves, SelectJob, ReadFails, Enter, StatFile, Exit
  <2> QED BY <1>3, <2>1, <2>2, <2>3, <2>4 DEF ArchiveStep
<1>4. ASSUME NEW w \in Worker, PurgeStep(w) PROVE JobMoves(c)
  <2>1. CASE DeleteExpired(w)
    <3>1. disk[victim[w][1]] = {} /\ disk' = disk
      BY <2>1 DEF DeleteExpired, IInv, Purging
    <3> QED BY <2>1, <3>1 DEF JobMoves, DeleteExpired, DeleteRow
  <2>2. CASE ~DeleteExpired(w)
    BY <1>4, <2>2 DEF JobMoves, PurgeStep, ListExpired, RemoveFiles
  <2> QED BY <2>1, <2>2
<1>5. CASE Crash \/ Restart
  BY <1>5 DEF JobMoves, Crash, Restart
<1> QED BY <1>1, <1>2, <1>3, <1>4, <1>5 DEF Next

\* Who comes to fail a job found no file, could not ask, or found it settled or gone.
LEMMA FailBefore ==
  ASSUME IInv, Next, NEW w \in Crawl \cup Client, pc'[w] = "fail"
  PROVE  /\ target'[w] = target[w] /\ target[w] \in Crawl
         /\ \/ pc[w] = "fail"
            \/ "file" \notin disk'[target[w]]
            \/ target[w] \in hindered'
            \/ jobState'[target[w]] \in {"ready", "failed"}
<1> USE Types, ExportsAssumption DEF Worker
<1> DEFINE t == target[w]
           Goal == /\ target'[w] = t /\ t \in Crawl
                   /\ \/ pc[w] = "fail" \/ "file" \notin disk'[t] \/ t \in hindered'
                      \/ jobState'[t] \in {"ready", "failed"}
<1>1. ASSUME NEW c \in Crawl, StartCrawl(c) \/ HandlerStep(c) \/ Expire(c) PROVE Goal
  BY <1>1 DEF StartCrawl, HandlerStep, Expire
<1>2. ASSUME NEW c \in Crawl, CrawlStep(c) PROVE Goal
  BY <1>2 DEF CrawlStep, OpenArchive, CloseArchive, BindRow, FinishRow, Goto
<1>3. ASSUME NEW p \in Client, ClientStep(p) \/ \E c \in Crawl : Ask(p, c) PROVE Goal
  BY <1>3 DEF ClientStep, ResolveSource, Serve, Ask, Goto
<1>4. ASSUME NEW v \in Crawl \cup Client, ArchiveStep(v) PROVE Goal
  <2>1. CASE SelectJob(v)
    BY <2>1 DEF SelectJob, AfterSelect, Goto
  <2>2. CASE CompleteArchive(v)
    <3>1. v = w \/ pc'[w] = pc[w]
      BY <2>2 DEF CompleteArchive, Goto
    <3>2. CASE v = w
      <4>1. pc[w] = "complete" /\ target' = target /\ disk' = disk /\ t \in Crawl
        BY <2>2, <3>2 DEF CompleteArchive, Goto
      <4>2. CASE t \in hindered'
        BY <4>1, <4>2
      <4>3. CASE t \notin hindered'
        <5>1. jobState[t] # "pending" /\ jobState'[t] = jobState[t]
          BY <2>2, <3>2, <4>1, <4>3 DEF CompleteArchive, Goto, SettleRow, Fault
        <5>2. made[t] \in Nat /\ seen[w][2] \in 1 .. made[t]
          BY <4>1, TypeParts DEF IInv, JobsOK, OneFinaliser, Settling
        <5>3. jobState[t] = "none" => disk[t] = {}
          BY <4>1, <5>2 DEF IInv, NothingLeftBehind
        <5> QED BY <4>1, <5>1, <5>3
      <4> QED BY <4>2, <4>3
    <3>3. CASE v # w
      BY <2>2, <3>3 DEF CompleteArchive, Goto
    <3> QED BY <3>2, <3>3
  <2>3. CASE ReadFails(v)
    BY <2>3 DEF ReadFails, Goto, Return, Fault
  <2>4. CASE StatFile(v)
    BY <2>4 DEF StatFile, Goto
  <2>5. CASE InsertJob(v) \/ Enter(v) \/ FailArchive(v) \/ Exit(v)
    BY <2>5 DEF InsertJob, Enter, FailArchive, Exit, Goto, Return
  <2> QED BY <1>4, <2>1, <2>2, <2>3, <2>4, <2>5 DEF ArchiveStep
<1>5. ASSUME NEW v \in Worker, PurgeStep(v) PROVE Goal
  BY <1>5 DEF PurgeStep, ListExpired, DeleteExpired, RemoveFiles, Goto, Purged, PurgeFailed
<1>6. CASE Crash \/ Restart
  BY <1>6 DEF Crash, Restart
<1> QED BY <1>1, <1>2, <1>3, <1>4, <1>5, <1>6 DEF Next

LEMMA FailingStep == ASSUME FInv, Next PROVE Failing'
<1> SUFFICES ASSUME NEW w \in Crawl \cup Client, pc'[w] = "fail", "file" \in disk'[target'[w]]
             PROVE  jobState'[target'[w]] \in {"ready", "failed"} \/ target'[w] \in hindered'
  BY DEF Failing
<1> DEFINE c == target[w]
<1>1. IInv /\ Next /\ hindered \subseteq hindered'
  BY HinderedGrows DEF FInv
<1>2. target'[w] = c /\ c \in Crawl
  BY <1>1, FailBefore
<1> SUFFICES ASSUME pc[w] = "fail", c \notin hindered
             PROVE  jobState'[c] \in {"ready", "failed"}
  BY <1>1, <1>2, FailBefore
<1>3. "file" \in disk[c]
  <2>1. CASE w \in Client
    BY <1>1, <1>2, <2>1, FileComes DEF FInv, Watching, SawEnd, Settling
  <2>2. CASE w \in Crawl
    BY <1>1, <1>2, <2>2, FileComes, Types
  <2> QED BY <2>1, <2>2
<1>4. jobState[c] \in {"ready", "failed"}
  BY <1>3 DEF FInv, Failing
<1> QED BY <1>1, <1>2, <1>4, JobStep DEF JobMoves

LEMMA FailedStep == ASSUME FInv, Next PROVE Failed'
<1> SUFFICES ASSUME NEW c \in Crawl, jobState'[c] = "failed", c \notin hindered
             PROVE  "file" \notin disk'[c] /\ pc'[c] \notin {"idle", "open", "write"}
  BY HinderedGrows DEF Failed
<1>1. IInv /\ Next
  BY DEF FInv
<1>2. "file" \notin disk[c] /\ pc[c] \notin {"idle", "open", "write"}
  <2>1. CASE jobState[c] = "failed"
    BY <2>1 DEF FInv, Failed
  <2>2. CASE jobState[c] # "failed"
    <3>1. Fails(c)
      BY <1>1, <2>2, JobStep DEF JobMoves
    <3>2. PICK w \in Crawl \cup Client :
            target[w] = c /\ jobState[c] = "pending" /\ pc[w] \in {"fail", "reject"}
      BY <3>1 DEF Fails, FailArchive
    <3>3. CASE pc[w] = "reject"
      <4>1. w = c /\ c \notin ready
        BY <1>1, <3>2, <3>3, Types DEF FInv, Known
      <4> QED BY <3>3, <4>1 DEF FInv, IInv, Published, Known
    <3>4. CASE pc[w] = "fail"
      <4>1. "file" \notin disk[c]
        BY <3>2, <3>4 DEF FInv, Failing
      <4>2. pc[c] \notin {"idle", "open", "write"}
        BY <1>1, <3>2, <3>4, Types DEF FInv, Watching, SawEnd, Settling
      <4> QED BY <4>1, <4>2
    <3> QED BY <3>2, <3>3, <3>4
  <2> QED BY <2>1, <2>2
<1> QED BY <1>1, <1>2, FileComes, EarlyIsFirst

-----------------------------------------------------------------------------
(* The theorem                                                             *)

LEMMA FirstFInv == Init => FInv
<1> SUFFICES ASSUME Init PROVE FInv
  OBVIOUS
<1>1. \A w \in Crawl \cup Client : pc[w] = "idle"
  BY ExportsAssumption DEF Init, Worker
<1>2. Ended /\ Known /\ Failed
  BY <1>1 DEF Init, Ended, Known, Failed, Final
<1>3. Watching /\ Failing
  BY <1>1 DEF Init, Watching, SawEnd, Settling, Failing
<1> QED BY <1>2, <1>3, InitInv DEF FInv

LEMMA NextFInv == FInv /\ [Next]_vars => FInv'
<1> SUFFICES ASSUME FInv, [Next]_vars PROVE FInv'
  OBVIOUS
<1>1. IInv'
  BY NextInv DEF FInv
<1>2. CASE Next
  BY <1>1, <1>2, EndedStep, WatchingStep, KnownStep, FailingStep, FailedStep DEF FInv
<1>3. CASE UNCHANGED vars
  <2>1. Ended' /\ Known' /\ Failed'
    BY <1>3 DEF FInv, vars, Ended, Known, Failed
  <2>2. Watching' /\ Failing'
    BY <1>3 DEF FInv, vars, Watching, SawEnd, Settling, Failing
  <2> QED BY <1>1, <2>1, <2>2 DEF FInv
<1> QED BY <1>2, <1>3

\* The archive of a crawl is reported as failed (FailArchive, repository/api_exports.go) while
\* it is there only if a call made for that crawl failed: neither the order of requests and
\* the end of the crawl, nor a crash, nor a purge is enough.
THEOREM FailuresAreReal == Spec => []FailureIsReal
<1>1. FInv => FailureIsReal
  BY DEF FInv, Failed, FailureIsReal
<1> QED BY <1>1, FirstFInv, NextFInv, PTL DEF Spec
=============================================================================
