----------------------------- MODULE ApiExports ------------------------------
(***************************************************************************)
(* The archives of API crawls: APIExportManager (services/api_exports.go)  *)
(* over the rows of api_export_jobs (repository/api_exports.go), the files *)
(* of ArchiveService (services/archive.go), and the requests of clients    *)
(* (api/exports.go).                                                       *)
(*                                                                         *)
(* The workers are the goroutine of each crawl, from the moment it writes  *)
(* its archive to the completion of its row; the requests that ask for an  *)
(* archive; and the startup.  All of them purge what has expired.  The     *)
(* start of a crawl and its row are reduced to what decides about the      *)
(* archive; CrawlLifecycle has them in full.                               *)
(*                                                                         *)
(* One statement or one call of the file system is one step.  It may fail, *)
(* and a write that fails may have been applied.                           *)
(***************************************************************************)
EXTENDS Naturals, FiniteSets

CONSTANTS
  Crawl,
  Client,       \* requests for an archive that are served at the same time
  Boot,         \* the worker that starts the process
  MaxJobs,      \* bound: rows a crawl gets, one after the other expired
  MaxFailures,  \* bound: failing statements and file operations
  MaxCrashes    \* bound: crashes of the process

ASSUME ExportsAssumption ==
  /\ Crawl \cap Client = {}
  /\ Boot \notin Crawl \cup Client
  /\ MaxJobs \in Nat \ {0}
  /\ MaxFailures \in Nat /\ MaxCrashes \in Nat

VARIABLES
  crawlState, bound,  \* api_crawls: state, upstream_crawl_id set
  handler,     \* where the request that started the crawl is
  jobState,    \* api_export_jobs: state, "none" without a row
  made,        \* rows the crawl has had; the number of a row is its ID
  expired,     \* crawls whose row has expires_at in the past
  disk,        \* what is in archive/api/<crawl>
  inflight,    \* m.inflight: IDs, as pairs of crawl and row
  pc,          \* where each worker is
  target,      \* the crawl a worker is concerned with
  seen,        \* job.ID as the worker read it
  saw,         \* source.State as the request read it
  todo, victim,  \* jobs still to purge; the one being purged
  ready, outcome,  \* result.ArchiveReady and result.State of a crawl
  up, crashes, failures,
  hindered,    \* history: crawls some worker failed to serve
  published,   \* history: crawls whose archive was published
  crossed      \* history: crawls whose row the reader of an older one settled

rowVars   == <<crawlState, bound, handler>>
jobVars   == <<jobState, made, expired>>
localVars == <<target, seen, saw>>
purgeVars == <<todo, victim>>
runVars   == <<ready, outcome>>
procVars  == <<up, crashes>>
faultVars == <<failures, hindered>>
historyVars == <<published, crossed>>
vars == <<rowVars, jobVars, disk, inflight, pc, localVars, purgeVars, runVars,
          procVars, faultVars, historyVars>>

Worker == Crawl \cup Client \cup {Boot}
Final == {"succeeded", "failed", "canceled"}
Nobody == <<Boot, 0>>     \* no job
JobId == {Nobody} \cup (Crawl \X Nat)

TypeOK ==
  /\ crawlState \in [Crawl -> {"none", "queued", "running"} \cup Final]
  /\ bound \subseteq Crawl
  /\ handler \in [Crawl -> {"mark", "abort", "done"}]
  /\ jobState \in [Crawl -> {"none", "pending", "ready", "failed"}]
  /\ made \in [Crawl -> Nat]
  /\ expired \subseteq {c \in Crawl : jobState[c] # "none"}
  /\ disk \in [Crawl -> SUBSET {"partial", "file"}]
  /\ inflight \subseteq JobId
  /\ pc \in [Worker -> {"idle", "open", "write", "bind", "insert", "select",
                        "reject", "enter", "stat", "complete", "fail", "exit",
                        "list", "sweep", "delete", "resolve", "serve",
                        "finish", "retry", "gone"}]
  /\ target \in [Worker -> Crawl \cup {Boot}]
  /\ seen \in [Worker -> JobId]
  /\ saw \in [Client -> {"none", "queued", "running"} \cup Final]
  /\ todo \in [Worker -> SUBSET (Crawl \X Nat)]
  /\ victim \in [Worker -> JobId]
  /\ ready \subseteq Crawl
  /\ outcome \in [Crawl -> {"none"} \cup Final]
  /\ up \in BOOLEAN
  /\ crashes \in 0 .. MaxCrashes
  /\ failures \in 0 .. MaxFailures
  /\ hindered \subseteq Crawl
  /\ published \subseteq Crawl
  /\ crossed \subseteq Crawl

Init ==
  /\ crawlState = [c \in Crawl |-> "none"]
  /\ bound = {}
  /\ handler = [c \in Crawl |-> "done"]
  /\ jobState = [c \in Crawl |-> "none"]
  /\ made = [c \in Crawl |-> 0]
  /\ expired = {}
  /\ disk = [c \in Crawl |-> {}]
  /\ inflight = {}
  /\ pc = [w \in Worker |-> IF w = Boot THEN "gone" ELSE "idle"]
  /\ target = [w \in Worker |-> IF w \in Crawl THEN w ELSE Boot]
  /\ seen = [w \in Worker |-> Nobody]
  /\ saw = [q \in Client |-> "none"]
  /\ todo = [w \in Worker |-> {}]
  /\ victim = [w \in Worker |-> Nobody]
  /\ ready = {}
  /\ outcome = [c \in Crawl |-> "none"]
  /\ up = TRUE /\ crashes = 0
  /\ failures = 0 /\ hindered = {} /\ published = {} /\ crossed = {}

-----------------------------------------------------------------------------
(* Failures, and the program counters                                      *)

NoFault == UNCHANGED faultVars

\* A call fails while w works for a crawl.
Fault(w) ==
  /\ failures < MaxFailures
  /\ failures' = failures + 1
  /\ hindered' = hindered \cup (Crawl \cap {target[w]})

At(w, from) == up /\ pc[w] = from /\ UNCHANGED procVars

\* A request that is answered leaves nothing behind.
Goto(w, to) ==
  /\ pc' = [pc EXCEPT ![w] = to]
  /\ IF to = "idle"
     THEN /\ target' = [target EXCEPT ![w] = Boot]
          /\ seen' = [seen EXCEPT ![w] = Nobody]
          /\ saw' = [saw EXCEPT ![w] = "none"]
     ELSE UNCHANGED localVars

\* Where a worker goes when CrawlCompleted or PrepareArchive is left early,
\* and when the purge is over or has failed.  The purge of CrawlCompleted is
\* deferred; PrepareArchive begins with it and fails with it.
Return(w) == IF w \in Crawl THEN "list" ELSE "idle"
Purged(w) == CASE w \in Crawl -> "finish" [] w \in Client -> "resolve"
               [] OTHER -> "gone"
PurgeFailed(w) == IF w \in Client THEN "idle" ELSE Purged(w)

-----------------------------------------------------------------------------
(* The crawl: its row and its archive writer                               *)

\* ReserveCrawl and the start of the goroutine.
StartCrawl(c) ==
  /\ At(c, "idle") /\ pc[Boot] = "gone"
  /\ crawlState[c] = "none"
  /\ crawlState' = [crawlState EXCEPT ![c] = "queued"]
  /\ handler' = [handler EXCEPT ![c] = "mark"]
  /\ pc' = [pc EXCEPT ![c] = "open"]
  /\ NoFault
  /\ UNCHANGED <<bound, jobVars, disk, inflight, localVars, purgeVars,
                 runVars, historyVars>>

MarkRow(c) ==
  IF crawlState[c] = "queued"
  THEN /\ crawlState' = [crawlState EXCEPT ![c] = "running"]
       /\ bound' = bound \cup {c}
  ELSE UNCHANGED <<crawlState, bound>>

CompleteRow(c, s) ==
  /\ crawlState' = IF crawlState[c] \in {"queued", "running"}
                   THEN [crawlState EXCEPT ![c] = s] ELSE crawlState
  /\ UNCHANGED bound

\* The rest of StartCrawl: a failed update ends the row while the crawler,
\* which was told to stop, still works.
HandlerStep(c) ==
  /\ up /\ UNCHANGED procVars
  /\ \/ /\ handler[c] = "mark" /\ MarkRow(c)
        /\ handler' = [handler EXCEPT ![c] = "done"] /\ NoFault
     \/ /\ handler[c] = "mark" /\ Fault(c)
        /\ MarkRow(c) \/ UNCHANGED <<crawlState, bound>>
        /\ handler' = [handler EXCEPT ![c] = "abort"]
     \/ /\ handler[c] = "abort"
        /\ \/ CompleteRow(c, "failed") /\ NoFault
           \/ Fault(c) /\ UNCHANGED <<crawlState, bound>>
        /\ handler' = [handler EXCEPT ![c] = "done"]
  /\ UNCHANGED <<jobVars, disk, inflight, pc, localVars, purgeVars, runVars,
                 historyVars>>

\* Mutant of OpenArchive: the writer writes where readers look.
OpenArchive_inPlace(c) ==
  /\ At(c, "open")
  /\ disk' = [disk EXCEPT ![c] = {"partial", "file"}]
  /\ Goto(c, "write")
  /\ NoFault
  /\ UNCHANGED <<rowVars, jobVars, inflight, purgeVars, runVars, historyVars>>

\* GetAPIArchiveWriter creates the partial file, unless the project is not
\* archived or the writer could not be made.
OpenArchive(c) ==
  /\ At(c, "open")
  /\ disk' \in {disk, [disk EXCEPT ![c] = {"partial"}]}
  /\ Goto(c, "write")
  /\ NoFault
  /\ UNCHANGED <<rowVars, jobVars, inflight, purgeVars, runVars, historyVars>>

\* The crawl is over.  closeArchive closes the writer and publishes the
\* file; the other end is a failure of either.
CloseArchive(c) ==
  /\ At(c, "write")
  /\ IF "partial" \in disk[c]
     THEN \/ /\ disk' = [disk EXCEPT ![c] = {"file"}]
             /\ published' = published \cup {c}
             /\ ready' = ready \cup {c} /\ NoFault
          \/ Fault(c) /\ UNCHANGED <<disk, published, ready>>
     ELSE UNCHANGED <<disk, published, ready>> /\ NoFault
  /\ Goto(c, "bind")
  /\ UNCHANGED <<rowVars, jobVars, inflight, purgeVars, outcome, crossed>>

\* The completion callback binds the row, however the crawl ended; when that
\* fails the archive counts as missing.
BindRow(c) ==
  /\ At(c, "bind")
  /\ \/ /\ MarkRow(c) /\ NoFault
        /\ \E s \in Final : outcome' = [outcome EXCEPT ![c] = s]
        /\ UNCHANGED ready
     \/ /\ MarkRow(c) \/ UNCHANGED <<crawlState, bound>>
        /\ Fault(c)
        /\ outcome' = [outcome EXCEPT ![c] = "failed"]
        /\ ready' = ready \ {c}
  /\ Goto(c, "insert")
  /\ UNCHANGED <<handler, jobVars, disk, inflight, purgeVars, historyVars>>

\* CompleteCrawl, tried twice.
FinishRow(c) ==
  /\ \/ /\ At(c, "finish") \/ At(c, "retry")
        /\ CompleteRow(c, outcome[c]) /\ Goto(c, "gone") /\ NoFault
     \/ /\ UNCHANGED <<crawlState, bound>> /\ Fault(c)
        /\ \/ At(c, "finish") /\ Goto(c, "retry")
           \/ At(c, "retry") /\ Goto(c, "gone")
  /\ UNCHANGED <<handler, jobVars, disk, inflight, purgeVars, runVars,
                 historyVars>>

-----------------------------------------------------------------------------
(* CrawlCompleted and PrepareArchive: a job and who settles it             *)

\* PrepareArchive, with the purge first.
Ask(q, c) ==
  /\ At(q, "idle") /\ pc[Boot] = "gone"
  /\ pc' = [pc EXCEPT ![q] = "list"]
  /\ target' = [target EXCEPT ![q] = c]
  /\ NoFault
  /\ UNCHANGED <<rowVars, jobVars, disk, inflight, seen, saw, purgeVars,
                 runVars, historyVars>>

\* ResolveSource finds rows that are bound only.
ResolveSource(q) ==
  LET c == target[q] IN
  /\ At(q, "resolve")
  /\ \/ /\ c \in bound /\ NoFault
        /\ pc' = [pc EXCEPT ![q] = "insert"]
        /\ saw' = [saw EXCEPT ![q] = crawlState[c]]
        /\ UNCHANGED <<target, seen>>
     \/ c \notin bound /\ Goto(q, "idle") /\ NoFault
     \/ Goto(q, "idle") /\ Fault(q)
  /\ UNCHANGED <<rowVars, jobVars, disk, inflight, purgeVars, runVars,
                 historyVars>>

\* Another call that reads fails.
ReadFails(w) ==
  /\ \/ At(w, "select") /\ Goto(w, Return(w))
     \/ At(w, "stat") /\ Goto(w, "fail")
  /\ Fault(w)
  /\ UNCHANGED <<rowVars, jobVars, disk, inflight, purgeVars, runVars,
                 historyVars>>

\* ReserveArchive, first statement: a row unless there is one.
InsertRow(c) ==
  /\ IF jobState[c] = "none"
     THEN /\ jobState' = [jobState EXCEPT ![c] = "pending"]
          /\ made' = [made EXCEPT ![c] = @ + 1]
     ELSE UNCHANGED <<jobState, made>>
  /\ UNCHANGED expired

InsertJob(w) ==
  /\ At(w, "insert")
  /\ \/ InsertRow(target[w]) /\ Goto(w, "select") /\ NoFault
     \/ /\ Fault(w) /\ Goto(w, Return(w))
        /\ InsertRow(target[w]) \/ UNCHANGED jobVars
  /\ UNCHANGED <<rowVars, disk, inflight, purgeVars, runVars, historyVars>>

CurrentJob(c) == <<c, made[c]>>

\* Mutant of AfterSelect: a request settles the job of a running crawl.
AfterSelect_early(w) ==
  LET s == jobState[target[w]] IN
  CASE w \in Crawl /\ (s # "pending" \/ w \notin ready) -> "list"
    [] w \in Client /\ s = "ready" -> "serve"
    [] s = "pending" -> "enter"
    [] OTHER -> "idle"

\* ReserveArchive, second statement, and what the caller makes of the row.
\* Without a row, because it was purged in between, it is an error.
AfterSelect(w) ==
  LET s == jobState[target[w]] IN
  IF w \in Crawl
  THEN CASE s # "pending" -> "list"
         [] w \notin ready -> "reject"
         [] OTHER -> "enter"
  ELSE CASE s = "ready" -> "serve"
         [] s = "pending" /\ saw[w] \in Final -> "enter"
         [] OTHER -> "idle"

SelectJob(w) ==
  LET c == target[w] IN
  /\ At(w, "select")
  /\ IF AfterSelect(w) = "enter"
     THEN /\ pc' = [pc EXCEPT ![w] = "enter"]
          /\ seen' = [seen EXCEPT ![w] = CurrentJob(c)]
          /\ UNCHANGED <<target, saw>>
     ELSE Goto(w, AfterSelect(w))
  /\ NoFault
  /\ UNCHANGED <<rowVars, jobVars, disk, inflight, purgeVars, runVars,
                 historyVars>>

\* os.Open, and the answer.
Serve(q) ==
  /\ At(q, "serve") /\ Goto(q, "idle")
  /\ NoFault
  /\ UNCHANGED <<rowVars, jobVars, disk, inflight, purgeVars, runVars,
                 historyVars>>

\* Mutant of Enter: who is in flight is not looked at.
Enter_always(w) ==
  /\ At(w, "enter") /\ Goto(w, "stat")
  /\ inflight' = inflight \cup {seen[w]}
  /\ NoFault
  /\ UNCHANGED <<rowVars, jobVars, disk, purgeVars, runVars, historyVars>>

\* inflight.LoadOrStore.
Enter(w) ==
  /\ \/ /\ seen[w] \notin inflight
        /\ At(w, "enter") /\ Goto(w, "stat")
        /\ inflight' = inflight \cup {seen[w]}
     \/ /\ seen[w] \in inflight
        /\ At(w, "enter") /\ Goto(w, Return(w))
        /\ UNCHANGED inflight
  /\ NoFault
  /\ UNCHANGED <<rowVars, jobVars, disk, purgeVars, runVars, historyVars>>

\* Mutant of StatFile: without a file the job is left as it is.
StatFile_gives_up(w) ==
  /\ At(w, "stat")
  /\ Goto(w, IF "file" \in disk[target[w]] THEN "complete" ELSE "exit")
  /\ NoFault
  /\ UNCHANGED <<rowVars, jobVars, disk, inflight, purgeVars, runVars,
                 historyVars>>

\* finalizeArchive looks for the file; every caller has a final state.
StatFile(w) ==
  /\ At(w, "stat")
  /\ Goto(w, IF "file" \in disk[target[w]] THEN "complete" ELSE "fail")
  /\ NoFault
  /\ UNCHANGED <<rowVars, jobVars, disk, inflight, purgeVars, runVars,
                 historyVars>>

\* The updates of CompleteArchive and FailArchive: the pending row of the
\* crawl, whichever it is.
SettleRow(w, s) ==
  LET c == target[w] IN
  /\ IF jobState[c] = "pending"
     THEN /\ jobState' = [jobState EXCEPT ![c] = s]
          /\ crossed' = IF seen[w] # Nobody /\ seen[w] # CurrentJob(c)
                        THEN crossed \cup {c} ELSE crossed
     ELSE UNCHANGED <<jobState, crossed>>
  /\ UNCHANGED <<made, expired>>

\* An update of no row is an error as well.
CompleteArchive(w) ==
  /\ At(w, "complete")
  /\ \/ /\ SettleRow(w, "ready") /\ NoFault
        /\ Goto(w, IF jobState[target[w]] = "pending" THEN "exit" ELSE "fail")
     \/ /\ SettleRow(w, "ready") \/ UNCHANGED <<jobVars, crossed>>
        /\ Fault(w) /\ Goto(w, "fail")
  /\ UNCHANGED <<rowVars, disk, published, inflight, purgeVars, runVars>>

\* Its error is only logged.  A crawl without an archive never was in flight.
FailArchive(w) ==
  /\ \/ At(w, "fail") /\ Goto(w, "exit")
     \/ At(w, "reject") /\ Goto(w, "list")
  /\ \/ SettleRow(w, "failed") /\ NoFault
     \/ (SettleRow(w, "failed") \/ UNCHANGED <<jobVars, crossed>>) /\ Fault(w)
  /\ UNCHANGED <<rowVars, disk, published, inflight, purgeVars, runVars>>

\* The deferred inflight.Delete.
Exit(w) ==
  /\ At(w, "exit") /\ Goto(w, Return(w))
  /\ inflight' = inflight \ {seen[w]}
  /\ NoFault
  /\ UNCHANGED <<rowVars, jobVars, disk, purgeVars, runVars, historyVars>>

-----------------------------------------------------------------------------
(* PurgeExpiredArchives                                                    *)

ListExpired(w) ==
  /\ At(w, "list")
  /\ \/ /\ todo' = [todo EXCEPT ![w] = {CurrentJob(c) : c \in expired}]
        /\ Goto(w, IF expired = {} THEN Purged(w) ELSE "sweep")
        /\ NoFault
     \/ UNCHANGED todo /\ Goto(w, PurgeFailed(w)) /\ Fault(w)
  /\ UNCHANGED <<rowVars, jobVars, disk, inflight, victim, runVars,
                 historyVars>>

\* os.Remove of the file and RemoveAll of its directory.  Not to find them is
\* no error; another one ends the purge.
RemoveFiles(w, j) ==
  /\ At(w, "sweep")
  /\ \/ /\ disk' = [disk EXCEPT ![j[1]] = {}]
        /\ pc' = [pc EXCEPT ![w] = "delete"]
        /\ victim' = [victim EXCEPT ![w] = j]
        /\ NoFault /\ UNCHANGED <<todo, localVars>>
     \/ /\ disk' \in {disk, [disk EXCEPT ![j[1]] = @ \ {"file"}]}
        /\ Goto(w, PurgeFailed(w)) /\ Fault(w)
        /\ todo' = [todo EXCEPT ![w] = {}] /\ UNCHANGED victim
  /\ UNCHANGED <<rowVars, jobVars, inflight, runVars, historyVars>>

\* Mutant of RowToDelete: the row of the crawl, whichever it is.
RowToDelete_any(j) == jobState[j[1]] # "none"

\* The row with that ID, if it is still there; its expires_at never changes.
RowToDelete(j) == j = CurrentJob(j[1]) /\ jobState[j[1]] # "none"

DeleteRow(j) ==
  /\ IF RowToDelete(j)
     THEN /\ jobState' = [jobState EXCEPT ![j[1]] = "none"]
          /\ expired' = expired \ {j[1]}
     ELSE UNCHANGED <<jobState, expired>>
  /\ UNCHANGED made

DeleteExpired(w) ==
  LET rest == todo[w] \ {victim[w]} IN
  /\ At(w, "delete")
  /\ \/ /\ DeleteRow(victim[w]) /\ NoFault
        /\ todo' = [todo EXCEPT ![w] = rest]
        /\ Goto(w, IF rest = {} THEN Purged(w) ELSE "sweep")
     \/ /\ DeleteRow(victim[w]) \/ UNCHANGED jobVars
        /\ Fault(w) /\ Goto(w, PurgeFailed(w))
        /\ todo' = [todo EXCEPT ![w] = {}]
  /\ victim' = [victim EXCEPT ![w] = Nobody]
  /\ UNCHANGED <<rowVars, disk, inflight, runVars, historyVars>>

-----------------------------------------------------------------------------
(* Time and the process                                                    *)

\* Seven days after ReserveArchive.  A crawl is over before.
Expire(c) ==
  /\ jobState[c] # "none" /\ pc[c] = "gone"
  /\ made[c] < MaxJobs
  /\ expired' = expired \cup {c}
  /\ UNCHANGED <<rowVars, jobState, made, disk, inflight, pc, localVars,
                 purgeVars, runVars, procVars, faultVars, historyVars>>

Crash ==
  /\ up /\ crashes < MaxCrashes
  /\ up' = FALSE /\ crashes' = crashes + 1
  /\ handler' = [c \in Crawl |-> "done"]
  /\ pc' = [w \in Worker |->
             IF w \in Client \/ (w \in Crawl /\ pc[w] = "idle")
             THEN "idle" ELSE "gone"]
  /\ target' = [w \in Worker |-> IF w \in Crawl THEN w ELSE Boot]
  /\ seen' = [w \in Worker |-> Nobody]
  /\ saw' = [q \in Client |-> "none"]
  /\ todo' = [w \in Worker |-> {}]
  /\ victim' = [w \in Worker |-> Nobody]
  /\ inflight' = {} /\ ready' = {}
  /\ outcome' = [c \in Crawl |-> "none"]
  /\ NoFault
  /\ UNCHANGED <<crawlState, bound, jobVars, disk, historyVars>>

\* RecoverInterruptedCrawls; then the purge, before any request is served.
Restart ==
  /\ ~up /\ up' = TRUE /\ UNCHANGED crashes
  /\ \/ /\ crawlState' = [c \in Crawl |->
             IF crawlState[c] \in {"queued", "running"}
             THEN "failed" ELSE crawlState[c]]
        /\ NoFault
     \/ Fault(Boot) /\ UNCHANGED crawlState
  /\ pc' = [pc EXCEPT ![Boot] = "list"]
  /\ UNCHANGED <<bound, handler, jobVars, disk, inflight, localVars,
                 purgeVars, runVars, historyVars>>

-----------------------------------------------------------------------------

PurgeStep(w) ==
  \/ ListExpired(w) \/ DeleteExpired(w)
  \/ \E j \in todo[w] : RemoveFiles(w, j)

ArchiveStep(w) ==
  \/ InsertJob(w) \/ SelectJob(w) \/ ReadFails(w) \/ Enter(w) \/ StatFile(w)
  \/ CompleteArchive(w) \/ FailArchive(w) \/ Exit(w)

CrawlStep(c) ==
  OpenArchive(c) \/ CloseArchive(c) \/ BindRow(c) \/ FinishRow(c)

ClientStep(q) == ResolveSource(q) \/ Serve(q)

Next ==
  \/ \E c \in Crawl :
       StartCrawl(c) \/ HandlerStep(c) \/ CrawlStep(c) \/ Expire(c)
  \/ \E q \in Client : ClientStep(q) \/ \E c \in Crawl : Ask(q, c)
  \/ \E w \in Crawl \cup Client : ArchiveStep(w)
  \/ \E w \in Worker : PurgeStep(w)
  \/ Crash \/ Restart

Spec == Init /\ [][Next]_vars

\* Goroutines and handlers go on, and some client keeps asking, as Retry-After
\* tells it to.
Fairness ==
  /\ \A c \in Crawl : WF_vars(HandlerStep(c)) /\ WF_vars(CrawlStep(c))
                      /\ SF_vars(\E q \in Client : Ask(q, c))
  /\ \A q \in Client : WF_vars(ClientStep(q))
  /\ \A w \in Crawl \cup Client : WF_vars(ArchiveStep(w))
  /\ \A w \in Worker : WF_vars(PurgeStep(w))

FairSpec == Spec /\ Fairness
-----------------------------------------------------------------------------
(* Properties                                                              *)

\* A goroutine works on its own crawl, a request on the one it asks for.
Placed ==
  /\ \A c \in Crawl : target[c] = c
  /\ \A q \in Client : pc[q] # "idle" => target[q] \in Crawl

\* A job is settled by the holder of its ID in m.inflight, one at a time.
Settling(w) == pc[w] \in {"stat", "complete", "fail", "exit"}

OneFinaliser ==
  /\ \A w \in Crawl \cup Client :
       /\ Settling(w) => seen[w] \in inflight
       /\ Settling(w) \/ pc[w] = "enter" =>
            seen[w][1] = target[w] /\ seen[w][2] \in 1 .. made[target[w]]
  /\ \A v, w \in Crawl \cup Client :
       Settling(v) /\ Settling(w) /\ seen[v] = seen[w] => v = w

\* An archive is published by its crawl only, whole, and before the crawl
\* looks at its export.
Published ==
  /\ \A c \in Crawl :
       /\ "file" \in disk[c] => c \in published /\ disk[c] = {"file"}
       /\ pc[c] \in {"idle", "open"} => disk[c] = {}
       /\ c \in published => pc[c] \notin {"idle", "open", "write"}
  /\ \A w \in Crawl \cup Client :
       pc[w] = "complete" => target[w] \in published

\* A purge works on jobs that are expired or deleted by now; the files of the
\* one whose row it is about to delete are gone.
Doomed(j) ==
  /\ j \in Crawl \X Nat
  /\ pc[j[1]] = "gone"
  /\ j[2] \in 1 .. made[j[1]]
  /\ \/ j = CurrentJob(j[1]) /\ j[1] \in expired
     \/ disk[j[1]] = {} /\ (j = CurrentJob(j[1]) => jobState[j[1]] = "none")

Purging ==
  /\ \A c \in Crawl :
       /\ c \in expired => pc[c] = "gone"
       /\ jobState[c] # "none" => made[c] > 0
  /\ \A w \in Worker :
       /\ \A j \in todo[w] : Doomed(j)
       /\ victim[w] # Nobody => Doomed(victim[w]) /\ disk[victim[w][1]] = {}
       /\ pc[w] = "delete" => victim[w] # Nobody

\* When a crawl's export is gone, so is everything on disk: the purge never
\* deletes a row (api_exports.go:98) before the file, the partial file and the
\* directory, whoever purges at the same time and fails half way.
NothingLeftBehind ==
  \A c \in Crawl : jobState[c] = "none" /\ made[c] > 0 =>
    disk[c] = {} /\ pc[c] = "gone"

\* An export that is offered as ready has its whole file until it expires.  Not
\* when a request that read an older row settled this one (CompleteArchive
\* looks for the crawl, not for the job): then the purge may have come between.
ReadyHasFile ==
  \A c \in Crawl :
    jobState[c] = "ready" /\ c \notin expired /\ c \notin crossed
      => disk[c] = {"file"}

\* Who is about to complete a job has seen its file, or it is another job's
\* turn by now.
Completing ==
  \A w \in Crawl \cup Client : pc[w] = "complete" =>
    LET c == target[w] IN
      \/ "file" \in disk[c] \/ c \in expired
      \/ seen[w] # CurrentJob(c) \/ jobState[c] = "none"

\* The inductive invariant of the proofs.
IInv == /\ TypeOK /\ Placed /\ OneFinaliser /\ Published /\ Purging
        /\ NothingLeftBehind /\ ReadyHasFile /\ Completing

\* The archive of a crawl that succeeded is not reported as failed while it is
\* there, however requests and the end of the crawl overlap, unless a call
\* made for this crawl failed.
FailureIsReal ==
  \A c \in Crawl :
    jobState[c] = "failed" /\ crawlState[c] = "succeeded" /\ "file" \in disk[c]
      => c \in hindered

\* The job rows and the files implement what ArchiveRecord promises.
Archive(c) == IF "file" \in disk[c] THEN "published"
              ELSE IF c \in published THEN "removed" ELSE "none"

Record == INSTANCE ArchiveRecord
            WITH status <- jobState, archive <- [c \in Crawl |-> Archive(c)]

RecordSpec == Record!Spec

\* An export does not stay pending once its crawl has ended, if a client keeps
\* asking: whoever was to settle it may have crashed or failed, and the next
\* request does.  A crawl that never was bound is not found by requests.
PendingSettles ==
  \A c \in Crawl :
    jobState[c] = "pending" /\ crawlState[c] \in Final /\ c \in bound
      ~> jobState[c] # "pending" \/ ~up
=============================================================================
