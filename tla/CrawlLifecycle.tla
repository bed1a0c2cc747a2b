--------------------------- MODULE CrawlLifecycle ----------------------------
(***************************************************************************)
(* The life of a crawl started through the API: CrawlManager               *)
(* (internal/api/crawl_manager.go) over the rows of api_crawls             *)
(* (repository/api_crawls.go), CrawlerService (services/crawler.go) with   *)
(* the goroutine that runs the crawl, the rows of crawls and the data that *)
(* hangs on them (repository/crawl.go), and the recovery at startup        *)
(* (services/container.go, InitRepositories).                              *)
(*                                                                         *)
(* The actors are, for each start request, its handler and, once the       *)
(* crawler is started, its job (the goroutine); for each crawl a client    *)
(* that may cancel it; and the process, which may crash.  What the request *)
(* r reserves, the crawl row and the upstream crawl, is named r too.       *)
(*                                                                         *)
(* One statement or transaction is one step.  Statements can fail; a write *)
(* that fails may have been applied, the answer being lost.                *)
(***************************************************************************)
EXTENDS Naturals, FiniteSets

CONSTANTS
  Req,          \* requests to start a crawl
  Project, ProjectOf,
  Tenant, TenantOf,     \* the tenant of a project
  Idem, IdemOf,         \* the idempotency key of a request
  Cancelable,   \* bound: crawls some client may cancel
  TenantLimit, TotalLimit,
  None,
  MaxFailures,  \* bound: failing statements
  MaxCrashes    \* bound: crashes of the process

ASSUME LifecycleAssumption ==
  /\ ProjectOf \in [Req -> Project]
  /\ TenantOf \in [Project -> Tenant]
  /\ IdemOf \in [Req -> Idem]
  /\ Cancelable \subseteq Req
  /\ None \notin Req
  /\ IsFiniteSet(Req)
  /\ TenantLimit \in Nat /\ TotalLimit \in Nat
  /\ MaxFailures \in Nat /\ MaxCrashes \in Nat

VARIABLES
  state, bound, cancelRequested,  \* api_crawls: state, upstream_crawl_id set,
  ledger,      \* api_idempotency: the crawl a key stands for
  crawls,      \* crawls: the rows, numbered by their start; 0 if there is none
  data,        \* what is stored for an upstream crawl
  crawlers,    \* s.crawlers: whose crawler runs on a project
  canceled,    \* s.canceled: the projects whose entry is true
  stopped,     \* crawlers whose Stop() was called
  perKey, total, holders,         \* m.Slots
  handler, reply,  \* where StartCrawl is; the crawl it answered with
  job, prev, outcome,  \* where the goroutine is; previousCrawl; the result
  canceler, sawRunning,  \* where CancelCrawl is; history: the state it read
  up, crashes, failures,
  lost         \* history: crawls whose last state write failed for good

Slots == INSTANCE ConcurrencyBudget
           WITH Key <- Tenant, KeyLimit <- TenantLimit

rowVars    == <<state, bound, cancelRequested, ledger>>
dataVars   == <<crawls, data>>
crawlerVars == <<crawlers, canceled, stopped>>
slotVars   == <<perKey, total, holders>>
handlerVars == <<handler, reply>>
jobVars    == <<job, prev, outcome>>
cancelVars == <<canceler, sawRunning>>
procVars   == <<up, crashes>>
faultVars  == <<failures, lost>>
vars == <<rowVars, dataVars, crawlerVars, slotVars, handlerVars, jobVars,
          cancelVars, procVars, faultVars>>

Terminal == {"succeeded", "failed", "canceled"}
Open(r) == state[r] \in {"queued", "running"}
TenantOfReq(r) == TenantOf[ProjectOf[r]]

TypeOK ==
  /\ state \in [Req -> {"none", "queued", "running"} \cup Terminal]
  /\ bound \subseteq Req
  /\ cancelRequested \subseteq Req
  /\ ledger \in [Idem -> Req \cup {None}]
  /\ crawls \in [Req -> Nat]
  /\ data \in [Req -> {"none", "partial", "finished", "deleted"}]
  /\ crawlers \in [Project -> Req \cup {None}]
  /\ canceled \subseteq Project
  /\ stopped \subseteq Req
  /\ perKey \in [Tenant -> Nat]
  /\ total \in Nat
  /\ holders \subseteq Req
  /\ handler \in [Req -> {"new", "acquire", "reserve", "add", "save", "failed",
                          "mark", "stop", "abort", "leave", "done", "dead"}]
  /\ reply \in [Req -> Req \cup {None}]
  /\ job \in [Req -> {"none", "crawl", "cleanup", "capture", "bind", "complete",
                      "retry", "release", "remove", "gone"}]
  /\ prev \in [Req -> Req \cup {None}]
  /\ outcome \in [Req -> {"none", "ok", "error"} \cup Terminal]
  /\ canceler \in [Req -> {"idle", "stop", "done", "dead"}]
  /\ sawRunning \subseteq Req
  /\ up \in BOOLEAN
  /\ crashes \in 0 .. MaxCrashes
  /\ failures \in 0 .. MaxFailures
  /\ lost \subseteq Req

Init ==
  /\ state = [r \in Req |-> "none"]
  /\ bound = {} /\ cancelRequested = {}
  /\ ledger = [k \in Idem |-> None]
  /\ crawls = [r \in Req |-> 0]
  /\ data = [r \in Req |-> "none"]
  /\ crawlers = [p \in Project |-> None]
  /\ canceled = {} /\ stopped = {}
  /\ Slots!BudgetInit
  /\ handler = [r \in Req |-> "new"]
  /\ reply = [r \in Req |-> None]
  /\ job = [r \in Req |-> "none"]
  /\ prev = [r \in Req |-> None]
  /\ outcome = [r \in Req |-> "none"]
  /\ canceler = [r \in Req |-> "idle"]
  /\ sawRunning = {}
  /\ up = TRUE /\ crashes = 0
  /\ failures = 0 /\ lost = {}

-----------------------------------------------------------------------------
(* The statements of the store and the calls of CrawlerService             *)

Fault == failures < MaxFailures /\ failures' = failures + 1
NoFault == UNCHANGED faultVars

\* ReserveCrawl, when neither the key nor the active slot of the project is
\* taken.
ProjectBusy(p) == \E d \in Req : ProjectOf[d] = p /\ Open(d)

InsertCrawl(r) ==
  /\ ~ProjectBusy(ProjectOf[r])
  /\ state' = [state EXCEPT ![r] = "queued"]
  /\ ledger' = [ledger EXCEPT ![IdemOf[r]] = r]
  /\ UNCHANGED <<bound, cancelRequested>>

\* The update only applies to a queued row; a row that is running or ended
\* is fine too.
MarkCrawlRunning(r) ==
  /\ IF state[r] = "queued"
     THEN /\ state' = [state EXCEPT ![r] = "running"]
          /\ bound' = bound \cup {r}
     ELSE UNCHANGED <<state, bound>>
  /\ UNCHANGED <<cancelRequested, ledger>>

\* Mutant of CompleteCrawl: the state of the row is not looked at.
CompleteCrawl_always(r, s) ==
  /\ state' = [state EXCEPT ![r] = s]
  /\ UNCHANGED <<bound, cancelRequested, ledger>>

\* The update only applies to an open row; an ended one stays as it is.
CompleteCrawl(r, s) ==
  /\ state' = IF Open(r) THEN [state EXCEPT ![r] = s] ELSE state
  /\ UNCHANGED <<bound, cancelRequested, ledger>>

\* Mutant of StopCrawler: the crawler stops, the flag is forgotten.
StopCrawler_noFlag(p) ==
  /\ stopped' = IF crawlers[p] = None THEN stopped ELSE stopped \cup {crawlers[p]}
  /\ UNCHANGED <<canceled, crawlers>>

\* StopCrawler knows the project only.
StopCrawler(p) ==
  /\ IF crawlers[p] = None
     THEN UNCHANGED <<canceled, stopped>>
     ELSE /\ canceled' = canceled \cup {p}
          /\ stopped' = stopped \cup {crawlers[p]}
  /\ UNCHANGED crawlers

RemoveCrawler(p) ==
  /\ crawlers' = [crawlers EXCEPT ![p] = None]
  /\ canceled' = canceled \ {p}
  /\ UNCHANGED stopped

-----------------------------------------------------------------------------
(* StartCrawl, the handler of a request                                    *)

Handler(r, from, to) ==
  /\ up
  /\ handler[r] = from
  /\ handler' = [handler EXCEPT ![r] = to]
  /\ UNCHANGED <<cancelVars, procVars>>

\* What is answered to a key that is known: its crawl, or a conflict, which
\* names none, if the request that is hashed with the key names a project of
\* its own.
Replayed(r) ==
  LET known == ledger[IdemOf[r]]
  IN  IF known # None /\ ProjectOf[known] = ProjectOf[r] THEN known ELSE None

FindCrawlReplay(r) ==
  LET known == ledger[IdemOf[r]] IN
  /\ \/ known # None /\ Handler(r, "new", "done")
     \/ known = None /\ Handler(r, "new", "acquire")
  /\ reply' = [reply EXCEPT ![r] = Replayed(r)]
  /\ UNCHANGED <<rowVars, dataVars, crawlerVars, slotVars, jobVars, faultVars>>

AcquireSlot(r) ==
  /\ \/ Slots!Acquire(TenantOfReq(r), r) /\ Handler(r, "acquire", "reserve")
     \/ Slots!Full(TenantOfReq(r)) /\ Handler(r, "acquire", "done")
                                   /\ UNCHANGED slotVars
  /\ UNCHANGED <<rowVars, dataVars, crawlerVars, reply, jobVars, faultVars>>

\* The project is gone, its URL is not an allowed target, or another crawl
\* of the project is active.
Refuse(r) ==
  /\ Handler(r, "reserve", "leave")
  /\ UNCHANGED <<rowVars, dataVars, crawlerVars, slotVars, reply, jobVars,
                 faultVars>>

\* Mutant of ReserveCrawl: the key is not looked up again.
ReserveCrawl_noRecheck(r) ==
  /\ InsertCrawl(r)
  /\ Handler(r, "reserve", "add")
  /\ UNCHANGED <<dataVars, crawlerVars, slotVars, reply, jobVars, faultVars>>

ReserveCrawl(r) ==
  LET known == ledger[IdemOf[r]] IN
  /\ \/ /\ known # None
        /\ Handler(r, "reserve", "leave")
        /\ reply' = [reply EXCEPT ![r] = Replayed(r)]
        /\ UNCHANGED rowVars
     \/ /\ known = None
        /\ InsertCrawl(r)
        /\ Handler(r, "reserve", "add")
        /\ UNCHANGED reply
  /\ UNCHANGED <<dataVars, crawlerVars, slotVars, jobVars, faultVars>>

\* The commit was applied and its answer lost: the row is there, but the
\* handler reports an error and nobody works on the crawl.
ReserveLost(r) ==
  /\ Fault
  /\ ledger[IdemOf[r]] = None
  /\ InsertCrawl(r)
  /\ lost' = lost \cup {r}
  /\ Handler(r, "reserve", "leave")
  /\ UNCHANGED <<dataVars, crawlerVars, slotVars, reply, jobVars>>

\* Mutant of AddCrawler: the entry of the project is replaced.
AddCrawler_always(r) ==
  /\ Handler(r, "add", "save")
  /\ crawlers' = [crawlers EXCEPT ![ProjectOf[r]] = r]
  /\ canceled' = canceled \ {ProjectOf[r]}
  /\ UNCHANGED <<stopped, rowVars, dataVars, slotVars, reply, jobVars, faultVars>>

\* addCrawler: one crawler per project.
AddCrawler(r) ==
  LET p == ProjectOf[r] IN
  /\ IF crawlers[p] = None
     THEN /\ Handler(r, "add", "save")
          /\ crawlers' = [crawlers EXCEPT ![p] = r]
          /\ canceled' = canceled \ {p}
          /\ UNCHANGED stopped
     ELSE /\ Handler(r, "add", "failed")
          /\ UNCHANGED crawlerVars
  /\ UNCHANGED <<rowVars, dataVars, slotVars, reply, jobVars, faultVars>>

\* The row of the project that started last.
GetLastCrawl(p) ==
  LET latest == {r \in Req : /\ ProjectOf[r] = p /\ crawls[r] > 0
                             /\ \A q \in Req : ProjectOf[q] = p => crawls[q] <= crawls[r]}
  IN  IF latest = {} THEN None ELSE CHOOSE r \in latest : TRUE

\* The number of the next row: every crawl with data has had one.
NextStart == 1 + Cardinality({r \in Req : data[r] # "none"})

\* GetLastCrawl, SaveCrawl, and the goroutine starts.
SaveCrawl(r) ==
  /\ Handler(r, "save", "mark")
  /\ prev' = [prev EXCEPT ![r] = GetLastCrawl(ProjectOf[r])]
  /\ crawls' = [crawls EXCEPT ![r] = NextStart]
  /\ data' = [data EXCEPT ![r] = "partial"]
  /\ job' = [job EXCEPT ![r] = "crawl"]
  /\ UNCHANGED <<rowVars, crawlerVars, slotVars, reply, outcome, faultVars>>

SaveFails(r) ==
  /\ Fault /\ UNCHANGED lost
  /\ Handler(r, "save", "failed")
  /\ RemoveCrawler(ProjectOf[r])
  /\ UNCHANGED <<rowVars, dataVars, slotVars, reply, jobVars>>

\* Mutant of StartFailed: the row is left as it is.
StartFailed_forgets(r) ==
  /\ Handler(r, "failed", "leave")
  /\ NoFault
  /\ UNCHANGED <<rowVars, dataVars, crawlerVars, slotVars, reply, jobVars>>

\* StartCrawlerObserved failed: the row ends, if the store takes it.
StartFailed(r) ==
  /\ Handler(r, "failed", "leave")
  /\ \/ CompleteCrawl(r, "failed") /\ NoFault
     \/ Fault /\ lost' = lost \cup {r} /\ UNCHANGED rowVars
  /\ UNCHANGED <<dataVars, crawlerVars, slotVars, reply, jobVars>>

\* From here the slot belongs to the job.
MarkRunning(r) ==
  /\ Handler(r, "mark", "done")
  /\ MarkCrawlRunning(r)
  /\ reply' = [reply EXCEPT ![r] = r]
  /\ UNCHANGED <<dataVars, crawlerVars, slotVars, jobVars, faultVars>>

\* The client went away (the context is the request's) or the store failed.
MarkFails(r) ==
  /\ Handler(r, "mark", "stop")
  /\ Fault /\ UNCHANGED lost
  /\ MarkCrawlRunning(r) \/ UNCHANGED rowVars
  /\ UNCHANGED <<dataVars, crawlerVars, slotVars, reply, jobVars>>

StopOwn(r) ==
  /\ Handler(r, "stop", "abort")
  /\ StopCrawler(ProjectOf[r])
  /\ UNCHANGED <<rowVars, dataVars, slotVars, reply, jobVars, faultVars>>

Abort(r) ==
  /\ Handler(r, "abort", "leave")
  /\ \/ CompleteCrawl(r, "failed") /\ NoFault
     \/ Fault /\ UNCHANGED <<lost, rowVars>>
  /\ UNCHANGED <<dataVars, crawlerVars, slotVars, reply, jobVars>>

\* Mutant of Leave: an error path keeps the slot.
Leave_keepsSlot(r) ==
  /\ Handler(r, "leave", "done")
  /\ UNCHANGED <<slotVars, rowVars, dataVars, crawlerVars, reply, jobVars, faultVars>>

\* The deferred release.
Leave(r) ==
  /\ Handler(r, "leave", "done")
  /\ Slots!Release(TenantOfReq(r), r)
  /\ UNCHANGED <<rowVars, dataVars, crawlerVars, reply, jobVars, faultVars>>

-----------------------------------------------------------------------------
(* The goroutine of a crawl                                                *)

Job(r, from, to) ==
  /\ up
  /\ job[r] = from
  /\ job' = [job EXCEPT ![r] = to]
  /\ UNCHANGED <<reply, handler, prev, cancelVars, procVars>>

\* Start(), the multipage reports and UpdateCrawl.  A stopped crawl gets
\* there as well; a panic, or an update that fails, leaves it unfinished.
CrawlEnds(r) ==
  /\ Job(r, "crawl", "cleanup")
  /\ \/ /\ data' = [data EXCEPT ![r] = "finished"]
        /\ outcome' = [outcome EXCEPT ![r] = "ok"]
        /\ NoFault
     \/ /\ Fault /\ UNCHANGED <<data, lost>>
        /\ outcome' = [outcome EXCEPT ![r] = "error"]
  /\ UNCHANGED <<rowVars, crawls, crawlerVars, slotVars>>

\* DeleteCrawlDataIfUnreferenced(previousCrawl), however this crawl ended.
DeletePrevious(r) ==
  /\ Job(r, "cleanup", "capture")
  /\ data' = IF prev[r] # None /\ prev[r] \notin bound
             THEN [data EXCEPT ![prev[r]] = "deleted"]
             ELSE data
  /\ UNCHANGED <<rowVars, crawls, crawlerVars, slotVars, outcome, faultVars>>

\* crawlerCanceled(): the flag decides over the result.
Capture(r) ==
  /\ Job(r, "capture", "bind")
  /\ outcome' = [outcome EXCEPT ![r] =
       IF ProjectOf[r] \in canceled THEN "canceled"
       ELSE IF @ = "error" THEN "failed" ELSE "succeeded"]
  /\ UNCHANGED <<rowVars, dataVars, crawlerVars, slotVars, faultVars>>

Bind(r) ==
  /\ Job(r, "bind", "complete")
  /\ \/ MarkCrawlRunning(r) /\ UNCHANGED outcome /\ NoFault
     \/ /\ Fault /\ UNCHANGED lost
        /\ MarkCrawlRunning(r) \/ UNCHANGED rowVars
        /\ outcome' = [outcome EXCEPT ![r] = "failed"]
  /\ UNCHANGED <<dataVars, crawlerVars, slotVars>>

\* Mutant of Complete: the write is missing.
Complete_nothing(r) ==
  /\ \/ Job(r, "complete", "release") \/ Job(r, "retry", "release")
  /\ UNCHANGED <<rowVars, dataVars, crawlerVars, slotVars, outcome, faultVars>>

Complete(r) ==
  /\ \/ Job(r, "complete", "release") \/ Job(r, "retry", "release")
  /\ CompleteCrawl(r, outcome[r])
  /\ UNCHANGED <<dataVars, crawlerVars, slotVars, outcome, faultVars>>

CompleteFails(r) ==
  /\ \/ Job(r, "complete", "retry") /\ UNCHANGED lost
     \/ Job(r, "retry", "release") /\ lost' = lost \cup {r}
  /\ Fault
  /\ UNCHANGED <<rowVars, dataVars, crawlerVars, slotVars, outcome>>

\* Mutant of ReleaseSlot: the job keeps the slot.
ReleaseSlot_missing(r) ==
  /\ Job(r, "release", "remove")
  /\ UNCHANGED <<rowVars, dataVars, crawlerVars, slotVars, outcome, faultVars>>

ReleaseSlot(r) ==
  /\ Job(r, "release", "remove")
  /\ Slots!Release(TenantOfReq(r), r)
  /\ UNCHANGED <<rowVars, dataVars, crawlerVars, outcome, faultVars>>

Remove(r) ==
  /\ Job(r, "remove", "gone")
  /\ RemoveCrawler(ProjectOf[r])
  /\ UNCHANGED <<rowVars, dataVars, slotVars, outcome, faultVars>>

-----------------------------------------------------------------------------
(* CancelCrawl                                                             *)

Canceler(r, from, to) ==
  /\ up
  /\ canceler[r] = from
  /\ canceler' = [canceler EXCEPT ![r] = to]
  /\ UNCHANGED <<dataVars, slotVars, handlerVars, jobVars, procVars, faultVars>>

\* A crawl that has ended is left alone.
RequestCancel(r) ==
  /\ r \in Cancelable
  /\ state[r] # "none"
  /\ \/ Open(r) /\ Canceler(r, "idle", "stop")
                /\ cancelRequested' = cancelRequested \cup {r}
     \/ ~Open(r) /\ Canceler(r, "idle", "done") /\ UNCHANGED cancelRequested
  /\ sawRunning' = IF state[r] = "running" THEN sawRunning \cup {r} ELSE sawRunning
  /\ UNCHANGED <<state, bound, ledger, crawlerVars>>

CancelStops(r) ==
  /\ Canceler(r, "stop", "done")
  /\ StopCrawler(ProjectOf[r])
  /\ UNCHANGED <<rowVars, sawRunning>>

-----------------------------------------------------------------------------
(* The process                                                             *)

Crash ==
  /\ up /\ crashes < MaxCrashes
  /\ up' = FALSE /\ crashes' = crashes + 1
  /\ crawlers' = [p \in Project |-> None]
  /\ canceled' = {}
  /\ perKey' = [t \in Tenant |-> 0] /\ total' = 0 /\ holders' = {}
  /\ handler' = [r \in Req |-> IF handler[r] \in {"new", "done"} THEN handler[r] ELSE "dead"]
  /\ job' = [r \in Req |-> IF job[r] = "none" THEN "none" ELSE "gone"]
  /\ canceler' = [r \in Req |-> IF canceler[r] = "stop" THEN "dead" ELSE canceler[r]]
  /\ UNCHANGED <<rowVars, dataVars, stopped, reply, prev, outcome, sawRunning,
                 faultVars>>

\* DeleteUnfinishedCrawls: the upstream crawls it takes away, data and row.
Unfinished == {r \in Req : data[r] = "partial" /\ r \notin bound}

\* RecoverInterruptedCrawls, whose failure is only logged, and then
\* DeleteUnfinishedCrawls.
Restart ==
  /\ ~up
  /\ up' = TRUE
  /\ \/ /\ state' = [r \in Req |-> IF Open(r) THEN "failed" ELSE state[r]]
        /\ NoFault
     \/ /\ Fault /\ UNCHANGED state
        /\ lost' = lost \cup {r \in Req : Open(r)}
  /\ data' = [r \in Req |-> IF r \in Unfinished THEN "deleted" ELSE data[r]]
  /\ crawls' = [r \in Req |-> IF r \in Unfinished THEN 0 ELSE crawls[r]]
  /\ UNCHANGED <<bound, cancelRequested, ledger, crawlerVars, slotVars,
                 handlerVars, jobVars, cancelVars, crashes>>

-----------------------------------------------------------------------------
HandlerStep(r) ==
  \/ FindCrawlReplay(r) \/ AcquireSlot(r) \/ Refuse(r) \/ ReserveCrawl(r)
  \/ ReserveLost(r) \/ AddCrawler(r) \/ SaveCrawl(r) \/ SaveFails(r)
  \/ StartFailed(r) \/ MarkRunning(r) \/ MarkFails(r) \/ StopOwn(r)
  \/ Abort(r) \/ Leave(r)

JobStep(r) ==
  \/ CrawlEnds(r) \/ DeletePrevious(r) \/ Capture(r) \/ Bind(r)
  \/ Complete(r) \/ CompleteFails(r) \/ ReleaseSlot(r) \/ Remove(r)

Next ==
  \/ \E r \in Req : HandlerStep(r) \/ JobStep(r) \/ RequestCancel(r) \/ CancelStops(r)
  \/ Crash \/ Restart

Spec == Init /\ [][Next]_vars

\* Goroutines are scheduled and a crawl ends by its deadline at the latest
\* (Crawler, StartReturns).  Clients need not ask for anything, and nobody
\* promises a restart.
Fairness ==
  /\ \A r \in Req : /\ WF_vars(handler[r] # "new" /\ HandlerStep(r))
                    /\ WF_vars(JobStep(r))
  /\ \A r \in Cancelable : WF_vars(CancelStops(r))

FairSpec == Spec /\ Fairness

-----------------------------------------------------------------------------
(* Properties                                                              *)

\* The rows and the data keep the promise of CrawlRecord through every race
\* of handler, job, canceler and recovery.
Record == INSTANCE CrawlRecord WITH
  Crawl <- Req, running <- bound, findings <- data

RecordSpec == Record!Spec

Crawling == {"crawl", "cleanup", "capture", "bind", "complete", "retry",
             "release", "remove"}

\* The crawlers map and the goroutines agree: a job runs exactly while it
\* owns the entry of its project, so no deferred removeCrawler() takes away
\* the entry of another crawl.
OneCrawlerPerProject ==
  \A r \in Req : (job[r] \in Crawling \/ handler[r] = "save")
                   <=> crawlers[ProjectOf[r]] = r

\* An open row has somebody who will end it, unless the write that should
\* have ended it failed (twice, for a job).
NobodyForgets ==
  up => \A r \in Req : Open(r) =>
          \/ handler[r] \in {"add", "save", "failed"}
          \/ job[r] \in {"crawl", "cleanup", "capture", "bind", "complete", "retry"}
          \/ r \in lost

\* The budget counts the release functions still out, per tenant, and stays
\* within its limits, whoever gives a slot back and however often.
SlotsExact ==
  /\ \A t \in Tenant : perKey[t] = Cardinality({r \in holders : TenantOfReq(r) = t})
  /\ total = Cardinality(holders)
  /\ \A t \in Tenant : TenantLimit > 0 => perKey[t] <= TenantLimit
  /\ TotalLimit > 0 => total <= TotalLimit

\* A client that was told that its crawl runs holds its slot until the row is
\* written, and no slot outlives the handler and the job it was taken for.
SlotsFollowCrawls ==
  /\ \A r \in Req : job[r] \in Crawling \ {"remove"} /\ (reply[r] = r \/ handler[r] = "mark")
                    => r \in holders
  /\ \A r \in holders : \/ handler[r] \notin {"new", "acquire", "done", "dead"}
                        \/ job[r] \in Crawling \ {"remove"}

\* An idempotency key starts one crawl, whatever is retried, concurrently or
\* after a crash, and every answer given for it names that crawl.
OneCrawlPerKey ==
  /\ \A q, r \in Req : IdemOf[q] = IdemOf[r] /\ q # r => state[q] = "none" \/ state[r] = "none"
  /\ \A r \in Req : reply[r] # None =>
       IdemOf[reply[r]] = IdemOf[r] /\ state[reply[r]] # "none"

\* Cancelling a crawl that was running takes: when CancelCrawl returns, the
\* crawl has been told to stop and will be reported canceled, or its result
\* had been decided before.
CancelTakes ==
  \A r \in sawRunning : canceler[r] = "done" /\ job[r] \in {"crawl", "cleanup", "capture"}
    => r \in stopped /\ ProjectOf[r] \in canceled

\* Every crawl that is accepted ends, and every slot comes back.
CrawlsEnd ==
  \A r \in Req : Open(r) ~> (~Open(r) \/ r \in lost \/ ~up)
SlotsReturn ==
  \A r \in Req : (r \in holders) ~> (r \notin holders)

\* The comment in InitRepositories: "API crawl rows and partial findings
\* survive restart recovery for machine inspection."
PartialFindingsSurvive ==
  [][Restart => \A r \in Req : state[r] # "none" /\ data[r] = "partial"
                                 => data'[r] = "partial"]_vars
=============================================================================
