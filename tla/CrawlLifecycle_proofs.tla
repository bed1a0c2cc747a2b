------------------------ MODULE CrawlLifecycle_proofs -------------------------
(***************************************************************************)
(* The safety of CrawlLifecycle, for any requests, projects, tenants, keys *)
(* and limits, and any number of failing statements and crashes.           *)
(***************************************************************************)
EXTENDS CrawlLifecycle, FiniteSetTheorems, TLAPS

\* Where a handler can be once its crawl has a goroutine.
Past == {"mark", "stop", "abort", "leave", "done", "dead"}

\* How far the handler of a request is bounds what the other parts have seen
\* of its crawl, and a process that is down has no goroutines.
Control ==
  /\ \A r \in Req : job[r] # "none" => handler[r] \in Past
  /\ \A r \in Req : handler[r] \in {"mark", "stop", "abort"} => job[r] # "none"
  /\ \A r \in Req : job[r] = "none" => data[r] = "none" /\ crawls[r] = 0 /\ state[r] # "running"
  /\ \A r \in Req : handler[r] \in {"new", "acquire", "reserve"} => state[r] = "none"
  /\ \A r \in Req : handler[r] \in {"add", "save", "mark"} => state[r] # "none"
  /\ ~up => \A r \in Req : job[r] \in {"none", "gone"}

\* What a goroutine remembers is true of the data and of the row, and it
\* only cleans up after crawls that have no goroutine any more.
Results ==
  /\ \A r \in Req : job[r] = "crawl" => data[r] = "partial"
  /\ \A r \in Req : job[r] \in {"cleanup", "capture"} =>
       outcome[r] = "error" \/ (outcome[r] = "ok" /\ data[r] = "finished")
  /\ \A r \in Req : job[r] \in {"bind", "complete", "retry"} =>
       /\ outcome[r] \in Terminal
       /\ outcome[r] = "succeeded" => data[r] = "finished"
  /\ \A r \in Req : job[r] \in {"complete", "retry"} /\ outcome[r] # "failed" => state[r] # "queued"
  /\ \A r \in Req : prev[r] # None => job[prev[r]] = "gone"

\* The ledger has every crawl under its own key, and answers come from it.
Ledger ==
  /\ \A r \in Req : state[r] # "none" => ledger[IdemOf[r]] = r
  /\ \A k \in Idem : ledger[k] # None => IdemOf[ledger[k]] = k /\ state[ledger[k]] # "none"
  /\ \A r \in Req : reply[r] # None =>
       IdemOf[reply[r]] = IdemOf[r] /\ state[reply[r]] # "none"

\* A slot is held from AcquireSlot on, by the handler and then by the job.
Holding ==
  /\ \A r \in Req : handler[r] \in {"reserve", "add", "save", "failed"} => r \in holders
  /\ \A r \in Req : reply[r] = r => handler[r] \in {"done", "dead"}
  /\ \A r \in Req : job[r] \in {"remove", "gone"} => r \notin holders
  /\ SlotsFollowCrawls

\* CancelTakes, and who can have seen a crawl running.
Canceling ==
  /\ \A r \in Req : canceler[r] = "idle" => r \notin sawRunning
  /\ \A r \in sawRunning : job[r] # "none"
  /\ CancelTakes

IInv ==
  /\ TypeOK /\ Control /\ Results /\ Ledger /\ Holding /\ Canceling
  /\ SlotsExact /\ OneCrawlerPerProject /\ NobodyForgets
USE DEF rowVars, dataVars, crawlerVars, slotVars, handlerVars, jobVars, cancelVars,
        procVars, faultVars

LEMMA Unchanged == ASSUME IInv, UNCHANGED vars PROVE IInv'
BY DEF IInv, vars, TypeOK, Control, Results, Ledger, Holding, Canceling, SlotsFollowCrawls,
   CancelTakes, SlotsExact, OneCrawlerPerProject, NobodyForgets, Open, TenantOfReq, Slots!budgetVars

-----------------------------------------------------------------------------
(* Who is where *)

LEMMA ControlHandler == ASSUME TypeOK, Control, NEW r \in Req, HandlerStep(r) PROVE Control'
<1> USE LifecycleAssumption DEF TypeOK, Terminal, Control, Past, Handler
<1>1. CASE FindCrawlReplay(r) \/ AcquireSlot(r) \/ Refuse(r)
  BY <1>1 DEF FindCrawlReplay, AcquireSlot, Refuse
<1>2. CASE ReserveCrawl(r) \/ ReserveLost(r)
  BY <1>2 DEF ReserveCrawl, ReserveLost, InsertCrawl
<1>3. CASE AddCrawler(r) \/ SaveFails(r)
  BY <1>3 DEF AddCrawler, SaveFails
<1>4. CASE SaveCrawl(r)
  BY <1>4 DEF SaveCrawl
<1>5. CASE StartFailed(r) \/ MarkRunning(r) \/ MarkFails(r) \/ Abort(r)
  BY <1>5 DEF StartFailed, MarkRunning, MarkFails, Abort, MarkCrawlRunning, CompleteCrawl
<1>6. CASE StopOwn(r) \/ Leave(r)
  BY <1>6 DEF StopOwn, Leave
<1> QED BY <1>1, <1>2, <1>3, <1>4, <1>5, <1>6 DEF HandlerStep

LEMMA ControlJob ==
  ASSUME TypeOK, Control, Results, NEW r \in Req, JobStep(r) \/ RequestCancel(r) \/ CancelStops(r)
  PROVE  Control'
<1> USE LifecycleAssumption DEF TypeOK, Terminal, Control, Past, Job
<1>1. CASE CrawlEnds(r) \/ Capture(r)
  BY <1>1 DEF CrawlEnds, Capture
<1>2. CASE DeletePrevious(r)
  BY <1>2 DEF DeletePrevious, Results
<1>3. CASE Bind(r)
  BY <1>3 DEF Bind, MarkCrawlRunning
<1>4. CASE Complete(r)
  BY <1>4 DEF Complete, CompleteCrawl, Results
<1>5. CASE CompleteFails(r) \/ ReleaseSlot(r) \/ Remove(r)
  BY <1>5 DEF CompleteFails, ReleaseSlot, Remove
<1>6. CASE RequestCancel(r) \/ CancelStops(r)
  BY <1>6 DEF RequestCancel, CancelStops, Canceler
<1> QED BY <1>1, <1>2, <1>3, <1>4, <1>5, <1>6 DEF JobStep

LEMMA ControlProcess == ASSUME TypeOK, Control, Crash \/ Restart PROVE Control'
BY DEF TypeOK, Terminal, Control, Past, Crash, Restart, Unfinished, Open

-----------------------------------------------------------------------------
(* What the goroutines remember *)

\* The previous crawl is another one of the project, whose goroutine has been started.
LEMMA GetLastCrawlType ==
  ASSUME TypeOK, NEW p \in Project
  PROVE  LET last == GetLastCrawl(p)
         IN  last # None => last \in Req /\ ProjectOf[last] = p /\ crawls[last] > 0
<1> DEFINE latest == {r \in Req : /\ ProjectOf[r] = p /\ crawls[r] > 0
                             /\ \A q \in Req : ProjectOf[q] = p => crawls[q] <= crawls[r]}
<1>1. CASE latest = {}
  BY <1>1 DEF GetLastCrawl
<1>2. CASE latest # {}
  <2>1. (CHOOSE r \in latest : TRUE) \in latest
    BY <1>2
  <2>2. GetLastCrawl(p) = CHOOSE r \in latest : TRUE
    BY <1>2 DEF GetLastCrawl
  <2> QED BY <2>1, <2>2
<1> QED BY <1>1, <1>2

LEMMA ResultsHandler ==
  ASSUME TypeOK, Control, OneCrawlerPerProject, Results, NEW r \in Req, HandlerStep(r)
  PROVE  Results'
<1> USE LifecycleAssumption DEF TypeOK, Terminal, Results, Handler
<1>1. CASE FindCrawlReplay(r) \/ AcquireSlot(r) \/ Refuse(r)
  BY <1>1 DEF FindCrawlReplay, AcquireSlot, Refuse
<1>2. CASE ReserveCrawl(r) \/ ReserveLost(r)
  BY <1>2 DEF ReserveCrawl, ReserveLost, InsertCrawl, Control, Past
<1>3. CASE AddCrawler(r) \/ SaveFails(r)
  BY <1>3 DEF AddCrawler, SaveFails
<1>4. CASE SaveCrawl(r)
  <2> DEFINE last == GetLastCrawl(ProjectOf[r])
  <2>1. last # None => last \in Req /\ ProjectOf[last] = ProjectOf[r] /\ job[last] # "none"
    BY GetLastCrawlType DEF Control
  <2>2. handler[r] = "save" /\ crawlers[ProjectOf[r]] = r /\ job[r] = "none"
    BY <1>4 DEF SaveCrawl, OneCrawlerPerProject, Control, Past
  <2>3. last # None => job[last] = "gone"
    BY <2>1, <2>2 DEF OneCrawlerPerProject, Crawling
  <2>4. /\ prev' = [prev EXCEPT ![r] = last]
        /\ data' = [data EXCEPT ![r] = "partial"]
        /\ job' = [job EXCEPT ![r] = "crawl"]
        /\ UNCHANGED <<outcome, state>>
    BY <1>4 DEF SaveCrawl
  <2> HIDE DEF last
  <2> QED BY <2>1, <2>2, <2>3, <2>4
<1>5. CASE StartFailed(r) \/ MarkRunning(r) \/ MarkFails(r) \/ Abort(r)
  BY <1>5 DEF StartFailed, MarkRunning, MarkFails, Abort, MarkCrawlRunning, CompleteCrawl
<1>6. CASE StopOwn(r) \/ Leave(r)
  BY <1>6 DEF StopOwn, Leave
<1> QED BY <1>1, <1>2, <1>3, <1>4, <1>5, <1>6 DEF HandlerStep

LEMMA ResultsJob ==
  ASSUME TypeOK, Results, NEW r \in Req, JobStep(r) \/ RequestCancel(r) \/ CancelStops(r)
  PROVE  Results'
<1> USE LifecycleAssumption DEF TypeOK, Terminal, Results, Job
<1>1. CASE CrawlEnds(r)
  BY <1>1 DEF CrawlEnds
<1>2. CASE DeletePrevious(r)
  BY <1>2 DEF DeletePrevious
<1>3. CASE Capture(r)
  BY <1>3 DEF Capture
<1>4. CASE Bind(r)
  BY <1>4 DEF Bind, MarkCrawlRunning
<1>5. CASE Complete(r)
  BY <1>5 DEF Complete, CompleteCrawl
<1>6. CASE CompleteFails(r) \/ ReleaseSlot(r) \/ Remove(r)
  BY <1>6 DEF CompleteFails, ReleaseSlot, Remove
<1>7. CASE RequestCancel(r) \/ CancelStops(r)
  BY <1>7 DEF RequestCancel, CancelStops, Canceler
<1> QED BY <1>1, <1>2, <1>3, <1>4, <1>5, <1>6, <1>7 DEF JobStep

LEMMA ResultsProcess == ASSUME TypeOK, Control, Results, Crash \/ Restart PROVE Results'
<1> USE LifecycleAssumption DEF TypeOK, Terminal, Results
<1>1. CASE Crash
  BY <1>1 DEF Crash
<1>2. CASE Restart
  BY <1>2 DEF Restart, Unfinished, Open, Control
<1> QED BY <1>1, <1>2

-----------------------------------------------------------------------------
(* Idempotency keys, slots and cancellations follow the crawls *)

LEMMA LedgerHandler ==
  ASSUME TypeOK, Control, Ledger, NEW r \in Req, HandlerStep(r)
  PROVE  Ledger'
<1> USE LifecycleAssumption DEF TypeOK, Terminal, Ledger, Handler
<1>1. CASE FindCrawlReplay(r)
  BY <1>1 DEF FindCrawlReplay, Replayed
<1>2. CASE ReserveCrawl(r) \/ ReserveLost(r)
  <2>1. CASE ReserveCrawl(r)
    BY <2>1 DEF ReserveCrawl, Replayed, InsertCrawl, Control
  <2>2. CASE ReserveLost(r)
    BY <2>2 DEF ReserveLost, InsertCrawl, Control
  <2> QED BY <1>2, <2>1, <2>2
<1>3. CASE StartFailed(r) \/ MarkFails(r) \/ Abort(r)
  BY <1>3 DEF StartFailed, MarkFails, Abort, MarkCrawlRunning, CompleteCrawl, Open
<1>4. CASE MarkRunning(r)
  BY <1>4 DEF MarkRunning, MarkCrawlRunning, Control
<1>5. CASE AcquireSlot(r) \/ Refuse(r) \/ AddCrawler(r) \/ SaveCrawl(r) \/ SaveFails(r)
  BY <1>5 DEF AcquireSlot, Refuse, AddCrawler, SaveCrawl, SaveFails
<1>6. CASE StopOwn(r) \/ Leave(r)
  BY <1>6 DEF StopOwn, Leave
<1> QED BY <1>1, <1>2, <1>3, <1>4, <1>5, <1>6 DEF HandlerStep

LEMMA LedgerElsewhere ==
  ASSUME TypeOK, Results, Ledger,
         \/ \E r \in Req : JobStep(r) \/ RequestCancel(r) \/ CancelStops(r)
         \/ Crash \/ Restart
  PROVE  Ledger'
<1> USE LifecycleAssumption DEF TypeOK, Terminal, Ledger
<1>1. ASSUME NEW r \in Req, Bind(r) PROVE Ledger'
  BY <1>1 DEF Bind, Job, MarkCrawlRunning
<1>2. ASSUME NEW r \in Req, Complete(r) PROVE Ledger'
  BY <1>2 DEF Complete, Job, CompleteCrawl, Open, Results
<1>3. ASSUME NEW r \in Req, JobStep(r), ~Bind(r), ~Complete(r) PROVE Ledger'
  <2>1. UNCHANGED <<state, ledger, reply>>
    BY <1>3 DEF JobStep, CrawlEnds, DeletePrevious, Capture, CompleteFails, ReleaseSlot, Remove, Job
  <2> QED BY <2>1
<1>4. ASSUME NEW r \in Req, RequestCancel(r) \/ CancelStops(r) PROVE Ledger'
  BY <1>4 DEF RequestCancel, CancelStops, Canceler
<1>5. CASE Crash
  BY <1>5 DEF Crash
<1>6. CASE Restart
  BY <1>6 DEF Restart, Open
<1> QED BY <1>1, <1>2, <1>3, <1>4, <1>5, <1>6

LEMMA HoldingHandler ==
  ASSUME TypeOK, Control, Ledger, Holding, NEW r \in Req, HandlerStep(r)
  PROVE  Holding'
<1> USE LifecycleAssumption DEF TypeOK, Control, Past, Holding, SlotsFollowCrawls, Crawling, Handler
<1>1. CASE FindCrawlReplay(r)
  BY <1>1 DEF FindCrawlReplay, Replayed, Ledger
<1>2. CASE AcquireSlot(r)
  BY <1>2 DEF AcquireSlot, Slots!Acquire
<1>3. CASE ReserveCrawl(r)
  BY <1>3 DEF ReserveCrawl, Replayed, Ledger
<1>4. CASE Refuse(r) \/ ReserveLost(r) \/ AddCrawler(r) \/ SaveFails(r) \/ StartFailed(r)
  BY <1>4 DEF Refuse, ReserveLost, AddCrawler, SaveFails, StartFailed
<1>5. CASE SaveCrawl(r)
  BY <1>5 DEF SaveCrawl
<1>6. CASE MarkRunning(r)
  BY <1>6 DEF MarkRunning
<1>7. CASE MarkFails(r) \/ StopOwn(r) \/ Abort(r)
  BY <1>7 DEF MarkFails, StopOwn, Abort
<1>8. CASE Leave(r)
  BY <1>8 DEF Leave, Slots!Release, Slots!budgetVars
<1> QED BY <1>1, <1>2, <1>3, <1>4, <1>5, <1>6, <1>7, <1>8 DEF HandlerStep

LEMMA HoldingElsewhere ==
  ASSUME TypeOK, Control, Holding,
         \/ \E r \in Req : JobStep(r) \/ RequestCancel(r) \/ CancelStops(r)
         \/ Crash \/ Restart
  PROVE  Holding'
<1> USE LifecycleAssumption DEF TypeOK, Holding, SlotsFollowCrawls, Crawling
<1>1. ASSUME NEW r \in Req, ReleaseSlot(r) PROVE Holding'
  BY <1>1 DEF ReleaseSlot, Job, Slots!Release, Slots!budgetVars, Control, Past
<1>2. ASSUME NEW r \in Req, CrawlEnds(r) \/ DeletePrevious(r) \/ Capture(r) \/ Bind(r) PROVE Holding'
  BY <1>2 DEF CrawlEnds, DeletePrevious, Capture, Bind, Job
<1>3. ASSUME NEW r \in Req, Complete(r) \/ CompleteFails(r) \/ Remove(r) PROVE Holding'
  BY <1>3 DEF Complete, CompleteFails, Remove, Job
<1>4. ASSUME NEW r \in Req, RequestCancel(r) \/ CancelStops(r) PROVE Holding'
  BY <1>4 DEF RequestCancel, CancelStops, Canceler
<1>5. CASE Crash
  BY <1>5 DEF Crash
<1>6. CASE Restart
  BY <1>6 DEF Restart
<1> QED BY <1>1, <1>2, <1>3, <1>4, <1>5, <1>6 DEF JobStep

LEMMA CancelingHandler ==
  ASSUME TypeOK, Control, OneCrawlerPerProject, Canceling, NEW r \in Req, HandlerStep(r)
  PROVE  Canceling'
<1> USE LifecycleAssumption DEF TypeOK, Canceling, CancelTakes, Handler
<1>1. CASE AddCrawler(r)
  BY <1>1 DEF AddCrawler, OneCrawlerPerProject, Crawling
<1>2. CASE SaveCrawl(r)
  BY <1>2 DEF SaveCrawl, Control, Past
<1>3. CASE SaveFails(r)
  BY <1>3 DEF SaveFails, RemoveCrawler, OneCrawlerPerProject, Crawling, Control, Past
<1>4. CASE StopOwn(r)
  BY <1>4 DEF StopOwn, StopCrawler
<1>5. CASE FindCrawlReplay(r) \/ AcquireSlot(r) \/ Refuse(r) \/ ReserveCrawl(r) \/ ReserveLost(r)
  BY <1>5 DEF FindCrawlReplay, AcquireSlot, Refuse, ReserveCrawl, ReserveLost
<1>6. CASE StartFailed(r) \/ MarkRunning(r) \/ MarkFails(r) \/ Abort(r) \/ Leave(r)
  BY <1>6 DEF StartFailed, MarkRunning, MarkFails, Abort, Leave
<1> QED BY <1>1, <1>2, <1>3, <1>4, <1>5, <1>6 DEF HandlerStep

LEMMA CancelingElsewhere ==
  ASSUME TypeOK, Control, OneCrawlerPerProject, Canceling,
         \/ \E r \in Req : JobStep(r) \/ RequestCancel(r) \/ CancelStops(r)
         \/ Crash \/ Restart
  PROVE  Canceling'
<1> USE LifecycleAssumption DEF TypeOK, Canceling, CancelTakes
<1>1. ASSUME NEW r \in Req, CrawlEnds(r) \/ DeletePrevious(r) \/ Capture(r) \/ Bind(r) PROVE Canceling'
  BY <1>1 DEF CrawlEnds, DeletePrevious, Capture, Bind, Job
<1>2. ASSUME NEW r \in Req, Complete(r) \/ CompleteFails(r) \/ ReleaseSlot(r) PROVE Canceling'
  BY <1>2 DEF Complete, CompleteFails, ReleaseSlot, Job
<1>3. ASSUME NEW r \in Req, Remove(r) PROVE Canceling'
  BY <1>3 DEF Remove, RemoveCrawler, Job, OneCrawlerPerProject, Crawling
<1>4. ASSUME NEW r \in Req, RequestCancel(r) PROVE Canceling'
  BY <1>4 DEF RequestCancel, Canceler, Open, Control
<1>5. ASSUME NEW r \in Req, CancelStops(r) PROVE Canceling'
  BY <1>5 DEF CancelStops, Canceler, StopCrawler, OneCrawlerPerProject, Crawling
<1>6. CASE Crash
  BY <1>6 DEF Crash
<1>7. CASE Restart
  BY <1>7 DEF Restart
<1> QED BY <1>1, <1>2, <1>3, <1>4, <1>5, <1>6, <1>7 DEF JobStep

-----------------------------------------------------------------------------
(* The crawlers map agrees with the goroutines, and no open row is forgotten *)

LEMMA OneCrawlerHandler ==
  ASSUME TypeOK, Control, OneCrawlerPerProject, NEW r \in Req, HandlerStep(r)
  PROVE  OneCrawlerPerProject'
<1> USE LifecycleAssumption DEF TypeOK, OneCrawlerPerProject, Crawling, Handler
<1>1. CASE AddCrawler(r)
  BY <1>1 DEF AddCrawler
<1>2. CASE SaveCrawl(r)
  BY <1>2 DEF SaveCrawl
<1>3. CASE SaveFails(r)
  BY <1>3 DEF SaveFails, RemoveCrawler, Control, Past
<1>4. CASE FindCrawlReplay(r) \/ AcquireSlot(r) \/ Refuse(r) \/ ReserveCrawl(r) \/ ReserveLost(r)
  BY <1>4 DEF FindCrawlReplay, AcquireSlot, Refuse, ReserveCrawl, ReserveLost
<1>5. CASE StartFailed(r) \/ MarkRunning(r) \/ MarkFails(r) \/ Abort(r)
  BY <1>5 DEF StartFailed, MarkRunning, MarkFails, Abort
<1>6. CASE StopOwn(r) \/ Leave(r)
  BY <1>6 DEF StopOwn, StopCrawler, Leave
<1> QED BY <1>1, <1>2, <1>3, <1>4, <1>5, <1>6 DEF HandlerStep

LEMMA OneCrawlerElsewhere ==
  ASSUME TypeOK, Control, OneCrawlerPerProject,
         \/ \E r \in Req : JobStep(r) \/ RequestCancel(r) \/ CancelStops(r)
         \/ Crash \/ Restart
  PROVE  OneCrawlerPerProject'
<1> USE LifecycleAssumption DEF TypeOK, OneCrawlerPerProject, Crawling
<1>1. ASSUME NEW r \in Req, CrawlEnds(r) \/ DeletePrevious(r) \/ Capture(r) \/ Bind(r)
      PROVE  OneCrawlerPerProject'
  BY <1>1 DEF CrawlEnds, DeletePrevious, Capture, Bind, Job
<1>2. ASSUME NEW r \in Req, Complete(r) \/ CompleteFails(r) \/ ReleaseSlot(r)
      PROVE  OneCrawlerPerProject'
  BY <1>2 DEF Complete, CompleteFails, ReleaseSlot, Job
<1>3. ASSUME NEW r \in Req, Remove(r) PROVE OneCrawlerPerProject'
  BY <1>3 DEF Remove, RemoveCrawler, Job, Control, Past
<1>4. ASSUME NEW r \in Req, RequestCancel(r) \/ CancelStops(r) PROVE OneCrawlerPerProject'
  BY <1>4 DEF RequestCancel, CancelStops, StopCrawler, Canceler
<1>5. CASE Crash
  BY <1>5 DEF Crash
<1>6. CASE Restart
  BY <1>6 DEF Restart
<1> QED BY <1>1, <1>2, <1>3, <1>4, <1>5, <1>6 DEF JobStep

\* Somebody will end r if it is open.
Attended(r) ==
  Open(r) => \/ handler[r] \in {"add", "save", "failed"}
             \/ job[r] \in {"crawl", "cleanup", "capture", "bind", "complete", "retry"}
             \/ r \in lost

LEMMA ForgetsHandler ==
  ASSUME TypeOK, Control, NobodyForgets, NEW r \in Req, HandlerStep(r)
  PROVE  NobodyForgets'
<1>1. up
  BY Zenon DEF HandlerStep, FindCrawlReplay, AcquireSlot, Refuse, ReserveCrawl, ReserveLost, AddCrawler,
     SaveCrawl, SaveFails, StartFailed, MarkRunning, MarkFails, StopOwn, Abort, Leave, Handler
<1>2. \A q \in Req : Attended(q)
  BY <1>1 DEF NobodyForgets, Attended
<1> SUFFICES ASSUME NEW q \in Req PROVE Attended(q)'
  BY DEF NobodyForgets, Attended
<1> USE <1>2 DEF TypeOK, Terminal, Control, Attended, Open, Handler
<1>3. CASE ReserveCrawl(r) \/ ReserveLost(r)
  BY <1>3 DEF ReserveCrawl, ReserveLost, InsertCrawl
<1>4. CASE AddCrawler(r) \/ SaveCrawl(r) \/ SaveFails(r)
  BY <1>4 DEF AddCrawler, SaveCrawl, SaveFails
<1>5. CASE StartFailed(r) \/ Abort(r)
  BY <1>5 DEF StartFailed, Abort, CompleteCrawl, NoFault
<1>6. CASE MarkRunning(r) \/ MarkFails(r)
  BY <1>6 DEF MarkRunning, MarkFails, MarkCrawlRunning
<1>7. CASE FindCrawlReplay(r) \/ AcquireSlot(r) \/ Refuse(r) \/ StopOwn(r) \/ Leave(r)
  BY <1>7 DEF FindCrawlReplay, AcquireSlot, Refuse, StopOwn, Leave
<1> QED BY <1>3, <1>4, <1>5, <1>6, <1>7 DEF HandlerStep

LEMMA ForgetsElsewhere ==
  ASSUME TypeOK, Results, NobodyForgets, NEW r \in Req,
         JobStep(r) \/ RequestCancel(r) \/ CancelStops(r)
  PROVE  NobodyForgets'
<1>1. up
  BY Zenon DEF JobStep, CrawlEnds, DeletePrevious, Capture, Bind, Complete, CompleteFails, ReleaseSlot,
     Remove, Job, RequestCancel, CancelStops, Canceler
<1>2. \A q \in Req : Attended(q)
  BY <1>1 DEF NobodyForgets, Attended
<1> SUFFICES ASSUME NEW q \in Req PROVE Attended(q)'
  BY DEF NobodyForgets, Attended
<1> USE <1>2 DEF TypeOK, Terminal, Attended, Open
<1>3. CASE CrawlEnds(r) \/ DeletePrevious(r) \/ Capture(r)
  BY <1>3 DEF CrawlEnds, DeletePrevious, Capture, Job, NoFault
<1>4. CASE Bind(r)
  BY <1>4 DEF Bind, MarkCrawlRunning, Job, NoFault
<1>5. CASE Complete(r)
  BY <1>5 DEF Complete, CompleteCrawl, Job, Results
<1>6. CASE CompleteFails(r) \/ ReleaseSlot(r) \/ Remove(r)
  BY <1>6 DEF CompleteFails, ReleaseSlot, Remove, Job
<1>7. CASE RequestCancel(r) \/ CancelStops(r)
  BY <1>7 DEF RequestCancel, CancelStops, Canceler
<1> QED BY <1>3, <1>4, <1>5, <1>6, <1>7 DEF JobStep

LEMMA ForgetsProcess ==
  ASSUME TypeOK, NobodyForgets, Crash \/ Restart
  PROVE  NobodyForgets'
<1>1. CASE Crash
  BY <1>1 DEF Crash, NobodyForgets
<1>2. CASE Restart
  <2> SUFFICES ASSUME NEW q \in Req PROVE Attended(q)'
    BY DEF NobodyForgets, Attended
  <2> QED BY <1>2 DEF Restart, Attended, TypeOK, Terminal, Open, Fault, NoFault
<1> QED BY <1>1, <1>2

-----------------------------------------------------------------------------
(* The slots, which are counted *)

SlotsType == perKey \in [Tenant -> Nat] /\ total \in Nat /\ holders \subseteq Req
HeldBy(t) == {r \in holders : TenantOfReq(r) = t}

LEMMA Counted ==
  ASSUME TypeOK
  PROVE  /\ IsFiniteSet(holders) /\ Cardinality(holders) \in Nat
         /\ \A t \in Tenant : IsFiniteSet(HeldBy(t)) /\ Cardinality(HeldBy(t)) \in Nat
<1>1. IsFiniteSet(holders)
  BY LifecycleAssumption, FS_Subset DEF TypeOK
<1>2. \A t \in Tenant : IsFiniteSet(HeldBy(t))
  BY <1>1, FS_Subset DEF HeldBy
<1> QED BY <1>1, <1>2, FS_CardinalityType

LEMMA SlotTaken ==
  ASSUME TypeOK, SlotsExact, NEW r \in Req, r \notin holders,
         Slots!Acquire(TenantOfReq(r), r)
  PROVE  SlotsExact' /\ SlotsType'
<1> DEFINE mine == TenantOfReq(r)
<1>1. mine \in Tenant
  BY LifecycleAssumption DEF TenantOfReq
<1>2. /\ perKey' = [perKey EXCEPT ![mine] = @ + 1]
      /\ total' = total + 1 /\ holders' = holders \cup {r}
      /\ TenantLimit > 0 => ~(perKey[mine] >= TenantLimit)
      /\ TotalLimit > 0 => ~(total >= TotalLimit)
  BY DEF Slots!Acquire, Slots!Full
<1>3. SlotsType'
  BY <1>1, <1>2 DEF TypeOK, SlotsType
<1>4. HeldBy(mine)' = HeldBy(mine) \cup {r} /\ r \notin HeldBy(mine)
  BY <1>2 DEF HeldBy, TenantOfReq
<1>5. \A t \in Tenant \ {mine} : HeldBy(t)' = HeldBy(t)
  BY <1>2 DEF HeldBy, TenantOfReq
<1>6. /\ Cardinality(holders') = Cardinality(holders) + 1
      /\ Cardinality(HeldBy(mine)') = Cardinality(HeldBy(mine)) + 1
  BY <1>1, <1>2, <1>4, Counted, FS_AddElement
<1>7. /\ \A t \in Tenant : perKey[t] = Cardinality(HeldBy(t))
      /\ total = Cardinality(holders)
      /\ \A t \in Tenant : TenantLimit > 0 => perKey[t] <= TenantLimit
  BY DEF SlotsExact, HeldBy
<1> HIDE DEF mine
<1>8. \A t \in Tenant : perKey'[t] = IF t = mine THEN perKey[t] + 1 ELSE perKey[t]
  BY <1>1, <1>2 DEF TypeOK
<1>9. \A t \in Tenant : perKey'[t] = Cardinality(HeldBy(t)')
  BY <1>1, <1>5, <1>6, <1>7, <1>8
<1>10. total' = Cardinality(holders')
  BY <1>2, <1>6, <1>7
<1>11. \A t \in Tenant : TenantLimit > 0 => perKey'[t] <= TenantLimit
  BY <1>1, <1>2, <1>7, <1>8, LifecycleAssumption DEF TypeOK
<1>12. TotalLimit > 0 => total' <= TotalLimit
  BY <1>2, LifecycleAssumption DEF TypeOK
<1> QED BY <1>3, <1>9, <1>10, <1>11, <1>12 DEF SlotsExact, HeldBy

LEMMA SlotReturned ==
  ASSUME TypeOK, SlotsExact, NEW r \in Req, Slots!Release(TenantOfReq(r), r)
  PROVE  SlotsExact' /\ SlotsType'
<1>0. CASE r \notin holders
  <2>1. UNCHANGED <<perKey, total, holders>>
    BY <1>0 DEF Slots!Release, Slots!budgetVars
  <2> QED BY <2>1 DEF SlotsExact, SlotsType, TenantOfReq, TypeOK
<1> SUFFICES ASSUME r \in holders PROVE SlotsExact' /\ SlotsType'
  BY <1>0
<1> DEFINE mine == TenantOfReq(r)
<1>1. mine \in Tenant
  BY LifecycleAssumption DEF TenantOfReq
<1>2. /\ perKey' = [perKey EXCEPT ![mine] = @ - 1]
      /\ total' = total - 1 /\ holders' = holders \ {r}
  BY DEF Slots!Release
<1>3. HeldBy(mine)' = HeldBy(mine) \ {r} /\ r \in HeldBy(mine)
  BY <1>2 DEF HeldBy, TenantOfReq
<1>4. \A t \in Tenant \ {mine} : HeldBy(t)' = HeldBy(t)
  BY <1>2 DEF HeldBy, TenantOfReq
<1>5. /\ Cardinality(holders') = Cardinality(holders) - 1
      /\ Cardinality(HeldBy(mine)') = Cardinality(HeldBy(mine)) - 1
      /\ Cardinality(holders') \in Nat /\ Cardinality(HeldBy(mine)') \in Nat
  <2>1. IsFiniteSet(holders \ {r}) /\ IsFiniteSet(HeldBy(mine) \ {r})
    BY <1>1, Counted, FS_RemoveElement
  <2> QED BY <1>1, <1>2, <1>3, <2>1, Counted, FS_RemoveElement, FS_CardinalityType
<1>6. /\ \A t \in Tenant : perKey[t] = Cardinality(HeldBy(t))
      /\ total = Cardinality(holders)
      /\ \A t \in Tenant : TenantLimit > 0 => perKey[t] <= TenantLimit
      /\ TotalLimit > 0 => total <= TotalLimit
  BY DEF SlotsExact, HeldBy
<1> HIDE DEF mine
<1>7. \A t \in Tenant : perKey'[t] = IF t = mine THEN perKey[t] - 1 ELSE perKey[t]
  BY <1>1, <1>2 DEF TypeOK
<1>8. \A t \in Tenant : perKey'[t] = Cardinality(HeldBy(t)')
  BY <1>1, <1>4, <1>5, <1>6, <1>7
<1>9. total' = Cardinality(holders')
  BY <1>2, <1>5, <1>6
<1>10. \A t \in Tenant : TenantLimit > 0 => perKey'[t] <= TenantLimit
  BY <1>6, <1>7, LifecycleAssumption DEF TypeOK
<1>11. TotalLimit > 0 => total' <= TotalLimit
  BY <1>2, <1>6, LifecycleAssumption DEF TypeOK
<1>12. SlotsType'
  <2>1. \A t \in Tenant : perKey'[t] \in Nat
    BY <1>1, <1>5, <1>7, <1>8 DEF TypeOK
  <2>2. perKey' \in [Tenant -> Nat]
    BY <1>2, <2>1 DEF TypeOK
  <2> QED BY <1>2, <1>5, <1>9, <2>2 DEF SlotsType, TypeOK
<1> QED BY <1>8, <1>9, <1>10, <1>11, <1>12 DEF SlotsExact, HeldBy

LEMMA SlotsKept ==
  ASSUME TypeOK, SlotsExact, UNCHANGED <<perKey, total, holders>>
  PROVE  SlotsExact' /\ SlotsType'
BY DEF SlotsExact, SlotsType, TenantOfReq, TypeOK

LEMMA SlotsHandler ==
  ASSUME TypeOK, Control, Holding, SlotsExact, NEW r \in Req, HandlerStep(r)
  PROVE  SlotsExact' /\ SlotsType'
<1>1. CASE AcquireSlot(r)
  <2>1. r \notin holders
    BY <1>1 DEF AcquireSlot, Handler, Holding, SlotsFollowCrawls, Crawling, Control, Past
  <2> QED BY <1>1, <2>1, SlotTaken, SlotsKept DEF AcquireSlot
<1>2. CASE Leave(r)
  BY <1>2, SlotReturned DEF Leave
<1>3. CASE FindCrawlReplay(r) \/ Refuse(r) \/ ReserveCrawl(r) \/ ReserveLost(r) \/ AddCrawler(r)
  BY <1>3, SlotsKept DEF FindCrawlReplay, Refuse, ReserveCrawl, ReserveLost, AddCrawler
<1>4. CASE SaveCrawl(r) \/ SaveFails(r) \/ StartFailed(r) \/ MarkRunning(r) \/ MarkFails(r)
  BY <1>4, SlotsKept DEF SaveCrawl, SaveFails, StartFailed, MarkRunning, MarkFails
<1>5. CASE StopOwn(r) \/ Abort(r)
  BY <1>5, SlotsKept DEF StopOwn, Abort
<1> QED BY <1>1, <1>2, <1>3, <1>4, <1>5 DEF HandlerStep

LEMMA SlotsElsewhere ==
  ASSUME TypeOK, SlotsExact,
         \/ \E r \in Req : JobStep(r) \/ RequestCancel(r) \/ CancelStops(r)
         \/ Crash \/ Restart
  PROVE  SlotsExact' /\ SlotsType'
<1>1. ASSUME NEW r \in Req, ReleaseSlot(r) PROVE SlotsExact' /\ SlotsType'
  BY <1>1, SlotReturned DEF ReleaseSlot
<1>2. ASSUME NEW r \in Req, JobStep(r), ~ReleaseSlot(r) PROVE SlotsExact' /\ SlotsType'
  BY <1>2, SlotsKept DEF JobStep, CrawlEnds, DeletePrevious, Capture, Bind, Complete, CompleteFails, Remove
<1>3. ASSUME NEW r \in Req, RequestCancel(r) \/ CancelStops(r) PROVE SlotsExact' /\ SlotsType'
  BY <1>3, SlotsKept DEF RequestCancel, CancelStops, Canceler
<1>4. CASE Crash
  <2>1. holders' = {} /\ total' = 0 /\ perKey' = [t \in Tenant |-> 0]
    BY <1>4 DEF Crash
  <2>2. \A t \in Tenant : {r \in holders' : TenantOfReq(r)' = t} = {}
    BY <2>1
  <2> QED BY <2>1, <2>2, FS_EmptySet, LifecycleAssumption DEF SlotsExact, SlotsType
<1>5. CASE Restart
  BY <1>5, SlotsKept DEF Restart
<1> QED BY <1>1, <1>2, <1>3, <1>4, <1>5

-----------------------------------------------------------------------------
(* The inductive invariant *)

LEMMA TypeHandler == ASSUME TypeOK, SlotsType', NEW r \in Req, HandlerStep(r) PROVE TypeOK'
<1> USE LifecycleAssumption DEF TypeOK, Terminal, SlotsType, Handler
<1>1. CASE FindCrawlReplay(r) \/ AcquireSlot(r) \/ Refuse(r)
  BY <1>1 DEF FindCrawlReplay, Replayed, AcquireSlot, Refuse
<1>2. CASE ReserveCrawl(r) \/ ReserveLost(r)
  <2>1. CASE ReserveCrawl(r)
    BY <2>1 DEF ReserveCrawl, Replayed, InsertCrawl
  <2>2. CASE ReserveLost(r)
    BY <2>2 DEF ReserveLost, InsertCrawl, Fault
  <2> QED BY <1>2, <2>1, <2>2
<1>3. CASE AddCrawler(r) \/ SaveFails(r)
  BY <1>3 DEF AddCrawler, SaveFails, RemoveCrawler, Fault
<1>4. CASE SaveCrawl(r)
  <2> DEFINE last == GetLastCrawl(ProjectOf[r])
             number == NextStart
  <2>1. last \in Req \cup {None}
    BY GetLastCrawlType
  <2>2. IsFiniteSet({q \in Req : data[q] # "none"})
    BY FS_Subset
  <2>3. number \in Nat
    BY <2>2, FS_CardinalityType DEF NextStart
  <2>4. /\ prev' = [prev EXCEPT ![r] = last]
        /\ crawls' = [crawls EXCEPT ![r] = number]
        /\ data' = [data EXCEPT ![r] = "partial"]
        /\ job' = [job EXCEPT ![r] = "crawl"]
        /\ UNCHANGED <<rowVars, crawlerVars, slotVars, reply, outcome, faultVars>>
    BY <1>4 DEF SaveCrawl
  <2>5. Handler(r, "save", "mark")
    BY <1>4 DEF SaveCrawl
  <2> HIDE DEF last, number
  <2> QED BY <2>1, <2>3, <2>4, <2>5
<1>5. CASE StartFailed(r) \/ Abort(r)
  BY <1>5 DEF StartFailed, Abort, CompleteCrawl, Fault, NoFault
<1>6. CASE MarkRunning(r) \/ MarkFails(r)
  BY <1>6 DEF MarkRunning, MarkFails, MarkCrawlRunning, Fault
<1>7. CASE StopOwn(r)
  BY <1>7 DEF StopOwn, StopCrawler
<1>8. CASE Leave(r)
  BY <1>8 DEF Leave
<1> QED BY <1>1, <1>2, <1>3, <1>4, <1>5, <1>6, <1>7, <1>8 DEF HandlerStep

LEMMA TypeElsewhere ==
  ASSUME TypeOK, Results, SlotsType',
         \/ \E r \in Req : JobStep(r) \/ RequestCancel(r) \/ CancelStops(r)
         \/ Crash \/ Restart
  PROVE  TypeOK'
<1> USE LifecycleAssumption DEF TypeOK, Terminal, SlotsType
<1>1. ASSUME NEW r \in Req, CrawlEnds(r) \/ DeletePrevious(r) \/ Capture(r) PROVE TypeOK'
  <2>1. CASE CrawlEnds(r)
    BY <2>1 DEF CrawlEnds, Job, Fault, NoFault
  <2>2. CASE DeletePrevious(r)
    BY <2>2 DEF DeletePrevious, Job
  <2>3. CASE Capture(r)
    BY <2>3 DEF Capture, Job
  <2> QED BY <1>1, <2>1, <2>2, <2>3
<1>2. ASSUME NEW r \in Req, Bind(r) PROVE TypeOK'
  <2>1. /\ state' \in [Req -> {"none", "queued", "running"} \cup {"succeeded", "failed", "canceled"}]
        /\ bound' \subseteq Req
        /\ UNCHANGED <<cancelRequested, ledger>>
    BY <1>2 DEF Bind, MarkCrawlRunning
  <2>2. failures' \in 0 .. MaxFailures /\ UNCHANGED lost
    BY <1>2 DEF Bind, Fault, NoFault
  <2>3. outcome' \in [Req -> {"none", "ok", "error"} \cup {"succeeded", "failed", "canceled"}]
    BY <1>2 DEF Bind
  <2>4. job' \in [Req -> {"none", "crawl", "cleanup", "capture", "bind", "complete",
                           "retry", "release", "remove", "gone"}]
    BY <1>2 DEF Bind, Job
  <2>5. UNCHANGED <<reply, handler, prev, cancelVars, procVars, dataVars, crawlerVars, slotVars>>
    BY <1>2 DEF Bind, Job
  <2> QED BY <2>1, <2>2, <2>3, <2>4, <2>5
<1>3. ASSUME NEW r \in Req, Complete(r) PROVE TypeOK'
  BY <1>3 DEF Complete, CompleteCrawl, Job, Results
<1>4. ASSUME NEW r \in Req, CompleteFails(r) \/ ReleaseSlot(r) PROVE TypeOK'
  <2>1. CASE CompleteFails(r)
    <3>1. failures' \in 0 .. MaxFailures /\ lost' \subseteq Req
      BY <2>1 DEF CompleteFails, Fault
    <3>2. job' \in [Req -> {"none", "crawl", "cleanup", "capture", "bind", "complete",
                             "retry", "release", "remove", "gone"}]
      BY <2>1 DEF CompleteFails, Job
    <3>3. UNCHANGED <<rowVars, dataVars, crawlerVars, slotVars, outcome,
                      reply, handler, prev, cancelVars, procVars>>
      BY <2>1 DEF CompleteFails, Job
    <3> QED BY <3>1, <3>2, <3>3
  <2>2. CASE ReleaseSlot(r)
    BY <2>2 DEF ReleaseSlot, Job
  <2> QED BY <1>4, <2>1, <2>2
<1>5. ASSUME NEW r \in Req, Remove(r) PROVE TypeOK'
  BY <1>5 DEF Remove, RemoveCrawler, Job
<1>6. ASSUME NEW r \in Req, RequestCancel(r) \/ CancelStops(r) PROVE TypeOK'
  BY <1>6 DEF RequestCancel, CancelStops, StopCrawler, Canceler
<1>7. CASE Crash
  <2>1. /\ (handler \in [Req -> {"new", "acquire", "reserve", "add", "save", "failed",
                                 "mark", "stop", "abort", "leave", "done", "dead"}])'
        /\ (canceler \in [Req -> {"idle", "stop", "done", "dead"}])'
    BY <1>7 DEF Crash
  <2>2. (job \in [Req -> {"none", "crawl", "cleanup", "capture", "bind", "complete",
                          "retry", "release", "remove", "gone"}])'
    BY <1>7 DEF Crash
  <2>3. up' \in BOOLEAN /\ crashes' = crashes + 1 /\ crashes < MaxCrashes
    BY <1>7, Zenon DEF Crash
  <2>4. UNCHANGED <<state, bound, cancelRequested, ledger, crawls, data, stopped, reply, prev,
                    outcome, sawRunning, failures, lost>>
    BY <1>7 DEF Crash
  <2>5. crawlers' = [p \in Project |-> None] /\ canceled' = {}
    BY <1>7 DEF Crash
  <2> QED BY <2>1, <2>2, <2>3, <2>4, <2>5
<1>8. CASE Restart
  BY <1>8 DEF Restart, Unfinished, Open, Fault, NoFault
<1> QED BY <1>1, <1>2, <1>3, <1>4, <1>5, <1>6, <1>7, <1>8 DEF JobStep

LEMMA InitInv == Init => IInv
<1> SUFFICES ASSUME Init PROVE IInv
  OBVIOUS
<1>1. TypeOK
  BY LifecycleAssumption DEF Init, TypeOK, Slots!BudgetInit, Terminal
<1>2. Control /\ Results /\ Ledger
  BY LifecycleAssumption DEF Init, Control, Results, Ledger
<1>3. Holding /\ Canceling
  BY LifecycleAssumption
  DEF Init, Holding, SlotsFollowCrawls, Crawling, Canceling, CancelTakes, Slots!BudgetInit
<1>4. OneCrawlerPerProject /\ NobodyForgets
  BY LifecycleAssumption DEF Init, OneCrawlerPerProject, Crawling, NobodyForgets, Open
<1>5. SlotsExact
  <2>1. holders = {} /\ total = 0 /\ perKey = [t \in Tenant |-> 0]
    BY DEF Init, Slots!BudgetInit
  <2>2. \A t \in Tenant : {r \in holders : TenantOfReq(r) = t} = {}
    BY <2>1
  <2> QED BY <2>1, <2>2, FS_EmptySet, LifecycleAssumption DEF SlotsExact
<1> QED BY <1>1, <1>2, <1>3, <1>4, <1>5 DEF IInv

LEMMA NextInv == IInv /\ [Next]_vars => IInv'
<1> SUFFICES ASSUME IInv, [Next]_vars PROVE IInv'
  OBVIOUS
<1> USE DEF IInv
<1>1. CASE UNCHANGED vars
  BY <1>1, Unchanged
<1>2. ASSUME NEW r \in Req, HandlerStep(r) PROVE IInv'
  <2>1. SlotsExact' /\ TypeOK'
    BY <1>2, SlotsHandler, TypeHandler
  <2>2. Control' /\ Results' /\ Ledger' /\ Holding'
    BY <1>2, ControlHandler, ResultsHandler, LedgerHandler, HoldingHandler
  <2>3. Canceling' /\ OneCrawlerPerProject' /\ NobodyForgets'
    BY <1>2, CancelingHandler, OneCrawlerHandler, ForgetsHandler
  <2> QED BY <2>1, <2>2, <2>3
<1>3. ASSUME NEW r \in Req, JobStep(r) \/ RequestCancel(r) \/ CancelStops(r) PROVE IInv'
  <2>1. SlotsExact' /\ TypeOK'
    BY <1>3, SlotsElsewhere, TypeElsewhere
  <2>2. Control' /\ Results' /\ Ledger' /\ Holding'
    BY <1>3, ControlJob, ResultsJob, LedgerElsewhere, HoldingElsewhere
  <2>3. Canceling' /\ OneCrawlerPerProject' /\ NobodyForgets'
    BY <1>3, CancelingElsewhere, OneCrawlerElsewhere, ForgetsElsewhere
  <2> QED BY <2>1, <2>2, <2>3
<1>4. CASE Crash \/ Restart
  <2>1. SlotsExact' /\ TypeOK'
    BY <1>4, SlotsElsewhere, TypeElsewhere
  <2>2. Control' /\ Results' /\ Ledger' /\ Holding'
    BY <1>4, ControlProcess, ResultsProcess, LedgerElsewhere, HoldingElsewhere
  <2>3. Canceling' /\ OneCrawlerPerProject' /\ NobodyForgets'
    BY <1>4, CancelingElsewhere, OneCrawlerElsewhere, ForgetsProcess
  <2> QED BY <2>1, <2>2, <2>3
<1> QED BY <1>1, <1>2, <1>3, <1>4 DEF Next

\* The inductive invariant of the life of crawls (crawl_manager.go, services/crawler.go) holds.
THEOREM Invariance == Spec => []IInv
<1> QED BY InitInv, NextInv, PTL DEF Spec

\* Every variable has its type; the counters of the slots (ratelimit.go) never go below zero.
THEOREM TypeCorrect == Spec => []TypeOK
<1>1. IInv => TypeOK
  BY DEF IInv
<1> QED BY <1>1, Invariance, PTL

\* The entry of a project in the crawlers map (services/crawler.go, addCrawler and
\* removeCrawler) is the one of the goroutine that runs.
THEOREM CrawlersAgree == Spec => []OneCrawlerPerProject
<1>1. IInv => OneCrawlerPerProject
  BY DEF IInv
<1> QED BY <1>1, Invariance, PTL

\* An open row of api_crawls has a handler or a goroutine that will end it, unless the
\* write that should have ended it failed.
THEOREM EveryCrawlIsAttended == Spec => []NobodyForgets
<1>1. IInv => NobodyForgets
  BY DEF IInv
<1> QED BY <1>1, Invariance, PTL

\* Cancelling a running crawl (CancelCrawl) stops it and decides over its result.
THEOREM CancellationTakes == Spec => []CancelTakes
<1>1. IInv => CancelTakes
  BY DEF IInv, Canceling
<1> QED BY <1>1, Invariance, PTL

\* The concurrency budget (ratelimit.go) counts the slots that are out, within its limits.
THEOREM SlotsAreExact == Spec => []SlotsExact
<1>1. IInv => SlotsExact
  BY DEF IInv
<1> QED BY <1>1, Invariance, PTL

\* A slot is held exactly as long as the handler or the goroutine it was taken for needs it.
THEOREM SlotsAreTheCrawls == Spec => []SlotsFollowCrawls
<1>1. IInv => SlotsFollowCrawls
  BY DEF IInv, Holding
<1> QED BY <1>1, Invariance, PTL

\* An idempotency key starts one crawl and stands for it (ReserveCrawl, FindCrawlReplay).
THEOREM KeysAreIdempotent == Spec => []OneCrawlPerKey
<1>1. IInv => OneCrawlPerKey
  BY LifecycleAssumption DEF IInv, TypeOK, Ledger, OneCrawlPerKey
<1> QED BY <1>1, Invariance, PTL

-----------------------------------------------------------------------------
(* The refinement: the rows and the data implement CrawlRecord *)

recordVars == <<state, bound, data>>

LEMMA MarkImplements ==
  ASSUME TypeOK, NEW r \in Req, MarkCrawlRunning(r), data' = data
  PROVE  Record!Run(r) \/ UNCHANGED recordVars
BY DEF MarkCrawlRunning, Record!Run, recordVars

\* An end that the abstract specification allows for the result s.
Justified(r, s) ==
  \/ s = "failed"
  \/ s = "canceled" /\ state[r] # "queued"
  \/ s = "succeeded" /\ state[r] # "queued" /\ data[r] = "finished"

LEMMA CompleteImplements ==
  ASSUME TypeOK, NEW r \in Req, NEW STATE s, CompleteCrawl(r, s), Justified(r, s), data' = data
  PROVE  Record!End(r) \/ UNCHANGED recordVars
BY DEF CompleteCrawl, Justified, Open, Record!End, Record!Open, recordVars

LEMMA HandlerImplements ==
  ASSUME IInv, NEW r \in Req, HandlerStep(r)
  PROVE  Record!Next \/ UNCHANGED recordVars
<1> USE DEF IInv
<1>1. CASE ReserveCrawl(r) \/ ReserveLost(r)
  <2>1. CASE InsertCrawl(r)
    <3>1. state[r] = "none"
      BY <1>1 DEF ReserveCrawl, ReserveLost, Handler, InsertCrawl, Control, TypeOK
    <3>2. Record!Accept(r)
      BY <1>1, <2>1, <3>1
      DEF ReserveCrawl, ReserveLost, InsertCrawl, ProjectBusy, Open, Record!Accept, Record!Open
    <3> QED BY <3>2 DEF Record!Next
  <2>2. CASE ~InsertCrawl(r)
    BY <1>1, <2>2 DEF ReserveCrawl, ReserveLost, recordVars
  <2> QED BY <2>1, <2>2
<1>2. CASE SaveCrawl(r)
  <2>1. data[r] = "none"
    BY <1>2 DEF SaveCrawl, Handler, Control, Past
  <2>2. Record!Store(r)
    BY <1>2, <2>1 DEF SaveCrawl, Record!Store
  <2> QED BY <2>2 DEF Record!Next
<1>3. CASE StartFailed(r) \/ Abort(r)
  <2>1. CASE CompleteCrawl(r, "failed")
    BY <1>3, <2>1, CompleteImplements DEF StartFailed, Abort, Justified, Record!Next
  <2>2. CASE ~CompleteCrawl(r, "failed")
    BY <1>3, <2>2 DEF StartFailed, Abort, recordVars
  <2> QED BY <2>1, <2>2
<1>4. CASE MarkRunning(r) \/ MarkFails(r)
  <2>1. CASE MarkCrawlRunning(r)
    BY <1>4, <2>1, MarkImplements DEF MarkRunning, MarkFails, Record!Next
  <2>2. CASE ~MarkCrawlRunning(r)
    BY <1>4, <2>2 DEF MarkRunning, MarkFails, recordVars
  <2> QED BY <2>1, <2>2
<1>5. CASE FindCrawlReplay(r) \/ AcquireSlot(r) \/ Refuse(r) \/ AddCrawler(r)
  BY <1>5 DEF FindCrawlReplay, AcquireSlot, Refuse, AddCrawler, recordVars
<1>6. CASE SaveFails(r) \/ StopOwn(r) \/ Leave(r)
  BY <1>6 DEF SaveFails, StopOwn, Leave, recordVars
<1> QED BY <1>1, <1>2, <1>3, <1>4, <1>5, <1>6 DEF HandlerStep

LEMMA JobImplements ==
  ASSUME IInv, NEW r \in Req, JobStep(r)
  PROVE  Record!Next \/ UNCHANGED recordVars
<1> USE DEF IInv
<1>1. CASE CrawlEnds(r)
  <2>1. data[r] = "partial"
    BY <1>1 DEF CrawlEnds, Job, Results
  <2>2. Record!Store(r) \/ UNCHANGED recordVars
    BY <1>1, <2>1 DEF CrawlEnds, Record!Store, recordVars
  <2> QED BY <2>2 DEF Record!Next
<1>2. CASE DeletePrevious(r)
  <2>1. CASE prev[r] # None /\ prev[r] \notin bound
    <3>1. prev[r] \in Req
      BY <2>1 DEF TypeOK
    <3>2. Record!Delete(prev[r])
      BY <1>2, <2>1 DEF DeletePrevious, Record!Delete
    <3> QED BY <3>1, <3>2 DEF Record!Next
  <2>2. CASE ~(prev[r] # None /\ prev[r] \notin bound)
    BY <1>2, <2>2 DEF DeletePrevious, recordVars
  <2> QED BY <2>1, <2>2
<1>3. CASE Bind(r)
  <2>1. CASE MarkCrawlRunning(r)
    BY <1>3, <2>1, MarkImplements DEF Bind, Record!Next
  <2>2. CASE ~MarkCrawlRunning(r)
    BY <1>3, <2>2 DEF Bind, recordVars
  <2> QED BY <2>1, <2>2
<1>4. CASE Complete(r)
  <2>1. CompleteCrawl(r, outcome[r]) /\ data' = data /\ job[r] \in {"complete", "retry"}
    BY <1>4 DEF Complete, Job
  <2>2. Justified(r, outcome[r])
    BY <2>1 DEF Results, Terminal, Justified
  <2> QED BY <2>1, <2>2, CompleteImplements DEF Record!Next
<1>5. CASE Capture(r) \/ CompleteFails(r) \/ ReleaseSlot(r) \/ Remove(r)
  BY <1>5 DEF Capture, CompleteFails, ReleaseSlot, Remove, recordVars
<1> QED BY <1>1, <1>2, <1>3, <1>4, <1>5 DEF JobStep

LEMMA RestartImplements == ASSUME IInv, Restart PROVE Record!Recover
<1>1. state' \in {state, [r \in Req |-> IF Record!Open(r) THEN "failed" ELSE state[r]]}
  BY DEF Restart, Open, Record!Open
<1>2. Unfinished \in SUBSET (Req \ bound)
  BY DEF Unfinished
<1>3. data' = [r \in Req |-> IF r \in Unfinished THEN "deleted" ELSE data[r]] /\ bound' = bound
  BY DEF Restart
<1> QED BY <1>1, <1>2, <1>3 DEF Record!Recover

LEMMA StepImplements == IInv /\ [Next]_vars => [Record!Next]_Record!vars
<1> SUFFICES ASSUME IInv, [Next]_vars PROVE Record!Next \/ UNCHANGED recordVars
  BY DEF Record!vars, recordVars
<1>1. ASSUME NEW r \in Req, RequestCancel(r) \/ CancelStops(r) PROVE UNCHANGED recordVars
  BY <1>1 DEF RequestCancel, CancelStops, Canceler, recordVars
<1>2. CASE Crash
  BY <1>2 DEF Crash, recordVars
<1>3. CASE UNCHANGED vars
  BY <1>3 DEF vars, recordVars
<1> QED BY <1>1, <1>2, <1>3, HandlerImplements, JobImplements, RestartImplements DEF Next, Record!Next

\* The rows of api_crawls and the data keep the promise of CrawlRecord: a record moves
\* forward and ends once, a project has one open crawl, a crawl that succeeded has all its
\* findings, and once it is known to run its findings stay.
THEOREM CrawlsImplementRecord == Spec => RecordSpec
<1>1. Init => Record!Init
  BY DEF Init, Record!Init
<1> QED BY <1>1, StepImplements, Invariance, PTL DEF Spec, RecordSpec, Record!Spec

=============================================================================
