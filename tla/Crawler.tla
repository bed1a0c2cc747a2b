------------------------------- MODULE Crawler -------------------------------
(***************************************************************************)
(* One crawl: internal/crawler/crawler.go on top of queue.go and           *)
(* urlstorage.go.  Its goroutines are                                      *)
(*   main       the caller of Start(), which also runs the callback        *)
(*   poller     crawl()'s loop from the queue to reqStream                 *)
(*   consumer   consumer(), one per element of Consumer                    *)
(*   manage()   the queue's owner (module Queue)                           *)
(* and the holders of the context, who may Stop() it at any time.          *)
(*                                                                         *)
(* Every channel is unbuffered, so a send and its receive are one step.    *)
(* The poller and the consumers meet on reqStream in select statements     *)
(* that also watch the context.  Cancelling wakes every parked select at   *)
(* once, and a meeting needs one side parked: once the context is          *)
(* cancelled no request is handed over any more.  Poll(), Push(), Ack(),   *)
(* Active() and the send on respStream are outside of any select and do    *)
(* not notice the context.                                                 *)
(*                                                                         *)
(* The links of a page are left open: the callback may request any URLs.   *)
(***************************************************************************)
EXTENDS Queue, FiniteSets

CONSTANTS
  Root,             \* the project's URL
  Consumer,         \* the consumerThreads goroutines
  CrawlLimit,       \* Options.CrawlLimit
  CrawlSitemap,     \* Options.CrawlSitemap
  IgnoreRobotsTxt,  \* Options.IgnoreRobotsTxt
  Disallowed,       \* URLs robots.txt blocks for this user agent
  Foreign,          \* URLs of a host domainIsAllowed() refuses
  Listed            \* URLs a sitemap may list

ASSUME CrawlerAssumption ==
  /\ Root \in URL \ Foreign
  /\ CrawlLimit \in Nat \ {0}
  /\ CrawlSitemap \in BOOLEAN
  /\ IgnoreRobotsTxt \in BOOLEAN
  /\ Disallowed \subseteq URL
  /\ Foreign \subseteq URL
  /\ Listed \subseteq URL
  /\ IsFiniteSet(Consumer)

VARIABLES
  storage,         \* c.storage: URLs already seen
  sitemapStorage,  \* c.sitemapStorage: URLs the sitemaps list
  sitemapLoaded,   \* local of Start()
  crawled,         \* c.status.Crawled
  cancelled,       \* c.context is done
  main,            \* where Start() is
  cur,             \* the response Start() has received and not acknowledged
  todo,            \* what queueSitemapURLs() has still to look at
  poller,          \* where the poller is
  held,            \* the request the poller offers on reqStream
  consumer,        \* where each consumer is
  item,            \* the request each consumer works on
  respOpen,        \* respStream is not closed
  requests,        \* history: HTTP requests made for each URL
  visited,         \* history: URLs whose response reached the callback
  panicked         \* history: the callback panicked

mainVars     == <<sitemapStorage, sitemapLoaded, crawled, main, cur, todo>>
pollerVars   == <<poller, held, respOpen>>
consumerVars == <<consumer, item, requests>>
historyVars  == <<visited, panicked>>
vars == <<queueVars, storage, mainVars, cancelled, pollerVars, consumerVars,
          historyVars>>

MainPC == {"init", "setup", "preload", "preloading", "begin", "recv", "ack",
           "callback", "refill", "loading", "decide", "cancel", "done",
           "returned"}

BeforeLoop == {"init", "setup", "preload", "preloading", "begin"}
AfterLoop  == {"cancel", "done", "returned"}

TypeOK ==
  /\ QueueTypeOK
  /\ storage \subseteq URL
  /\ sitemapStorage \subseteq URL
  /\ sitemapLoaded \in BOOLEAN
  /\ crawled \in Nat
  /\ cancelled \in BOOLEAN
  /\ main \in MainPC
  /\ cur \in URL \cup {Nil}
  /\ todo \subseteq URL
  /\ poller \in {"unborn", "poll", "offer", "wait", "exited"}
  /\ held \in URL \cup {Nil}
  /\ consumer \in [Consumer -> {"unborn", "select", "request", "respond", "exited"}]
  /\ item \in [Consumer -> URL \cup {Nil}]
  /\ respOpen \in BOOLEAN
  /\ requests \in [URL -> Nat]
  /\ visited \subseteq URL
  /\ panicked \in BOOLEAN

Init ==
  /\ QueueInit
  /\ storage = {}
  /\ sitemapStorage = {}
  /\ sitemapLoaded = FALSE
  /\ crawled = 0
  /\ cancelled = FALSE
  /\ main = "init"
  /\ cur = Nil
  /\ todo = {}
  /\ poller = "unborn"
  /\ held = Nil
  /\ consumer = [c \in Consumer |-> "unborn"]
  /\ item = [c \in Consumer |-> Nil]
  /\ respOpen = TRUE
  /\ requests = [u \in URL |-> 0]
  /\ visited = {}
  /\ panicked = FALSE

-----------------------------------------------------------------------------
(* Mutant of Admissible: robots.txt is not looked at.                      *)
Admissible_noRobots(u, ignoreDomain) == u \notin Foreign \/ ignoreDomain

(* AddRequest: a URL is looked at once; the first request for it decides,  *)
(* by the domain and the robots rules, whether it is queued.               *)
Admissible(u, ignoreDomain) ==
  /\ u \notin Foreign \/ ignoreDomain
  /\ IgnoreRobotsTxt \/ u \notin Disallowed

\* Mutant of AddRequest: Seen() is not asked.
AddRequest_unchecked(u, ignoreDomain) ==
  /\ storage' = storage \cup {u}
  /\ IF Admissible(u, ignoreDomain)
     THEN Push(u)
     ELSE UNCHANGED queueVars

AddRequest(u, ignoreDomain) ==
  \/ /\ u \in storage                                   \* ErrVisited
     /\ UNCHANGED <<storage, queueVars>>
  \/ /\ u \notin storage
     /\ storage' = storage \cup {u}
     /\ IF Admissible(u, ignoreDomain)
        THEN Push(u)
        ELSE UNCHANGED queueVars

Goto(from, to) == main = from /\ main' = to

-----------------------------------------------------------------------------
(* main                                                                    *)

\* startCrawlerObserved() requests the project's URL before it calls Start().
AddRoot ==
  /\ Goto("init", "setup")
  /\ AddRequest(Root, FALSE)
  /\ UNCHANGED <<sitemapStorage, sitemapLoaded, crawled, cur, todo, cancelled,
                 pollerVars, consumerVars, historyVars>>

\* setupSitemaps() and ParseSitemaps(): what comes out of the sitemaps.
SetupSitemaps ==
  /\ Goto("setup", "preload")
  /\ IF CrawlSitemap THEN sitemapStorage' \in SUBSET Listed ELSE sitemapStorage' = {}
  /\ UNCHANGED <<queueVars, storage, sitemapLoaded, crawled, cur, todo,
                 cancelled, pollerVars, consumerVars, historyVars>>

\* The two places where Start() turns to the sitemap once the queue is idle.
\* On the first one sitemapLoaded is always FALSE.
LoadSitemap(from, loading, next) ==
  /\ main = from
  /\ IF ~Active /\ CrawlSitemap /\ ~sitemapLoaded
     THEN main' = loading /\ sitemapLoaded' = TRUE /\ todo' = sitemapStorage
     ELSE main' = next /\ UNCHANGED <<sitemapLoaded, todo>>
  /\ UNCHANGED <<queueVars, storage, sitemapStorage, crawled, cur, cancelled,
                 pollerVars, consumerVars, historyVars>>

Preload == LoadSitemap("preload", "preloading", "begin")
Refill  == LoadSitemap("refill", "loading", "decide")

\* One iteration of queueSitemapURLs(): neither the domain nor robots.txt is
\* looked at.
QueueSitemapURL(u) ==
  /\ main \in {"preloading", "loading"}
  /\ u \in todo
  /\ todo' = todo \ {u}
  /\ \/ u \in storage /\ UNCHANGED <<storage, queueVars>>
     \/ u \notin storage /\ storage' = storage \cup {u} /\ Push(u)
  /\ UNCHANGED <<sitemapStorage, sitemapLoaded, crawled, main, cur, cancelled,
                 pollerVars, consumerVars, historyVars>>

SitemapQueued ==
  /\ todo = {}
  /\ Goto("preloading", "begin") \/ Goto("loading", "decide")
  /\ UNCHANGED <<queueVars, storage, sitemapStorage, sitemapLoaded, crawled,
                 cur, todo, cancelled, pollerVars, consumerVars, historyVars>>

\* Nothing to do: return.  Otherwise crawl() starts the goroutines.
Begin ==
  /\ IF Active
     THEN /\ Goto("begin", "recv")
          /\ poller' = "poll"
          /\ consumer' = [c \in Consumer |-> "select"]
     ELSE /\ Goto("begin", "cancel")
          /\ UNCHANGED <<poller, consumer>>
  /\ UNCHANGED <<queueVars, storage, sitemapStorage, sitemapLoaded, crawled,
                 cur, todo, cancelled, held, respOpen, item, requests,
                 historyVars>>

Receive(c) ==
  /\ Goto("recv", "ack")
  /\ consumer[c] = "respond"
  /\ cur' = item[c]
  /\ consumer' = [consumer EXCEPT ![c] = "select"]
  /\ item' = [item EXCEPT ![c] = Nil]
  /\ UNCHANGED <<queueVars, storage, sitemapStorage, sitemapLoaded, crawled,
                 todo, cancelled, pollerVars, requests, historyVars>>

\* Mutant of ReceiveClosed: the end of the stream is taken for a response.
ReceiveClosed_unchecked ==
  /\ Goto("recv", "ack")
  /\ ~respOpen
  /\ UNCHANGED <<queueVars, storage, sitemapStorage, sitemapLoaded, crawled,
                 cur, todo, cancelled, pollerVars, consumerVars, historyVars>>

\* The range over respStream ends.
ReceiveClosed ==
  /\ Goto("recv", "cancel")
  /\ ~respOpen
  /\ UNCHANGED <<queueVars, storage, sitemapStorage, sitemapLoaded, crawled,
                 cur, todo, cancelled, pollerVars, consumerVars, historyVars>>

AckResponse ==
  /\ Goto("ack", "callback")
  /\ Ack(cur)
  /\ crawled' = crawled + 1
  /\ visited' = visited \cup {cur}
  /\ cur' = Nil
  /\ UNCHANGED <<storage, sitemapStorage, sitemapLoaded, todo, cancelled,
                 pollerVars, consumerVars, panicked>>

\* The callback requests what the page links to, embeds or redirects to.
CallbackRequest(u, ignoreDomain) ==
  /\ main = "callback"
  /\ AddRequest(u, ignoreDomain)
  /\ UNCHANGED <<mainVars, cancelled, pollerVars, consumerVars, historyVars>>

CallbackReturn ==
  /\ Goto("callback", "refill")
  /\ UNCHANGED <<queueVars, storage, sitemapStorage, sitemapLoaded, crawled,
                 cur, todo, cancelled, pollerVars, consumerVars, historyVars>>

\* The goroutine that called Start() recovers; Start()'s deferred calls run.
CallbackPanic ==
  /\ Goto("callback", "cancel")
  /\ panicked' = TRUE
  /\ UNCHANGED <<queueVars, storage, sitemapStorage, sitemapLoaded, crawled,
                 cur, todo, cancelled, pollerVars, consumerVars, visited>>

\* Mutant of LimitHit: off by one.
LimitHit_late == crawled > CrawlLimit

LimitHit == crawled >= CrawlLimit

\* Mutants of Decide: only the waiting requests count; only the limit does.
Decide_queueOnly ==
  /\ IF queue = << >> \/ LimitHit
     THEN Goto("decide", "cancel")
     ELSE Goto("decide", "recv")
  /\ UNCHANGED <<queueVars, storage, sitemapStorage, sitemapLoaded, crawled,
                 cur, todo, cancelled, pollerVars, consumerVars, historyVars>>

Decide_limitOnly ==
  /\ IF LimitHit
     THEN Goto("decide", "cancel")
     ELSE Goto("decide", "recv")
  /\ UNCHANGED <<queueVars, storage, sitemapStorage, sitemapLoaded, crawled,
                 cur, todo, cancelled, pollerVars, consumerVars, historyVars>>

Decide ==
  /\ IF ~Active \/ LimitHit
     THEN Goto("decide", "cancel")
     ELSE Goto("decide", "recv")
  /\ UNCHANGED <<queueVars, storage, sitemapStorage, sitemapLoaded, crawled,
                 cur, todo, cancelled, pollerVars, consumerVars, historyVars>>

\* Mutant of CancelContext: the deferred cancel is missing.
CancelContext_missing ==
  /\ Goto("cancel", "done")
  /\ UNCHANGED <<queueVars, storage, sitemapStorage, sitemapLoaded, crawled,
                 cur, todo, cancelled, pollerVars, consumerVars, historyVars>>

\* The deferred calls of Start(), last one first.
CancelContext ==
  /\ Goto("cancel", "done")
  /\ cancelled' = TRUE
  /\ UNCHANGED <<queueVars, storage, sitemapStorage, sitemapLoaded, crawled,
                 cur, todo, pollerVars, consumerVars, historyVars>>

QueueDone ==
  /\ Goto("done", "returned")
  /\ Done
  /\ UNCHANGED <<storage, sitemapStorage, sitemapLoaded, crawled, cur, todo,
                 cancelled, pollerVars, consumerVars, historyVars>>

-----------------------------------------------------------------------------
(* The poller                                                              *)

\* select evaluates the operand of the send first: the poller blocks in
\* Poll() with no eye on the context.  A closed queue yields nil.
PollerPoll ==
  /\ poller = "poll"
  /\ poller' = "offer"
  /\ \/ Poll /\ held' = first
     \/ ~open /\ held' = Nil /\ UNCHANGED queueVars
  /\ UNCHANGED <<storage, mainVars, cancelled, respOpen, consumerVars,
                 historyVars>>

Dispatch(c) ==
  /\ ~cancelled
  /\ poller = "offer"
  /\ consumer[c] = "select"
  /\ poller' = "poll"
  /\ consumer' = [consumer EXCEPT ![c] = "request"]
  /\ item' = [item EXCEPT ![c] = held]
  /\ held' = Nil
  /\ UNCHANGED <<queueVars, storage, mainVars, cancelled, respOpen, requests,
                 historyVars>>

\* The request the poller had polled is dropped.
PollerStop ==
  /\ poller = "offer"
  /\ cancelled
  /\ poller' = "wait"
  /\ held' = Nil
  /\ UNCHANGED <<queueVars, storage, mainVars, cancelled, respOpen,
                 consumerVars, historyVars>>

\* Mutant of ConsumersDone: no wg.Wait().
ConsumersDone_noWait == TRUE

ConsumersDone == \A c \in Consumer : consumer[c] = "exited"

\* wg.Wait(), then respStream and reqStream are closed.
CloseStreams ==
  /\ poller = "wait"
  /\ ConsumersDone
  /\ poller' = "exited"
  /\ respOpen' = FALSE
  /\ UNCHANGED <<queueVars, storage, mainVars, cancelled, held, consumerVars,
                 historyVars>>

-----------------------------------------------------------------------------
(* The consumers                                                           *)

\* The random delay and the HTTP call, answered or failed.  With a nil
\* request the process crashes here: there is no step.
Request(c) ==
  /\ consumer[c] = "request"
  /\ item[c] # Nil
  /\ requests' = [requests EXCEPT ![item[c]] = @ + 1]
  /\ consumer' = [consumer EXCEPT ![c] = "respond"]
  /\ UNCHANGED <<queueVars, storage, mainVars, cancelled, pollerVars, item,
                 historyVars>>

ConsumerStop(c) ==
  /\ consumer[c] = "select"
  /\ cancelled
  /\ consumer' = [consumer EXCEPT ![c] = "exited"]
  /\ UNCHANGED <<queueVars, storage, mainVars, cancelled, pollerVars, item,
                 requests, historyVars>>

\* Stop(), or the deadline of the context.
Stop ==
  /\ ~cancelled
  /\ cancelled' = TRUE
  /\ UNCHANGED <<queueVars, storage, mainVars, pollerVars, consumerVars,
                 historyVars>>

-----------------------------------------------------------------------------
MainStep ==
  \/ AddRoot \/ SetupSitemaps \/ Preload \/ Refill
  \/ \E u \in URL : QueueSitemapURL(u)
  \/ SitemapQueued \/ Begin
  \/ \E c \in Consumer : Receive(c)
  \/ ReceiveClosed \/ AckResponse
  \/ \E u \in URL, i \in BOOLEAN : CallbackRequest(u, i)
  \/ CallbackReturn \/ CallbackPanic
  \/ Decide \/ CancelContext \/ QueueDone

PollerStep ==
  \/ PollerPoll \/ PollerStop \/ CloseStreams
  \/ \E c \in Consumer : Dispatch(c)

ConsumerStep(c) == Request(c) \/ ConsumerStop(c)

Next ==
  \/ MainStep
  \/ PollerStep
  \/ \E c \in Consumer : ConsumerStep(c)
  \/ Stop

Spec == Init /\ [][Next]_vars

\* Every goroutine that can take a step is scheduled eventually; HTTP calls
\* end (the client has a timeout) and so does the callback.  Nobody has to
\* call Stop().
Fairness ==
  /\ WF_vars(MainStep)
  /\ WF_vars(PollerStep)
  /\ \A c \in Consumer : WF_vars(ConsumerStep(c))

FairSpec == Spec /\ Fairness

-----------------------------------------------------------------------------
(* Properties                                                              *)

\* The URLs some goroutine has in its hands.
InFlight ==
  ({first, held, cur} \cup {item[c] : c \in Consumer}) \ {Nil}

\* No URL is requested twice, and the callback sees only what was requested:
\* Seen() and Add() of the storage are separate calls, links and sitemaps
\* feed the same queue (AddRequest, queueSitemapURLs).
AtMostOnce ==
  /\ \A u \in URL : requests[u] <= 1
  /\ \A u \in visited : requests[u] = 1

\* The active map of the queue is exact: whatever a goroutine holds is in it,
\* and until the poller gives up there is nothing else in it.  Start() relies
\* on it to tell an idle crawl from one that waits for an answer.
ActiveIsInFlight ==
  /\ InFlight \subseteq active
  /\ poller \in {"unborn", "poll", "offer"} => active = InFlight

\* No goroutine takes the process down.  Poll() answers nil once the queue is
\* closed, and a consumer would dereference it: Start() cancels the context
\* before it closes the queue.  A send on a closed channel panics outside of
\* any recover: crawl() closes respStream only when nobody can send on it.
NoGoroutineCrash ==
  /\ \A c \in Consumer : consumer[c] \in {"request", "respond"} => item[c] # Nil
  /\ ~respOpen => \A c \in Consumer : consumer[c] \notin {"request", "respond"}

\* The crawl limit is checked after the callback, while the consumers keep
\* fetching: requests overshoot it by the number of consumers at most.
LimitRespected ==
  /\ crawled <= CrawlLimit
  /\ Cardinality({u \in URL : requests[u] > 0})
       <= CrawlLimit + Cardinality(Consumer)

\* Start() asks Active(), then acts on the answer, with the poller and the
\* consumers running: none of their steps may change the answer.
ActiveIsMainsOwn ==
  [][poller' # poller \/ consumer' # consumer => Active' = Active]_vars

\* The crawl implements its promise: in particular it ends by itself only
\* when every admitted URL has been visited.
Frontier == INSTANCE CrawlFrontier WITH
  Limit   <- CrawlLimit,
  seen    <- storage,
  pending <- Waiting \cup active,
  count   <- crawled,
  running <- main \notin AfterLoop,
  cut     <- cancelled \/ panicked

FrontierSpec == Frontier!Spec

\* Unless the project says so, a URL robots.txt blocks is requested only if the
\* sitemap lists it: links are checked by AddRequest, whatever page, redirect
\* or embedding they come from; queueSitemapURLs() checks nothing.
RobotsRespected ==
  ~IgnoreRobotsTxt => \A u \in Disallowed : requests[u] > 0 => u \in sitemapStorage

\* Start() returns: no order of answers, stops and polls leaves it waiting.
StartReturns == <>(main = "returned")

AllExited == poller = "exited" /\ ConsumersDone

\* A crawl that drained its queue or was stopped leaves no goroutine behind.
GoroutinesEnd ==
  (main = "returned" /\ poller # "unborn" /\ ~LimitHit /\ ~panicked)
    ~> AllExited

\* What the comment on Start()'s deferred cancel claims of every crawl:
\* "cancel the consumers so all channels are closed."
ChannelsClosed ==
  (main = "returned" /\ poller # "unborn" /\ ~panicked) ~> AllExited

-----------------------------------------------------------------------------
(* The inductive invariants, in named parts: Consistent, behind AtMostOnce,*)
(* ActiveIsInFlight, NoGoroutineCrash and FrontierSpec, and on top of it   *)
(* IInv, behind RobotsRespected and LimitRespected.                        *)

\* A URL is in one place at a time.
OnePlace ==
  /\ Distinct(queue)
  /\ Waiting \cap active = {}
  /\ first # Nil => first \notin {held, cur}
  /\ held # Nil => held # cur
  /\ \A c \in Consumer : item[c] # Nil => item[c] \notin {first, held, cur}
  /\ \A c, d \in Consumer : item[c] # Nil /\ item[c] = item[d] => c = d

\* The queue and the active map together are what is admitted and not
\* visited yet.
Ledger ==
  /\ Waiting \cup active \cup visited \subseteq storage
  /\ (Waiting \cup active) \cap visited = {}
  /\ ActiveIsInFlight

\* A URL is requested by the consumer that holds it and by nobody before.
RequestedByHolder ==
  /\ \A u \in URL : requests[u] <= 1
  /\ \A u \in URL : u \in Waiting \cup {first, held} \/ u \notin storage
                      => requests[u] = 0
  /\ \A c \in Consumer : item[c] # Nil
       => requests[item[c]] = IF consumer[c] = "respond" THEN 1 ELSE 0
  /\ \A u \in visited : requests[u] = 1
  /\ cur # Nil => requests[cur] = 1

\* Where the goroutines can be with respect to each other.
Control ==
  /\ cur # Nil <=> main = "ack"
  /\ poller # "offer" => held = Nil
  /\ poller = "offer" /\ ~cancelled => held # Nil
  /\ \A c \in Consumer : item[c] # Nil <=> consumer[c] \in {"request", "respond"}
  /\ main \in BeforeLoop => poller = "unborn"
  /\ poller = "unborn" =>
       /\ main \in BeforeLoop \cup AfterLoop
       /\ \A c \in Consumer : consumer[c] = "unborn"
  /\ poller \in {"wait", "exited"} => cancelled
  /\ ~respOpen => poller = "exited" /\ ConsumersDone
  /\ main \in {"done", "returned"} => cancelled
  /\ ~open <=> main = "returned"

\* The counter of crawled URLs and the limit.
LimitCount ==
  /\ IsFiniteSet(visited)
  /\ crawled = Cardinality(visited)
  /\ crawled <= CrawlLimit
  /\ main \in {"recv", "ack"} => crawled < CrawlLimit
  /\ poller = "unborn" => crawled = 0

Consistent ==
  /\ TypeOK
  /\ OnePlace
  /\ Ledger
  /\ RequestedByHolder
  /\ Control
  /\ LimitCount

\* Where a URL that was requested can be.
Located ==
  \A u \in URL : requests[u] > 0 =>
    u \in visited \cup {cur} \cup {item[c] : c \in Consumer}

\* A URL robots.txt blocks is admitted only out of the sitemap.
SitemapOnly ==
  /\ todo \subseteq sitemapStorage
  /\ main \in {"init", "setup"} => sitemapStorage = {}
  /\ ~IgnoreRobotsTxt =>
       (Waiting \cup active \cup visited) \cap Disallowed \subseteq sitemapStorage

IInv == Consistent /\ Located /\ SitemapOnly
=============================================================================
