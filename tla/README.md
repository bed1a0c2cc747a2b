# SEOnaut: TLA+ models, checks and proofs

This directory models SEOnaut in TLA+: its concurrent core, the way from an answer of a
site to the rows and what is shown of them, and who may change what. TLC checks the
models on small instances, and TLAPS proves the theorems of the `*_proofs`
modules for every value of the constants. `PROJECT.json` lists the components,
the runs, the hazards, the theorems and, for each definition that models code,
the lines it stands for.

```
tlc -workers 2 -config Crawler.cfg MCCrawler     # a run: see "Runs"
tlapm Accounts_proofs.tla                        # the proofs of a module
```

Contents: [the system](#the-system), [the modules](#the-modules),
[the runs](#runs), [what the models show about the code](#what-the-models-show-about-the-code),
[the proofs](#proofs), [what is not modelled](#what-is-not-modelled),
[the plan](#plan).

## The system

SEOnaut is a Go web application that crawls a site, stores a report of every
page in MySQL, looks for issues, and shows or exports them. A web interface and
a machine API (tenants, keys, idempotent requests) drive it. Paths below are
relative to `src/internal/`.

| Component | State it keeps | Operations | What is hard | What makes it correct |
|---|---|---|---|---|
| **Crawler** `crawler/crawler.go`, `queue.go`, `urlstorage.go` | the queue and its active map, owned by `manage()`; the URLs seen; the status; context | `AddRequest`, `Start`, `Stop`; a poller, N consumers, the callback | five kinds of goroutines on unbuffered channels; three ways to end; who closes what | a URL is requested once; the crawl ends exactly when nothing is left; limit, robots and domain rules hold; no deadlock, leak or crash |
| **Live progress** `services/broker.go`, `routes/crawl.go` | subscribers per project; a connection and its lock | `Publish`, `NewSubscriber`, `Unsubscribe`, websocket handler, ping | a slice changed while it is ranged over; callbacks called under a lock that wait for another lock | live subscribers stay, dead ones leave, a publish returns |
| **Crawl lifecycle** `api/crawl_manager.go`, `repository/api_crawls.go`, `services/crawler.go`, `repository/crawl.go`, `services/container.go`, `api/ratelimit.go` | rows of `api_crawls`, `crawls` and `api_idempotency`; crawlers and cancel flags per project; slots per tenant | start, run, cancel, complete, recover | handler and goroutine write the same row; every statement may fail, or work and look failed; the process may die | one crawl per project and key; every crawl ends in one state; slots are exact; findings of API crawls are kept |
| **Response handling** `services/crawler_handler.go`, `html_parser.go`, `parser.go`, `repository/pagereport.go` | a map of external link statuses shared by all crawls; counters of the crawl, apart from the rows | one callback per response | statements that fail one by one; panics in the middle of a page; concurrent crawls share the map without a lock | a page's rows are what was in its answer; the counters are those of the rows |
| **Issue reporting** `services/report_manager.go`, `repository/issue.go`, `issues/page/*`, `issues/multipage/*` | streams of issues | run reporters on a page, then SQL reporters on the crawl | goroutines joined by unbuffered streams; batches; reporters that judge a page by different copies of its data | what the rows say is what the reporters said, each issue once, and reporters do not contradict each other |
| Robots, sitemaps, HTTP client `crawler/robots_checker.go`, `sitemap_checker.go`, `basic_client.go` | a cache of robots.txt; a counter | check a URL, parse sitemaps concurrently, limited reads | parsers share a counter; readers stop at a size | limits hold, and no URL below the limit is lost |
| **API rate limits** `api/ratelimit.go` | a window per key and class; slots | `Allow`, `Acquire` | the clock is read before the lock | no window admits more than its limit |
| **API keys** `api/auth.go`, `key_manager.go`, `platform_keys.go`, `repository/api_keys.go` | rows of `api_keys` | issue, rotate, revoke, authenticate | rotation and revocation race; rotation rewrites the expiry | a revoked key has no successor; an expired one revives only by a rotation that is complete |
| **API tenants and projects** `api/tenants.go`, `projects.go`, `repository/api_*.go` | rows with idempotency records | provision, idempotent PUT, PATCH, list | retries, concurrent writers, commits whose answer is lost | a request takes effect once |
| API exports and archives `services/api_exports.go`, `archive.go`, `archiver/*`, `repository/api_exports.go` | rows of export jobs, WACZ files, an in-flight map | reserve, finalise, purge, stream; write and search records | rows and files change one after the other; two finalisers of a job | a job that is ready has its file; nothing ready is purged early |
| **API findings** `api/findings.go`, `repository/api_findings.go` | none | list pages with a cursor | the set grows between two pages | no finding is skipped or repeated |
| **API server** `api/server.go`, `audit.go`, `targetpolicy.go` | audit rows | authenticate, take a slot, limit, serve, audit | the order of these | slots come back on every path; no limit is bypassed |
| **Projects and users** `services/project.go`, `user.go`, `repository/project.go`, `user.go`, their handlers | rows; files of archives | sign up; add, edit, crawl, delete in the background | deletion during a crawl, a crash in the middle of it | what is deleted leaves nothing behind, and the deletion ends |
| **Dashboard, explorer, exports** `services/dashboard.go`, `report.go`, `issue.go`, `export.go` and their queries | none | count, list, page, export | every view has a query of its own | the views agree |
| WACZ archives `archiver/*` | a file and its index | write records, search them | nothing is concurrent; the index is sorted on disk | a record that was written is found |
| Web pages; configuration | none of their own | templates, translations, start-up | none | not state |

Components in bold are modelled, at least in part. How they interact: a web or API handler asks `CrawlerService` for a crawl; it
creates a `Crawler`, whose callback is the `CrawlerHandler`; this stores the
page report, runs the page reporters, adds the links it found to the crawler's
queue and publishes the progress on the `Broker`, which writes it to the
websockets of the project. When the crawl ends the goroutine runs the multipage
reporters, updates the row of the crawl, deletes the previous crawl's data and,
for API crawls, calls back into `CrawlManager`, which binds and completes the API row,
hands the archive to `APIExportManager` and releases the tenant's slot.

## The modules

**`Queue`** models `crawler/queue.go`. One goroutine, `manage()`, owns the state and
everybody meets it on unbuffered channels; one meeting together with the pass
over the top of its loop is one step. `queue`, `first` and `active` are the
local variables of `manage()`. A request is its URL, because URL is the only
part the queue looks at.

**`Crawler`** EXTENDS `Queue` and models `crawler/crawler.go` and
`urlstorage.go`. Its actors are the goroutine that calls `Start()` (`main`; the
response callback runs on it), the poller, the consumers, and whoever calls
`Stop()` (or the two hour deadline). Each has a program counter, and each action
is the code between two points where the goroutine can wait. `Receive` and
`Dispatch` are the two rendezvous on `respStream` and `reqStream`. What a page
contains is left open: `CallbackRequest` may request any URL, any number of
times, with or without `IgnoreDomain`; robots.txt and the host check are the sets
`Disallowed` and `Foreign`. A request that gets a nil request would
dereference it, so `Request` has no step there and `NoGoroutineCrash` says it never
happens. Once the context is cancelled nothing is handed over any more:
cancelling closes the Done channel, which wakes every parked `select`, and a
rendezvous needs one side parked.

**`CrawlFrontier`** is the abstract specification of a crawl: URLs are
discovered, admitted or not, visited once; the crawl ends when nothing
admitted is left, at the limit, or when it is cut short. `FrontierSpec` is the
refinement: `pending` is what waits in the queue or is in the active map.

**`Broker`** models `services/broker.go` with `wsHandler` of
`routes/crawl.go`. `view` is the slice that `Publish` ranges over, with its backing
array: `append(a[:i], a[i+1:]...)` changes the array in place, which
`ShiftDown` does, while the map gets a shorter slice of it. A callback needs
`connLock`; its hold of it is one step because it waits for nothing else. The ping
goroutine holds it in two steps, since a write can fail between them.

**`ConcurrencyBudget`** models the slots of `api/ratelimit.go`. `CrawlLifecycle`
INSTANCEs it with the tenants as keys.

**`CrawlLifecycle`** models an API crawl from the start request to its final
state. For every request `r` there is its handler (`handler[r]`, the steps of
`StartCrawl`), its job (`job[r]`, the goroutine in
`startCrawlerObserved` with its deferred calls and the completion callback of
`CrawlManager`), and a client that may cancel it (`canceler[r]`). One statement or
transaction of the store is one step. A statement may fail; for a write, the
variants that were applied although the caller saw an error are there too
(`ReserveLost`, `MarkFails`, `Bind`). `Crash` takes away everything that is in memory,
in every state; `Restart` is what `InitRepositories` does. `reply`,
`sawRunning` and `lost` are history variables. Crawls started from the web
interface do not share a project with API crawls (projects of API tenants belong to
users without a usable password), so they are left out. `ReserveCrawl` runs in one
serialisable transaction and is one step. `crawls` numbers the rows in the order of their `start`, by which
`GetLastCrawl` looks for the previous crawl; ties of two crawls in the same second are left out. The archive's
hand-over in the completion changes none of these variables; `ApiExports` has it.

**`CrawlRecord`** is the abstract specification of what the API promises of a
crawl: its record only moves forward and its last state is final; a project has
one open crawl; succeeded means that all findings are stored; and once it is known
to run, its findings are not deleted. `RecordSpec` is the refinement.

**`ApiExports`** models the archives of API crawls: the export rows
(`repository/api_exports.go`), the files (`services/archive.go`), and who settles
and purges them (`services/api_exports.go`). Its actors are the goroutine of each
crawl (`Crawl`: it opens, writes and publishes its archive, then runs `CrawlCompleted`
and completes its row), the requests for an archive (`Client`: `PrepareArchive`), and the startup
(`Boot`: the purge of `InitAPIExportService`). `pc[w]` is the next statement or file
operation of a worker, and each of them may fail, a failed write with or without effect.
A row's ID is the crawl with the number of the row: `made` counts a crawl's rows, because a
purged row may be followed by a new one for the same crawl, which is where IDs and crawls
come apart. `disk[c]` is what the crawl's directory holds, the partial file and the published one.
`StartCrawl`, `HandlerStep`, `BindRow` and `FinishRow` keep of `CrawlLifecycle` what decides
about the archive: the state of the row and whether it is bound. `ready` and `outcome` are the fields of
`CrawlCompletion`. `hindered`, `published` and `crossed` are history variables. Left out:
tenants and key scopes (no statement here mixes them), a response that a client
reads while its file is purged (the open file stays readable), a batch of more than
500 expired jobs (the rest waits for the next purge).

**`ArchiveRecord`** is its abstract specification: an archive is published once; an export is
settled once, and as ready only if the archive was published; files are removed only after it expired;
it is forgotten only without files. `RecordSpec` is the refinement: the state of the archive is
read off the disk and the history.

**`RateLimiter`** models the fixed windows of `api/ratelimit.go`. `Allow` gets the time its
caller read before it had the lock, so a slow caller brings an old one.

**`ApiKeys`** EXTENDS it and INSTANCEs `ConcurrencyBudget` for the export slots. An actor is a
request on its way through `operationalMiddleware`: the row of its key is read (`Send`), judged
(`Authenticate`), a slot is taken, the clock is read, the request is counted, refused or
served, and the deferred calls run (`Finish`). What is served is either opaque (`Serve`) or one of
the calls that issue, rotate and revoke keys, a statement or transaction each. Keys are
numbered in the order of their rows; `kind = "none"` is no row. Scopes are the few that tell the
operations apart. `late` is a history variable. A secret is left out: who sends a request has a key or has none,
and a hash that does not match is a request without.

**`PageParser`** is the way from an answer to a `PageReport` (`html_parser.go`, `parser.go`). An answer
is a record of what the selectors of the parser find in the document, in document order;
what the parser computes from that is translated as it is: which canonical counts, what a link
with an empty `href` is, which `srcset` and `poster` become images, when a page is `noindex`.
**`PageRules`** has the reporters of `issues/page`, one predicate each, under the names of their
constructors' issues. **`SiteQueries`** has the rows of a crawl and what is asked of them: the reporters of
`issues/multipage` as set expressions for their SQL, the lists of the explorer and of a page's
view. **`Pagination`** cuts these into numbered pages. **`SiteViews`** has the dashboard, the exports and the findings of the API with their cursors.
They are pure: no variables.

**`ResponseHandler`** EXTENDS these and is the crawl from its answers to its rows. `Receive` parses an answer,
asks the crawler for the links (`AddRequests` is `Crawler.AddRequest` for a page's links in one step, since only
this goroutine calls it), and the steps that follow check external links, save the report with its parts,
run the reporters, save their issues in batches, and count. `OtherCrawl` writes the map of external statuses
that all crawls share. A fault is a statement that fails, one kind per workload; `ReceivePanic` and
`SavePanic` are the two places where the code dereferences nil. `CreateMultipageIssues` runs when no request
is left, `EndCrawl` counts. A reader (`ReadFindings`) follows the cursors of one list meanwhile.
**`SiteReports`** states the properties.

**`FindingsCursor`** is the abstract specification of what the API promises who reads a list of findings with a cursor:
lists grow, those of one table at their end, merged ones (links, resources) anywhere; a page is the next
findings after the cursor, and its own cursor is the last place on it. `CursorSpec` is the refinement, from the rows of
`ResponseHandler` and its reader, for all lists at once.

**`Accounts`** models the web interface's requests that change users and projects, and the
goroutines they leave behind, which crawl or delete. `pc[r]` is the next statement or file
operation of request `r`. A crawl is what matters to a deletion: its crawler, its row, its archive, and rows that keep
coming (`StoreRows`). Statements of a deletion may fail, since the code logs the error and
goes on, and the process may die. `late` is a history variable: projects whose archive was opened after they,
or their owner, were marked.

**`ApiProjects`** models `provision`, `PUT` and `PATCH` of the API, one transaction per step,
which may fail or be committed although its caller sees an error. `RowsAffected` is how the
database counts a multi-table UPDATE, since the code takes it for the number of projects.
`asked` and `overwritten` are history variables: what a project should be by the calls that were made,
and the fields a `PATCH` wrote back.

**`MC*`** modules give TLC the values of the constants; `MCProjects` puts `Accounts` and
`ApiProjects` side by side, which change the same tables and share no row.
**`Crawler_proofs`** (with the lemmas about `Queue`), **`Broker_proofs`**, **`ApiExports_proofs`**,
**`ApiKeys_proofs`**, **`CrawlLifecycle_proofs`**, **`Accounts_proofs`**, **`ApiProjects_proofs`** and
**`FindingsCursor_proofs`** hold the proofs.

Definitions named `X_something` next to `X` are mutants: `X` with the kind of mistake
a change of that code could make. `PROJECT.json` pairs each property with the mutant
that it catches. They are used by nothing else.

## Runs

| Run | Instance | States | Time |
|---|---|---|---|
| `Crawler` | 5 URLs, 2 consumers, limit 2, sitemap, one blocked and one foreign URL | 268,125 | 35 s |
| `CrawlerLeak` (violation) | 3 URLs, 2 consumers, limit 2 | | 5 s |
| `Broker` | 3 connections of one project, 2 messages | 155,726 | 90 s |
| `BrokerSkip` (violation) | 3 connections, 1 message | | 2 s |
| `LifecycleSafety` | 2 requests for one project, both cancelable, 2 failing statements, 1 crash | 2,127,000 | 60 s |
| `LifecycleSlots` | 3 requests of 2 tenants, one repeats another's key, 1 failing statement | 65,560 | 60 s |
| `LifecycleRestart` (violation) | 1 request, 1 crash | | 2 s |
| `ApiExports` | 1 crawl, 2 requests, 2 rows, 2 failing calls, 1 crash | 338,351 | 70 s |
| `ApiKeys` | 3 requests in 8 combinations, 2 issued keys of at most 4, limits of 1 | 907,616 | 60 s |
| `SiteReports` | 330 sites and projects of 1 to 6 pages | 32,711 | 35 s |
| `NofollowLinks` (violation) | 1 site of 4 pages | | 2 s |
| `Projects` | 8 requests in 6 combinations, 8 calls in 4, 1 failing statement, 1 crash | 60,980 | 22 s |

**`Crawler`**. Safety: `IInv` (the inductive invariant of the proofs, `TypeOK`
included), `AtMostOnce` (no URL is requested twice, by whatever route it
reaches the queue), `NoGoroutineCrash` (no nil request, no send on a closed channel),
`RobotsRespected`, `LimitRespected` (visits within the limit, requests beyond it
by the consumers at most). Steps: `ActiveIsMainsOwn` (what `Active()` answered stays true
whatever poller and consumers do next), `FrontierSpec`. Liveness:
`StartReturns`, `GoroutinesEnd`. Bounds: two consumers show every race between
consumers, since they only meet through the queue and `main`; the requestable URLs
outnumber limit plus consumers by one, so `LimitRespected` can be reached and
exceeded; a limit of two allows a crawl that ends at the limit with consumers in every
state and one that drains. `Listed` bounds what a sitemap may list: the root, a
blocked URL and an ordinary one.

**`Broker`**. `HealthyKept` (the in-place removal never drops a live
subscriber), `DeliveredUnlessFailure` (with no failing callback everybody gets the
message, whatever earlier failures did to the list), `UnsubscribeIsFinal`,
`PublishReturnsOrOrphan`, `PingerEnds`. Three connections allow two failures in one
Publish with a live connection before, between or behind; two messages show what a
damaged list does to the next Publish. `MaxPublish` bounds the messages.

**`LifecycleSafety`**. `OneCrawlerPerProject` (the crawlers map and the
goroutines agree), `NobodyForgets` (an open row has somebody who will end it),
`CancelTakes` (cancelling a running crawl stops it and is reported as canceled),
`RecordSpec`. Two crawls of one project are needed for every confusion between a
crawl and its successor. Two failing statements (`MaxFailures`) fail a write and the write that
should have repaired it; one crash (`MaxCrashes`) is enough as a second one finds
the state that a first one can leave. `Cancelable` bounds which crawls have a client
that cancels.

**`LifecycleSlots`**. `SlotsExact` (the counters are the release functions still
out, and within the limits), `SlotsFollowCrawls` (a crawl whose client was told that
it runs holds its slot; no slot outlives its handler and job),
`OneCrawlPerKey`, `CrawlsEnd`, `SlotsReturn`. Tenant `t1` has two requests for one slot and
the other tenant one. The conflict of a key that is used for another project (`Replayed`) needs a third request of one
tenant; no run has it, and the proofs, for any requests and keys, cover it.

**`ApiExports`**. `IInv` is the inductive invariant of the proofs: with `TypeOK` it says that one
worker settles a job at a time (`OneFinaliser`), that a file is published by its crawl,
whole and at the end (`Published`), that a purge works on expired or deleted jobs only
(`Purging`), and that an export that is gone left nothing on disk (`NothingLeftBehind`).
`ReadyHasFile`: an export that is offered has its whole file until it expires. `FailureIsReal`: the archive
of a crawl that succeeded is not reported as failed while it is there, unless a call made for
that crawl failed. `RecordSpec`: the refinement. `PendingSettles`: after the end of its crawl, an
export does not stay pending if a client keeps asking, even when whoever was to settle it
crashed. The crawl's goroutine and two requests are three workers that reserve, settle and purge
the same export; two failures (`MaxFailures`) break a write and the one that should repair
it, or two purges; one crash (`MaxCrashes`) can leave each half-finished state. `MaxJobs`
bounds the rows of a crawl: the last one does not expire. With two rows a worker can
hold an ID of the old one. Crawls share nothing but the list of a purge and the failures;
two crawls with one request and one failing call were also checked once (3.3 million states).

**`ApiKeys`**. `OvershootNeedsLateRequest` (a window admits its limit, and once more as many for each request that
was counted with a clock behind the window: it puts the old window back and empties the new one),
`ExportSlotsExact` (slots are those of the requests under way, also of requests the limiter refuses),
`RevocationEndsLine` (no key is issued in place of a revoked one, and a replacement has the rights of
the old key and no other owner), `RevivedOnlyWithReplacement` (an expired key lives again only by a rotation that is
complete). `MCWorkload` bounds what three requests ask for together: three of a limited kind, two rotations and
a revocation of one key, and issuing next to these. Two ticks (`MaxTime`) with a window and an
overlap of one let a request be late, a key expire and an overlap end. `MaxKeys` leaves two keys
to issue.

**`SiteReports`**. `IssuesComplete` (the report that can be read back from the rows of a page gives the same
issues as were found in its answer, and each of them has a row unless the database refused it; the comparisons of
pages see all pages), `ReportersAgree` (what the comments of the reporters say is so across them: which issues exclude
each other, which come together, that the pages of a duplicate or of a redirect loop have each other, and that the tables of a page
show nothing where an issue says that there is nothing; issues whose reporter does not do what its comment says are left out, see
below), `CountersMatchRows` (the totals kept in memory are those of the rows),
`CursorSpec` (lists grow and are read as `FindingsCursor` says), `ViewsAgree` (pages of a list make up the list, charts add up, an export has what the API
has). `MCWorkloads`: `Variants` is a page with one thing changed, about sixty, each
with four statuses and with the options the other way; then sites of several pages, for redirects, languages,
nofollow, robots, external links, depth; some of them with each kind of fault, and with a reader.
Every order of answers is explored. `BatchSize` (of issues), `PaginationMax`, `ChartLimit` and `PageLimit` are small so that
batches, pages and cursors have a rest. Tabs that are read in pages without an `ORDER BY` are assumed to come in the order
of the ids. Crawls that end stop; there is no deadlock before.

**`Projects`**. `NothingLeftBehind` (a project that is gone left no archive, whatever crawls, edits and
deletions came together, with three exceptions that it names), `SettingsExplained` (tenants and projects are what the
calls asked for, each once, with the one exception of what a `PATCH` writes back), `DeletionEnds` (under fairness of the goroutines, what is
marked goes, unless the process dies or a statement fails). `MCWorkloads` and `MCCalls` bound which
requests and calls meet: two crawls and a deletion, an edit between, an account with a new project; calls that
repeat a request, that use its key for another one, and two `PATCH`es. One failing
statement and one crash are enough for each half-done deletion; requests are made to one side in each behaviour.

`CHECK_DEADLOCK FALSE` in the other runs: crawls end, clients leave, requests are done and
nobody has to restart the process. Deadlocks of single actors are the liveness
properties' concern.

### Fairness

*Crawler*: weak fairness of `main`, the poller and each consumer: goroutines are
scheduled, HTTP calls end (the client has a timeout), and the callback returns. The
callback publishes on the broker, so it returns only if `Publish` does; `Broker` says when.
Nobody has to call `Stop()`, and the deadline is not used.
*Broker*: strong fairness where a goroutine competes for a mutex, because Go's mutexes
hand over to a waiter after a millisecond (starvation mode); weak fairness for reads
and writes with deadlines and for the ticker. Clients need not connect or leave.
*CrawlLifecycle*: weak fairness for the handler once its request has come, the job
and the canceler. A crawl ends (`CrawlEnds` under weak fairness), which is
`StartReturns`. Nothing promises a restart after a crash.
*ApiExports*: weak fairness for the handler, the crawl's goroutine, the requests and the purge at startup.
`PendingSettles` also needs that some client keeps asking (strong fairness of `Ask`, because requests are
busy in between): the answer to a pending export is 202 with `Retry-After`
(`api/exports.go:107-111`), and without another request nobody settles what a crash left.
An export expires only once the goroutine of its crawl is gone: it lives for seven days, a crawl for
two hours.
*Projects*: weak fairness of the goroutines that crawl and delete; nobody has to make a request, and a
crawl that runs stores rows for as long as it likes before it ends.
`ApiKeys` and `SiteReports` state no liveness.

## What the models show about the code

Four statements of the repository are contradicted; each is a run that TLC finds violated.

* `CrawlerLeak`: the comment on the deferred `c.cancel()` (`crawler/crawler.go:137`) says
  "so all channels are closed". A crawl that ends at its limit stops receiving while
  consumers fetch; a consumer then blocks on `respStream <- rm` for ever, the poller on
  `wg.Wait()`, and no channel is closed.
* `BrokerSkip`: "Publishes a message to all subscribers" (`services/broker.go:70`): after a
  failing callback the next subscriber gets nothing and the last one is called twice.
* `LifecycleRestart`: "API crawl rows and partial findings survive restart recovery"
  (`services/container.go:155`): between `SaveCrawl` and `MarkCrawlRunning` an API crawl cannot be
  told from a crawl of the web interface, and a restart deletes its findings.
* `NofollowLinks`: "returns true if ... the page's html contains internal links with the nofollow attribute"
  (`issues/page/links.go:38`): the reporter looks at `pageReport.InternalLinks`, which only the page's view
  and the unit test fill; a crawl puts links in `Links`, and the issue is never reported.

Others are visible as the exception a checked property has to make:

* `RobotsRespected` excepts URLs listed in a sitemap: `queueSitemapURLs`
  (`crawler.go:346`) asks neither `robotsChecker` nor `domainIsAllowed`.
* `UnsubscribeIsFinal` excepts lists that saw two failures in one Publish: the second
  `append` works on the old slice and leaves the last subscriber twice.
* `PublishReturnsOrOrphan` excepts a ping goroutine that returned from a failed
  write with `connLock` held (`routes/crawl.go:324`): the next Publish to that connection
  waits for ever, with the lock of the broker, and so do all crawls.
* `GoroutinesEnd` excepts crawls that ended at the limit (see `CrawlerLeak`) or by a panic.
* `CancelTakes` speaks of the crawl that is cancelled only: `CancelCrawl` stops whatever crawler
  the project has when it gets there, which may be the next crawl's.
* `SlotsFollowCrawls` excepts crawls whose `MarkCrawlRunning` failed: the handler
  gives the slot back while the crawler still winds down.
* `ReadyHasFile` excepts exports in `crossed`. `CompleteArchive` updates the pending row of the
  crawl (`repository/api_exports.go:22`), not the job that was read: a request that has seen the file, is
  overtaken by a purge of the expired export and by a request that makes a new row, completes the new row for the
  file that is gone.
* `PendingSettles` excepts crawls that never were bound: `ResolveSource` does not find them, so no
  request settles an export that their goroutine could not settle.
* `NobodyForgets` and `CrawlsEnd` except crawls in `lost`, whose final write failed as
  often as the code tries it; such a row blocks its project until the next restart.
* `OvershootNeedsLateRequest`: `Allow` (`api/ratelimit.go:60`) reads the clock before it locks.
* `RevivedOnlyWithReplacement`: rotating an expired key makes it valid again for the overlap
  (`repository/api_keys.go:69`), and the replacement starts with the old expiry, in the past.
* `NothingLeftBehind` excepts sites with a port when the account is deleted: `FindProjectsByUser` leaves
  `Host` empty, so the archive is looked for under a name without the port
  (`services/project.go:97`, `services/archive.go:186`). It excepts crawls that open their archive after the project
  was marked: the file appears after the deletion looked for it.
* `DeletionEnds` excepts crashes and failures: nothing resumes a deletion.
* `SettingsExplained` excepts what a `PATCH` overwrites: it reads in one transaction and writes all
  fields in another (`api/projects.go:119`).

In the reporters, comment and code disagree more often than one run can refute. The model does what the code does, so
`IssuesComplete` holds, and `ReportersAgree` says nothing of these issues; none of them is checked against its comment:

* Pages "non canonical and ... included in the sitemap" (`issues/page/indexability.go:67`): the reporter does not ask for
  `InSitemap`, so `NonCanonicalInSitemap` is of any page with a canonical elsewhere. In `Languages` there is no sitemap, and pages `b` and
  `c` have the issue.
* "The status code is between 200 and 299" (`issues/page/headings.go:15` and `:41`, `canonical.go:16`, `:47` and `:83`, `form.go:15` and
  `:50`, `viewport.go:14`): the guard `StatusCode < 200 && StatusCode >= 300` is never true, so error pages are reported too
  (`NotSuccessGuard`, `PageAny`).
* "Pages that have hreflang links to non-canonical pages" (`issues/multipage/hreflang.go:30`): the query gives the page the links lead to.
  "Pages that have hreflang links to non-indexable pages" (`:52`): it gives non-indexable pages with hreflangs. In `Languages`, page `a` links
  to both kinds and has neither issue; `b` and `c` have the first, `c` the second.
* "Missing hreflang return links" (`issues/multipage/hreflang.go:8`): any hreflang to the page is a return link for all of its own, even the one
  that the page has to itself (`MissingHrelangReturnLinks`).
* "Indexable pages that are internally linked using the nofollow attribute" (`issues/multipage/links.go:8`): the query gives
  the page with the link (`NoFollowIndexableReporter`).
* "Pages that are canonicalized to non-canonical pages" and "to non-indexable pages" (`issues/multipage/canonical.go:8` and `:29`): the first
  query gives the page that is named as canonical, the second non-indexable pages whose canonical has its canonical elsewhere.
* "Pages with identical titles" (`issues/multipage/body.go:8`): the query compares the bodies, of any status, as the name of its issue
  says (`issues/errors/errors.go:70`).
* "The page is blocked by the robots.txt file" (`issues/page/indexability.go:28`): a page that is blocked gets its row from `SaveBlocked`,
  which passes no reporter.

In the deletion of an account, "removes data from the database and WACZ archive files" (`services/project.go:106`) is not so for sites
with a port and for crawls that come late, the exceptions of `NothingLeftBehind`.

And some were met on the way, where no document that we know promises anything, and the model does what the code does:

* A redirect without `Location` is a redirect loop; an XHTML page with hreflangs gets the issue of a missing return link and not
  of a missing self reference; a page whose only links come from a page that was not stored is an orphan.
* `FindLinks` lists fewer rows than its paginator counts when a page it links to has no row (`LinksListed`).
* A reader of links or resources, lists that are merged from several tables, may miss rows
  that come during the crawl (`NothingMissed` of `FindingsCursor` says which lists do not).
* A preload link without a URL, and a meta refresh with fewer than four bytes after its semicolon, panic in the
  callback (`SavePanic`, `ReceivePanic`); the goroutine recovers, and the row in `crawls` stays open
  until the next restart.
* A `PUT` or `PATCH` that changes a setting is answered 404: the UPDATE joins two tables and
  `RowsAffected` counts both rows (`repository/api_projects.go:97`).
* A project that was never crawled counts as crawling, so its owner cannot delete the account
  (`services/projectview.go:73`); `UserIsCrawling` has this guard.
* `SignUp` looks for the address and then inserts; nothing makes it unique (`services/user.go:69`), so two
  requests create two accounts.

## Proofs

The theorems of `Crawler_proofs` are about `Spec` of `Crawler`, for any set of URLs, any finite set of consumers, any
limit and options, under `NilAssumption` and `CrawlerAssumption`: the root is a URL of the
project's host, the limit is positive.

| Theorem | States |
|---|---|
| `Invariance`, `TypeCorrect` | `Consistent` is invariant, and with it `TypeOK` |
| `RequestedAtMostOnce` | `AtMostOnce` |
| `ActiveExact` | the active map is exactly what the goroutines hold |
| `NoCrash` | `NoGoroutineCrash` |
| `CrawlImplementsFrontier` | `FrontierSpec`: the crawl implements its abstract specification |
| `ActiveStable` | `ActiveIsMainsOwn` |
| `FullInvariance` | `IInv` is invariant |
| `RobotsHonoured` | `RobotsRespected` |
| `LimitHonoured` | `LimitRespected` |

None of the properties is inductive. "No URL is requested twice" depends on where
URLs are: `Consistent` says that a URL is in one place at a time (`OnePlace`), that queue and
active map together are what is admitted and not visited (`Ledger`), that only the
consumer that holds a URL has requested it (`RequestedByHolder`), where the goroutines can
be with respect to each other (`Control`: for instance, an open
offer without a request exists only once the context is cancelled, which is why no nil
reaches a consumer), and how the counter relates to the limit (`LimitCount`). The lemmas
about the queue describe a meeting with `manage()` in terms of sets, so that the rest
never looks into a sequence; `Frame` and `Admit` of
`Crawler_proofs` carry the bookkeeping through the steps that move nothing and through the three
routes by which a URL is admitted; then there is one lemma per action that moves a URL.
The refinement maps each step to a step of `CrawlFrontier` or to none; the interesting
case is `Decide`, where an idle queue must mean that nothing is pending.
The last part adds where a requested URL can be (`Located`) and that only the sitemap
admits a blocked URL (`SitemapOnly`); the bound on requests is then a count: what was
requested is visited, in `main`'s hand, or in a consumer's.

The theorems of `ApiExports_proofs` are about `Spec` of `ApiExports`, for any sets of crawls and
requests, and any number of rows, failures and crashes, under `ExportsAssumption`: crawls, requests and the startup are
different workers, the bounds are numbers.

| Theorem | States |
|---|---|
| `Invariance` | `IInv` is invariant |
| `ReadyExportsHaveFiles` | `ReadyHasFile` |
| `ForgottenExportsLeaveNothing` | `NothingLeftBehind` |
| `ExportsImplementRecord` | `RecordSpec` |
| `FailuresAreReal` | `FailureIsReal` |

`ReadyHasFile` is not inductive: that a completed export has its file depends on what the worker saw
some steps before. `Completing` keeps that knowledge: the file is still there, or the export has expired, or
the row is another one. It survives the purge because of `Doomed`: a job on a purge's list is the current
row and expired, or its row and files are gone by then. This in turn needs that numbers of rows only
grow (`OneFinaliser` bounds the ID a worker holds by `made`) and that a crawl whose export is expired or
gone has no goroutine that could still write (`Purging`, `NothingLeftBehind`). The lemmas
`Keep...` say of each part which moves of a worker cannot disturb it; most actions change
neither rows nor files and need only these (`KeepAll`). Then there is one lemma per action, and for the
refinement one per action that is visible in `ArchiveRecord`.

The last part follows a failure from its cause. A crawl whose row has ended has no goroutine any more,
unless its handler gave up on it after a call failed (`Ended`); a request that may settle an export has
seen that end (`Watching`); the goroutine knows whether it published the archive (`Known`). So whoever is about to fail
an export has no file to offer, or comes too late to fail it (`Failing`), and a failed export has no archive, now or
later (`Failed`). A crash alone does not break this: the startup ends the rows, and by then no goroutine is left.

The theorems of `Broker_proofs` are about `Spec` of `Broker`, for any connections, topics and number of messages,
under `BrokerAssumption`.

| Theorem | States |
|---|---|
| `Invariance`, `TypeCorrect` | the inductive invariant `IInv` of that module, and with it `TypeOK` |
| `HealthyStay` | `HealthyKept` |
| `AllServed` | `DeliveredUnlessFailure` |
| `GoneForGood` | `UnsubscribeIsFinal` |

`Publish` ranges over an array that a failing callback changes in place. `HealthyInView` says that a live subscriber is
still somewhere in that array, `Ranging` that before the first failure the array is the list and the messages
are where the index has been, and `ListsExact` that until a Publish saw two failures a list has each subscriber once, none of
them gone. `Quiet` clears what a Publish leaves. The lemmas about lists (`AppendedList`, `ShiftedList`,
`ShortenedList`) say what a removal does in terms of sets, so that the actions never look into a sequence.

The theorems of `ApiKeys_proofs` are about `Spec` of `ApiKeys`, for any requests, tenants, projects, workloads,
keys, windows and times, under `KeysAssumption` and `LimiterAssumption`: there are finitely many requests, the bounds are
numbers, and the keys issued before are numbered in order.

| Theorem | States |
|---|---|
| `Invariance`, `TypeCorrect` | `TypeOK` and `KeysInv` |
| `RevocationIsFinal` | `RevocationEndsLine` |
| `RevivalIsRotation` | `RevivedOnlyWithReplacement` |
| `SlotsAreExact` | `ExportSlotsExact` |
| `OvershootIsLateness` | `OvershootNeedsLateRequest` |

A rotation acts on a row it read some steps before. `KeysInv` is why that is safe: a key keeps its number,
kind, owner and scopes for ever, so what was read of these still holds; only revocation and expiry can have changed,
and the transaction asks for the former again. Every step does one of five things to the rows (`KeysStep`: nothing,
`Created`, `Revoked`, `Rotated`, or time passes), and the two properties follow from these. `SlotsInv` adds to
`ExportSlotsExact` that only exports wait for a slot and that a holder has a tenant; then one lemma each for taking a slot, giving it
back, moving on with one, and moving without. `WindowsInv` bounds what each window has admitted, with m the limit and l the
requests that were late so far: m * l for a window that is to come, m * l and what is counted for the open one, m * l + m
for one that is over (`Room`). A late request makes the open window one to come and opens one that is over, and
each of these bounds still holds, as l has grown by one.

The theorems of `CrawlLifecycle_proofs` are about `Spec` of `CrawlLifecycle`, for any finite set of requests, any projects,
tenants, idempotency keys and limits, and any number of failing statements and crashes, under `LifecycleAssumption`.

| Theorem | States |
|---|---|
| `Invariance`, `TypeCorrect` | the inductive invariant `IInv` of that module, and with it `TypeOK` |
| `CrawlersAgree` | `OneCrawlerPerProject` |
| `EveryCrawlIsAttended` | `NobodyForgets` |
| `CancellationTakes` | `CancelTakes` |
| `SlotsAreExact`, `SlotsAreTheCrawls` | `SlotsExact`, `SlotsFollowCrawls` |
| `KeysAreIdempotent` | `OneCrawlPerKey` |
| `CrawlsImplementRecord` | `RecordSpec` |

The actors of a crawl share no lock, so what keeps them apart is how far each has come. `Control` says what handler and job can
know of each other: a job exists only behind the handler's `SaveCrawl`, a row is running only once there is a job, and a process
that is down has none. `OneCrawlerPerProject` carries most of the rest: an entry of the crawlers map belongs to one crawl, so the
flag a cancellation sets is read by the crawl it was meant for, a previous crawl has no goroutine any more (`Results`), and
the deferred removal takes away the entry of its own crawl only. `Results` says that what a job remembers is still true when it writes: its
data are finished, its row is no longer queued. This is what the refinement needs at `Complete`, where the row must not be called
succeeded without its findings. `Holding` follows a slot from the handler to the job, and `SlotsExact` is then a count: taking a
slot adds a new holder, and of two releases of one slot the second finds it gone. `Ledger` has every crawl under its own key.

The theorems of `Accounts_proofs` are about `AccountsSpec`, for any users, projects and requests, and any number of failing
statements and crashes, under `AccountsAssumption`: a request has a kind and is about a project (or, signing up, an account),
and whoever signs up, like a project that is added, gets a row of its own.

| Theorem | States |
|---|---|
| `Invariance`, `TypeCorrect` | the inductive invariant `IInv` of that module, and with it `AccountsTypeOK` |
| `NothingIsLeft` | `NothingLeftBehind` |
| `OwnersAct` | `OwnersOnly`: a project, its archive option and its files change only by a request of its owner |
| `NoOrphans` | `RowsHaveParents`: page reports have their crawl, a crawl its project, a project its owner |
| `OwnershipInvariance` | `OInv`: `IInv` with these rows and `OwnProject` is invariant |

The property speaks of projects that are gone, but an archive goes astray long before: while a deletion looks for a crawl that
is about to open it, while an edit turns the option off, while two deletions work on the same project. `Guarded` is what holds in
between. An archive that nothing excuses (`Stray`) is of a project in use, or some deletion still has that project
on its list (`Removes`), or its owner's deletion is about to make its list, on which it will be; and once that deletion is at work,
the file is on somebody's list although the project may have been marked by another request. It needs `Rows` (a file belongs to a
project that has an owner), `Lists` (a deletion has its own project, or projects of its own user, who is marked by then) and
`SignedIn` (an owner has a row). What excuses an archive only grows (`late`, `crashes`, the owner's deletion), which is a
lemma of its own, so a step is asked only about archives that are astray after it: those it writes, those whose project or
user it marks, and those it takes off a list. The last happens only when the file is gone (`DeleteArchive`), or when it was looked for under a name
without the port, which is the third excuse.
The proof found a slip of the model: the `CASE` that chose what a deletion does next had two guards that could both be
true, so which one counted was left open; it now asks for the list first, as the loop in `services/project.go:92-107` does.

`OwnersOnly` and `RowsHaveParents` are stated in `Accounts_proofs`, and no run checks them: the theorems are all there is of them.
A handler asks once whether the project is its user's; the updates, the crawl and the goroutine of the
deletion that follow name the project only. That they act for its owner nevertheless is `OwnProject` (what was found still has that
owner, since an ID is not given twice) for edits, crawls and deletions, `Lists` for the deletion of an account, which works on a list
it read some steps before, and `Rows` for a project that is added (nobody owned it). `RowsHaveParents` holds at each step of a
deletion, also of one that lost a statement or the process: crawls are inserted only into a project that exists, rows
only into a crawl that exists, and what a statement deletes takes along all that hangs on it, in crawls and rows together (`CascadeKeeps`).

The theorems of `ApiProjects_proofs` are about `ApiSpec`, for any calls of any tenants, any settings and any number of
failing transactions, under `ApiProjectsAssumption`: a PUT names every field.

| Theorem | States |
|---|---|
| `Invariance` | the inductive invariant `IInv` of that module |
| `Explained` | `SettingsExplained` |
| `Once` | there is one record of an Idempotency-Key of a key |

`SettingsExplained` is nearly inductive: it lacks that a tenant's service user was made by a call of that tenant (`TenantsOK`),
and that a `PATCH` that stores has read a project that exists (`SettingsOK`). A call that found no row inserts in
another transaction; the insert sees what came in between, so `ProvisionTenant` and `PutNew` are where a second caller must
end up with the row of the first. `Answered`, `MovesOn`, `TenantSide` and `ProjectSide` say what a call
cannot disturb that only moves.

The run `Projects` composes both modules: in each of its behaviours the requests are made to one side and the other stays as it
began, so what it checks are behaviours of `AccountsSpec` and of `ApiSpec`.

The theorems of `FindingsCursor_proofs` are about `Spec` of `FindingsCursor`, for any lists, any rows written at any time and any
number of rows on a page but none (`CursorAssumption`; `SiteReports` assumes it of its own constants, so the runs evaluate it).

| Theorem | States |
|---|---|
| `Invariance` | the inductive invariant `IInv` of that module |
| `NothingIsMissed` | `NothingMissed` |
| `PagesShowAll` | each row of a list is on exactly one of its numbered pages, and none of these is empty or too long |

`NothingMissed` speaks of what a client has; it needs to know how that lies to the cursor (`AtCursor`: the last finding
read is at the cursor, and of what there was at the beginning, or of all there is in a list of one table, everything up to it has been read) and to the
last page (`AtEnd`). `PageIsFirst` says that a page, which is defined by counting what is below, has no gap; that nothing is
given twice is a count of disjoint sets. `PagesShowAll` is about `Pagination`, for any list and any size of a page (`PaginationAssumption`). It is arithmetic: rounding up counts a last page
that is not full (`RoundedUp`), and the page of a row is its number divided by the size of a page, rounded up in the same way. It says this of one list
and the count of that list. That the code counts what it lists, where it asks two queries, is checked by `ViewsAgree`, and is
not so for the links of a page: the count includes links to URLs without a report, so the last pages may be empty. `CursorSpec` carries the result over to the rows: that the implementation grows and reads its lists
like this is what TLC checks, since rows come from folds over what the parser finds in a page.

Model-checked only:

* the liveness properties: TLAPS has no fairness here;
* `CursorSpec`, and the four invariants of `SiteReports`. They say what definitions compute for a site: its rows are saved one after
  the other by folds, lists are sorted and paginated by recursion, and reporters count over rows. What a fold or a recursive
  function yields for every input, even that it is a sequence, is an induction over data, which is out of this prover's reach.

## What is not modelled

* Formats: the text of HTML, CSS, robots.txt, sitemaps, `srcset` and language codes (the models start from what the
  parsers select), readability scores, CSV and XML writing, templates, translations, password hashing,
  configuration. They transform data in one step and keep no state.
* The parsers of sitemaps share a counter (`crawler/sitemap_checker.go:71`); `Crawler` and `ResponseHandler` take
  what a sitemap lists as a set.
* WACZ archives: `ApiExports` knows a file as partial or whole; the index and its binary search are in the plan.
* The search by words and the collation of the database, which decides what MySQL takes for equal titles.
* SQL reporters that `GetAllReporters` does not return.
* Audit rows, which nobody reads; the DNS checks of the target policy; routing.
* Sign-in, sign-out, changes of password and settings of an account.
* In the components that are modelled: HTTP redirects and errors in `Crawler` (an answer is an answer to the crawler;
  `ResponseHandler` has the kinds of answers), the batches of `DeleteCrawlData` in `CrawlLifecycle`
  (`Accounts` has them).

## Plan

In this order, the most important behaviour first. Done: all but 10.

1. `Queue`, `Crawler`, `CrawlFrontier`: runs `Crawler`, `CrawlerLeak`; proofs.
2. `Broker`: runs `Broker`, `BrokerSkip`.
3. `ConcurrencyBudget`, `CrawlLifecycle`, `CrawlRecord`: runs `LifecycleSafety`,
   `LifecycleSlots`, `LifecycleRestart`.
4. Proofs of the crawl's rules (robots.txt and the limit).
5. `ApiExports`, `ArchiveRecord`: run `ApiExports`; proofs.
6. `PageParser`, `PageRules`, `Pagination`, `SiteQueries`, `SiteViews`, `ResponseHandler`, `SiteReports`: runs
   `SiteReports`, `NofollowLinks`.
7. `RateLimiter`, `ApiKeys`: run `ApiKeys`; proofs.
8. `Accounts`, `ApiProjects`: run `Projects`.
9. Proofs of `Broker`, `CrawlLifecycle` and its refinement, and `FailureIsReal` of `ApiExports`.
10. The parsers of `SitemapChecker` with their shared counter; the binary search of the archive's index against a
    reference definition.
11. Proofs about `Accounts` and `ApiProjects`.
12. `FindingsCursor` and its proof; its refinement in the run `SiteReports`.
13. `OwnersAct` and `NoOrphans` of `Accounts_proofs`; `PagesShowAll` of `FindingsCursor_proofs`.
