---------------------------- MODULE ResponseHandler ----------------------------
(***************************************************************************)
(* One crawl from its answers to its rows                                  *)
(* (internal/services/crawler_handler.go, report_manager.go, the end of    *)
(* internal/services/crawler.go, and what they save).                      *)
(*                                                                         *)
(* The callback runs in the crawl's goroutine, an answer at a time, in     *)
(* whatever order the answers come.  Around it: the other crawls, which    *)
(* share the statuses of the external links with it; the database, which   *)
(* may fail; and a reader, who follows the cursors of a list of findings   *)
(* while the rows are being written.                                       *)
(*                                                                         *)
(* A workload is a web site and a project: what is at each URL, where the  *)
(* crawl starts, the URLs of the sitemap, those robots.txt blocks, the     *)
(* hosts that are allowed, the options, and what may go wrong.             *)
(***************************************************************************)
EXTENDS SiteViews

CONSTANTS
  Workloads,   \* the sites and projects the crawl may be of
  BatchSize,   \* issues in an INSERT
  PageLimit    \* rows a reader asks for

VARIABLES
  work,     \* the workload
  seen,     \* URLs the crawler has been asked for
  queue,    \* requests without an answer
  answered, \* URLs with one
  loaded,   \* whether the URLs of the sitemap are in the queue
  db,       \* the rows of the crawl
  crawl,    \* models.Crawl
  step,     \* where the crawl's goroutine is
  cur,      \* the answer in the callback
  stream,   \* issues on their way to the database
  lost,     \* issues the database refused
  unsaved,  \* reports without a row
  heads,    \* externalLinksStatus
  faults,   \* how many times something may still go wrong
  reader    \* the client of the API

frontier == <<seen, queue, answered, loaded>>
vars == <<work, frontier, db, crawl, step, cur, stream, lost, unsaved, heads, faults, reader>>

NoData == -9
NoAnswer == [p |-> EmptyReport(""), a |-> EmptyAnswer, link |-> 0]
Totals == {"TotalURLs", "Noindex", "BlockedByRobotstxt", "InternalFollowLinks",
           "InternalNoFollowLinks", "ExternalFollowLinks", "ExternalNoFollowLinks",
           "SponsoredLinks", "UGCLinks", "CriticalIssues", "AlertIssues", "WarningIssues",
           "TotalIssues"}
Lists == {"issues", "pages", "links", "resources"} \cup ResourceTypes
Idle == [list |-> "none", after |-> 0, got |-> <<>>, base |-> {}, done |-> FALSE]

Steps == {"idle", "heads", "save", "issues", "count", "multi", "done", "failed", "down"}
Running == step \in Steps \ {"done", "failed", "down"}

----------------------------------------------------------------------------
\* Crawler.AddRequest over the requests r of a page, one after the other.
Allowed(r) == r.ignoreDomain \/ ParsedURL[r.url].host \in work.hosts
Blocked(u) == u \in work.robots
AddRequests(requests, data) ==
  LET urls == [i \in DOMAIN requests |-> requests[i].url]
      First1(i) == urls[i] \notin seen /\ \A j \in 1..(i - 1) : urls[j] # urls[i]
      new == {i \in DOMAIN requests : First1(i) /\ Allowed(requests[i])}
      refused == {i \in new : ~work.ignoreRobotsTxt /\ Blocked(urls[i])}
  IN  [seen |-> seen \cup Range(urls),
       pushed |-> {[url |-> urls[i], data |-> data] : i \in new \ refused},
       blocked |-> LET order == Sorted(refused, LAMBDA i, j : i < j)
                  IN  [n \in DOMAIN order |-> urls[order[n]]]]

Request(ignore, u) == [url |-> u, ignoreDomain |-> ignore]
InDomain(urls) == [i \in DOMAIN urls |-> Request(FALSE, urls[i])]
AnyDomain(urls) == [i \in DOMAIN urls |-> Request(TRUE, urls[i])]
URLsOf(rows) == [i \in DOMAIN rows |-> rows[i].URL]
NotEmpty(u) == IF u = "" THEN <<>> ELSE <<u>>

Follows(p, l) == (~p.Nofollow /\ ~l.NoFollow) \/ work.followNofollow
LinkRequests(p) ==
  InDomain(URLsOf(SelectSeq(p.Links \o p.ExternalLinks, LAMBDA l : Follows(p, l))))
getInderictURLs(p) ==
  InDomain(URLsOf(p.Hreflangs) \o p.Iframes \o NotEmpty(p.RedirectURL) \o NotEmpty(p.Canonical))
getResourceURLs(p) ==
  LET Both(v) == <<v.URL>> \o NotEmpty(v.Poster)
  IN  AnyDomain(p.Scripts \o p.Styles \o p.Audios \o URLsOf(p.Images)
                  \o FlattenSeq([i \in DOMAIN p.Videos |-> Both(p.Videos[i])]))

\* A preload without a usable URL is logged with the URL it does not have.
TextHTML(p) == p.ContentType \in {"text/html", "text/html, text/html"}
PreloadPanics(p, a) == TextHTML(p) /\ AnyOf(Document(p, a).preloads, LAMBDA h : AbsoluteURL(h) = "")
PreloadRequests(p, a) ==
  LET hrefs == IF TextHTML(p) THEN Document(p, a).preloads ELSE <<>>
      bad == {i \in DOMAIN hrefs : AbsoluteURL(hrefs[i]) = ""}
      good == IF bad = {} THEN hrefs ELSE SubSeq(hrefs, 1, Min(bad) - 1)
  IN  AnyDomain(Usable(good))
CSSRequests(p, a) ==
  IF TextHTML(p) \/ p.ContentType = "text/css" THEN AnyDomain(Usable(Document(p, a).css)) ELSE <<>>

\* What the callback makes of an answer.
Reported(r, a) ==
  LET p == buildPageReport(r.url, a)
  IN  [p EXCEPT !.TTFB = IF a.err = "request" THEN 0 ELSE a.ttfb,
                !.Depth = IF r.data = NoData THEN 0 ELSE r.data,
                !.BlockedByRobotstxt = Blocked(r.url),
                !.InSitemap = r.url \in work.sitemap,
                !.Crawled = ~p.Timeout /\ (work.followNofollow \/ ~p.Nofollow)]

----------------------------------------------------------------------------
\* repository/pagereport.go: a row of pagereports.
Columns == DOMAIN EmptyReport("") \ (Range(PageParts) \cup
  {"Links", "ExternalLinks", "InternalLinks", "Hreflangs", "Images", "Iframes", "Audios",
   "Videos", "Scripts", "Styles", "Nofollow", "Timeout"})
NextId(tables, t) == FirstId[t] + Len(tables[t]) + 1
PageRow(tables, p) ==
  [c \in Columns \cup {"id"} |-> IF c = "id" THEN NextId(tables, "pages") ELSE p[c]]
Insert(tables, t, id, elements) ==
  [tables EXCEPT ![t] = @ \o [i \in DOMAIN elements |->
     [id |-> NextId(tables, t) + i - 1, page |-> id] @@ elements[i]]]

AsRows(urls) == [i \in DOMAIN urls |-> [URL |-> urls[i]]]
Elements(p, part) ==
  CASE part = "links"     -> p.Links
    [] part = "externals" -> p.ExternalLinks
    [] part = "hreflangs" -> p.Hreflangs
    [] part = "images"    -> p.Images
    [] part = "iframes"   -> AsRows(p.Iframes)
    [] part = "audios"    -> AsRows(p.Audios)
    [] part = "videos"    -> p.Videos
    [] part = "scripts"   -> AsRows(p.Scripts)
    [] part = "styles"    -> AsRows(p.Styles)

\* The row of the page, then its parts in their order; a part that cannot be
\* saved is logged and skipped, and the parts from a panic on are missing.
SaveReport(tables, p, parts) ==
  LET withPage == [tables EXCEPT !.pages = Append(@, PageRow(tables, p))]
      id == NextId(tables, "pages")
  IN  FoldLeft(LAMBDA t, part : Insert(t, part, id, Elements(p, part)), withPage, parts)
AllBut(part) == SelectSeq(PageParts, LAMBDA q : q # part)
Before(part) == SubSeq(PageParts, 1, (CHOOSE i \in DOMAIN PageParts : PageParts[i] = part) - 1)
\* The parts that are saved with a statement whose error is not looked at.
Unchecked == Range(PageParts) \ {"links", "externals"}

saveBlockedPageReport(tables, u) ==
  SaveReport(tables, [EmptyReport(u) EXCEPT !.BlockedByRobotstxt = TRUE], <<>>)

SaveBlocked(tables, urls) == FoldLeft(saveBlockedPageReport, tables, urls)

----------------------------------------------------------------------------
\* The first request, and with no other the sitemap at once.
SitemapURLs == IF work.crawlSitemap THEN work.sitemap ELSE {}
Unseen(asked) == {[url |-> u, data |-> NoData] : u \in SitemapURLs \ asked}
Init ==
  /\ work \in Workloads
  /\ LET first == IF ~work.ignoreRobotsTxt /\ Blocked(work.first) THEN {}
                  ELSE {[url |-> work.first, data |-> 0]}
     IN  /\ loaded = (first = {} /\ work.crawlSitemap)
         /\ queue = IF loaded THEN Unseen({work.first}) ELSE first
         /\ seen = {work.first} \cup {r.url : r \in queue}
  /\ answered = {} /\ db = EmptyDB /\ crawl = [t \in Totals |-> 0]
  /\ step = "idle" /\ cur = NoAnswer
  /\ stream = <<>> /\ lost = {} /\ unsaved = <<>>
  /\ heads = <<>> /\ faults = work.faults
  /\ reader = Idle

\* Something goes wrong, if the workload says it may.
Fault(kind) == kind \in work.faulty /\ faults > 0 /\ faults' = faults - 1
NoFault == faults' = faults

\* An answer arrives.  No report of it: the callback only logs it.
Answer(u) == IF u \in DOMAIN work.site THEN work.site[u] ELSE work.nothing
Answered(r) ==
  /\ step = "idle" /\ Cardinality(answered) < work.limit
  /\ answered' = answered \cup {r.url}
ReceiveUnreadable(r) ==
  /\ Answered(r)
  /\ Unreadable(Answer(r.url)) /\ queue' = queue \ {r}
  /\ UNCHANGED <<work, seen, loaded, db, crawl, step, cur, stream, lost, unsaved, heads>>
  /\ UNCHANGED <<faults, reader>>

\* The parser panics, and the crawl's goroutine recovers to end the crawl.
ReceivePanic(r) ==
  /\ Answered(r)
  /\ Panics(Answer(r.url)) /\ queue' = queue \ {r}
  /\ step' = "failed"
  /\ UNCHANGED <<work, seen, loaded, db, crawl, cur, stream, lost, unsaved, heads, faults, reader>>

\* The callback up to the links: what the page leads to is queued, and what
\* robots.txt blocks of it gets a report that says so.
Receive(r) ==
  LET a == Answer(r.url)
      p == Reported(r, a)
      css == IF PreloadPanics(p, a) THEN <<>> ELSE CSSRequests(p, a)
      requests == LinkRequests(p) \o getInderictURLs(p) \o getResourceURLs(p)
                    \o PreloadRequests(p, a) \o css
      added == AddRequests(requests, IF r.data = NoData THEN -1 ELSE r.data + 1)
      after == IF PreloadPanics(p, a) THEN "failed"
               ELSE IF work.checkExternalLinks /\ p.ExternalLinks # <<>> THEN "heads" ELSE "save"
      blocked == [EmptyReport("") EXCEPT !.BlockedByRobotstxt = TRUE]
  IN  /\ Answered(r) /\ ~Unreadable(a) /\ ~Panics(a)
      /\ seen' = added.seen
      /\ queue' = (queue \ {r}) \cup added.pushed
      /\ crawl' = [crawl EXCEPT !.BlockedByRobotstxt = @ + Len(added.blocked)]
      /\ cur' = [p |-> p, a |-> a, link |-> 0]
      /\ step' = after
      /\ \/ /\ db' = SaveBlocked(db, added.blocked)
            /\ NoFault /\ UNCHANGED unsaved
         \/ /\ added.blocked # <<>> /\ Fault("save")
            /\ db' = SaveBlocked(db, Tail(added.blocked))
            /\ unsaved' = Append(unsaved, [blocked EXCEPT !.URL = added.blocked[1]])
      /\ UNCHANGED <<work, loaded, stream, lost, heads, reader>>

\* One external link: its status from the map, or from a HEAD request.
CheckExternalLink ==
  LET n == cur.link + 1
      u == cur.p.ExternalLinks[n].URL
  IN  /\ step = "heads"
      /\ \E status \in IF u \in DOMAIN heads THEN {heads[u]} ELSE work.statuses :
           /\ heads' = (u :> status) @@ heads
           /\ cur' = [cur EXCEPT !.link = n, !.p.ExternalLinks[n].StatusCode = status]
      /\ step' = IF n = Len(cur.p.ExternalLinks) THEN "save" ELSE "heads"
      /\ UNCHANGED <<work, frontier, db, crawl, stream, lost, unsaved, faults, reader>>

\* Another crawl has its own pages checked, and the map may be written by
\* both at a time: the runtime that notices it ends the process.
OtherCrawl ==
  /\ work.others /\ Running
  /\ \/ /\ \E u \in work.shared, status \in work.statuses :
             u \notin DOMAIN heads /\ heads' = (u :> status) @@ heads
        /\ UNCHANGED step
     \/ step = "heads" /\ step' = "down" /\ UNCHANGED heads
  /\ UNCHANGED <<work, frontier, db, crawl, cur, stream, lost, unsaved, faults, reader>>

IssuesOf(id, errors) ==
  LET all == Listed(errors) IN [i \in DOMAIN all |-> [page |-> id, error |-> all[i]]]

\* The report is saved, in part or whole, and the reporters look at it.
SavePageReport ==
  /\ step = "save" /\ (~cur.p.Noindex \/ work.includeNoindex)
  /\ stream' = IssuesOf(NextId(db, "pages"), PageIssues(cur.p, cur.a))
  /\ step' = "issues"
  /\ \/ db' = SaveReport(db, cur.p, PageParts) /\ NoFault
     \/ \E part \in Range(PageParts) :
          /\ Elements(cur.p, part) # <<>> /\ Fault("part")
          /\ db' = SaveReport(db, cur.p, AllBut(part))
  /\ UNCHANGED <<work, frontier, crawl, cur, lost, unsaved, heads, reader>>

\* A statement that could not be prepared is used: the crawl ends here.
SavePanic ==
  /\ step = "save" /\ (~cur.p.Noindex \/ work.includeNoindex)
  /\ Fault("prepare")
  /\ \E part \in Unchecked :
       Elements(cur.p, part) # <<>> /\ db' = SaveReport(db, cur.p, Before(part))
  /\ step' = "failed"
  /\ UNCHANGED <<work, frontier, crawl, cur, stream, lost, unsaved, heads, reader>>

\* No row: the page is not to be indexed, or the database refuses it.
LeaveOut ==
  /\ step = "save"
  /\ \/ cur.p.Noindex /\ ~work.includeNoindex /\ NoFault
     \/ (~cur.p.Noindex \/ work.includeNoindex) /\ Fault("save")
  /\ unsaved' = Append(unsaved, cur.p)
  /\ step' = "count"
  /\ UNCHANGED <<work, frontier, db, crawl, cur, stream, lost, heads, reader>>

\* A mutant of SaveIssues: what does not fill a batch is left behind.
SaveIssues_wholeBatches ==
  /\ step \in {"issues", "multi"} /\ stream # <<>>
  /\ IF Len(stream) < BatchSize THEN stream' = <<>> /\ UNCHANGED db
     ELSE /\ stream' = SubSeq(stream, BatchSize + 1, Len(stream))
          /\ db' = [db EXCEPT !.issues = @ \o [i \in 1..BatchSize |->
                      stream[i] @@ [id |-> NextId(db, "issues") + i - 1]]]
  /\ UNCHANGED <<work, frontier, crawl, step, cur, lost, unsaved, heads, faults, reader>>
\* SaveIssues: the stream is saved a batch at a time.  A batch that is refused
\* is logged; one that cannot be prepared ends the process.
SaveIssues ==
  LET n == IF Len(stream) < BatchSize THEN Len(stream) ELSE BatchSize
      batch == SubSeq(stream, 1, n)
      rows == [i \in 1..n |-> batch[i] @@ [id |-> NextId(db, "issues") + i - 1]]
  IN  /\ step \in {"issues", "multi"} /\ stream # <<>>
      /\ stream' = SubSeq(stream, n + 1, Len(stream))
      /\ \/ /\ db' = [db EXCEPT !.issues = @ \o rows]
            /\ NoFault /\ UNCHANGED <<lost, step>>
         \/ /\ Fault("issues") /\ lost' = lost \cup Range(batch)
            /\ UNCHANGED <<db, step>>
         \/ /\ Fault("prepare") /\ step' = "down"
            /\ UNCHANGED <<db, lost>>
      /\ UNCHANGED <<work, frontier, crawl, cur, unsaved, heads, reader>>
IssuesSaved ==
  /\ step = "issues" /\ stream = <<>>
  /\ step' = "count"
  /\ UNCHANGED <<work, frontier, db, crawl, cur, stream, lost, unsaved, heads, faults, reader>>

CountIf(s, Test(_)) == Len(SelectSeq(s, Test))
\* A mutant of updateStatus: the robots of the page do not count.
updateStatus_linkOnly(p) ==
  LET NoFollow(l) == l.NoFollow
  IN  [crawl EXCEPT
         !.TotalURLs = @ + 1,
         !.Noindex = @ + IF p.Noindex THEN 1 ELSE 0,
         !.BlockedByRobotstxt = @ + IF p.BlockedByRobotstxt THEN 1 ELSE 0,
         !.InternalNoFollowLinks = @ + CountIf(p.Links, NoFollow),
         !.InternalFollowLinks = @ + CountIf(p.Links, LAMBDA l : ~NoFollow(l)),
         !.ExternalNoFollowLinks = @ + CountIf(p.ExternalLinks, NoFollow),
         !.ExternalFollowLinks = @ + CountIf(p.ExternalLinks, LAMBDA l : ~NoFollow(l))]
updateStatus(p) ==
  LET NoFollow(l) == l.NoFollow \/ p.Nofollow
      Follow(l) == ~NoFollow(l)
      One(b) == IF b THEN 1 ELSE 0
  IN  [crawl EXCEPT
         !.TotalURLs = @ + 1,
         !.Noindex = @ + One(p.Noindex),
         !.BlockedByRobotstxt = @ + One(p.BlockedByRobotstxt),
         !.InternalNoFollowLinks = @ + CountIf(p.Links, NoFollow),
         !.InternalFollowLinks = @ + CountIf(p.Links, Follow),
         !.ExternalNoFollowLinks = @ + CountIf(p.ExternalLinks, NoFollow),
         !.ExternalFollowLinks = @ + CountIf(p.ExternalLinks, Follow),
         !.SponsoredLinks = @ + CountIf(p.ExternalLinks, LAMBDA l : l.Sponsored),
         !.UGCLinks = @ + CountIf(p.ExternalLinks, LAMBDA l : l.UGC)]
UpdateStatus ==
  /\ step = "count"
  /\ crawl' = updateStatus(cur.p)
  /\ step' = "idle" /\ cur' = NoAnswer
  /\ UNCHANGED <<work, frontier, db, stream, lost, unsaved, heads, faults, reader>>

\* With nothing left to ask for, the URLs of the sitemap nobody linked to.
QueueSitemapURLs ==
  /\ step = "idle" /\ queue = {} /\ work.crawlSitemap /\ ~loaded
  /\ queue' = Unseen(seen)
  /\ seen' = seen \cup SitemapURLs /\ loaded' = TRUE
  /\ UNCHANGED <<work, answered, db, crawl, step, cur, stream, lost, unsaved, heads, faults, reader>>

\* The crawl is over: the pages are compared.  A query that fails is used as
\* if it had rows, in a goroutine that does not recover.
CreateMultipageIssues ==
  /\ step = "idle"
  /\ \/ queue = {} /\ (loaded \/ ~work.crawlSitemap)
     \/ Cardinality(answered) >= work.limit
  /\ \/ step' = "multi" /\ stream' = MultipageIssues(db) /\ NoFault
     \/ step' = "down" /\ UNCHANGED stream /\ Fault("query")
  /\ UNCHANGED <<work, frontier, db, crawl, cur, lost, unsaved, heads, reader>>

\* The totals of the issues, by their priority.
EndCrawl ==
  LET of == [p \in {Critical, Alert, Warning} |-> CountIssuesByPriority(db, p)]
  IN  /\ step = "multi" /\ stream = <<>>
      /\ crawl' = [crawl EXCEPT !.CriticalIssues = of[Critical], !.AlertIssues = of[Alert],
                     !.WarningIssues = of[Warning],
                     !.TotalIssues = of[Critical] + of[Alert] + of[Warning]]
      /\ step' = "done"
      /\ UNCHANGED <<work, frontier, db, cur, stream, lost, unsaved, heads, faults, reader>>

\* A client of the API asks for the next page of a list.
ReadFindings(list) ==
  LET first == reader.list = "none"
      page == FindingPage(Findings(db, list), reader.after, PageLimit)
  IN  /\ step # "down" /\ ~reader.done
      /\ first \/ reader.list = list
      /\ reader' = [list |-> list, after |-> page.nextAfterID, got |-> reader.got \o page.items,
                    base |-> IF first THEN Findings(db, list) ELSE reader.base,
                    done |-> page.nextAfterID = 0]
      /\ UNCHANGED <<work, frontier, db, crawl, step, cur, stream, lost, unsaved, heads, faults>>

\* Nothing is left to do.
Finished ==
  /\ ~Running /\ (step = "down" \/ reader.list = "none" \/ reader.done)
  /\ UNCHANGED vars

Next ==
  \/ \E r \in queue : ReceiveUnreadable(r) \/ ReceivePanic(r) \/ Receive(r)
  \/ CheckExternalLink \/ OtherCrawl
  \/ SavePageReport \/ SavePanic \/ LeaveOut
  \/ SaveIssues \/ IssuesSaved \/ UpdateStatus
  \/ QueueSitemapURLs \/ CreateMultipageIssues \/ EndCrawl
  \/ \E list \in work.lists : ReadFindings(list)
  \/ Finished

Spec == Init /\ [][Next]_vars
=============================================================================
