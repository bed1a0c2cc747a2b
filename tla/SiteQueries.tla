------------------------------ MODULE SiteQueries ------------------------------
(***************************************************************************)
(* What is asked of the rows of one crawl: the reporters that compare      *)
(* pages (internal/issues/multipage), the lists and counts of the web      *)
(* interface and the exports (internal/repository, internal/services), and *)
(* the findings of the API.                                                *)
(*                                                                         *)
(* db holds a sequence of rows for each table, in the order of their ids.  *)
(* The URLs of pages are unique, and the hashes in the columns stand for   *)
(* the URLs.  A join repeats a row, so a query is the set of the rows it   *)
(* joins, the page it reports first.                                       *)
(***************************************************************************)
EXTENDS PageRules, Pagination, TLC

CONSTANTS
  ChartLimit,     \* slices of a chart
  FirstId         \* of each table: the id before the crawl's first row

PageParts == <<"links", "externals", "hreflangs", "images", "iframes", "audios", "videos",
               "scripts", "styles">>
Tables == Range(PageParts) \cup {"pages", "issues"}
EmptyDB == [t \in Tables |-> <<>>]

\* The elements of a set, one after the other.
Listed(S) == FoldSet(LAMBDA x, s : Append(s, x), <<>>, S)
Sorted(S, Less(_, _)) == SortSeq(Listed(S), Less)

Pages(db) == Range(db.pages)
Report(db, id) == CHOOSE p \in Pages(db) : p.id = id
OfPage(table, id) == SelectSeq(table, LAMBDA r : r.page = id)
IsHTML(p) == p.MediaType = "text/html"
SelfCanonical(p) == p.Canonical \in {"", p.URL}
OK200(p) == IsHTML(p) /\ Success(p)
NofollowColumn(p) == p.Robots \cap {"nofollow", "none"} # {}

----------------------------------------------------------------------------
\* issues/multipage: the rows each reporter streams.
DuplicatedContent(db) ==
  LET Bodies(h) == {p \in Pages(db) : IsHTML(p) /\ p.BodyHash = h}
  IN  {<<p.id>> : p \in {q \in Pages(db) : IsHTML(q) /\ q.BodyHash # ""
                                           /\ Cardinality(Bodies(q.BodyHash)) > 1}}

RedirectsTo(db, a, b) == a.RedirectURL = b.URL /\ a.Crawled /\ b.Crawled
RedirectChainsReporter(db) ==
  {<<j[1].id, j[2].id>> : j \in {k \in Pages(db) \X Pages(db) :
     RedirectsTo(db, k[1], k[2]) /\ k[2].RedirectURL # ""}}
RedirectLoopsReporter(db) ==
  {<<j[1].id, j[2].id>> : j \in {k \in Pages(db) \X Pages(db) :
     RedirectsTo(db, k[1], k[2]) /\ RedirectsTo(db, k[2], k[1])}}

Canonicals(db) == {p \in Pages(db) : OK200(p) /\ SelfCanonical(p) /\ p.Crawled}
\* A mutant of DuplicatedTitleReporter: pages without a title are the same.
DuplicatedTitleReporter_untitled(db) ==
  LET Same(p) == {q \in Canonicals(db) : q.Title = p.Title /\ q.Lang = p.Lang}
  IN  {<<p.id>> : p \in {q \in Canonicals(db) : Cardinality(Same(q)) > 1}}
DuplicatedTitleReporter(db) ==
  LET Same(p) == {q \in Canonicals(db) : q.Title = p.Title /\ q.Lang = p.Lang}
  IN  {<<p.id>> : p \in {q \in Canonicals(db) : q.Title # "" /\ Cardinality(Same(q)) > 1}}

\* Of the outer pages the query asks to be crawled only of those with a
\* canonical to themselves.
DuplicatedDescriptionReporter(db) ==
  LET Same(p) == {q \in Canonicals(db) : q.Description = p.Description /\ q.Lang = p.Lang}
      Outer(p) == OK200(p) /\ (p.Canonical = "" \/ (p.Canonical = p.URL /\ p.Crawled))
  IN  {<<p.id>> : p \in {q \in Pages(db) : Outer(q) /\ q.Description # ""
                                           /\ Cardinality(Same(q)) > 1}}

LinksTo(db, u) == {l \in Range(db.links) : l.URL = u}
OrphanPagesReporter(db) ==
  {<<p.id>> : p \in {q \in Pages(db) : IsHTML(q) /\ LinksTo(db, q.URL) = {}}}

\* The page with the link, once for each page it links to without following.
NoFollowIndexableReporter(db) ==
  {<<l.page, p.id>> : <<l, p>> \in {k \in Range(db.links) \X Pages(db) :
     k[1].NoFollow /\ k[1].URL = k[2].URL /\ ~k[2].Noindex /\ k[2].Crawled}}
FollowNoFollowReporter(db) ==
  {<<p.id>> : p \in {q \in Pages(db) : Cardinality({l.NoFollow : l \in LinksTo(db, q.URL)}) > 1}}

\* A page is content with any hreflang to it, its own included.
MissingHrelangReturnLinks(db) ==
  {<<p.id>> : p \in {q \in Pages(db) :
     /\ \E h \in Range(OfPage(db.hreflangs, q.id)) : h.Lang # "x-default"
     /\ q.StatusCode < 300
     /\ ~\E h \in Range(db.hreflangs) : h.URL = q.URL
     /\ SelfCanonical(q)
     /\ q.Crawled}}
\* The page the hreflangs lead to, once for each of them.
HreflangsToNonCanonical(db) ==
  {<<p.id, h.id>> : <<p, h>> \in {k \in Pages(db) \X Range(db.hreflangs) :
     k[2].URL = k[1].URL /\ OK200(k[1]) /\ ~SelfCanonical(k[1]) /\ k[1].Crawled}}
HreflangNoindexable(db) ==
  {<<p.id>> : p \in {q \in Pages(db) :
     q.Noindex /\ q.Crawled /\ OfPage(db.hreflangs, q.id) # <<>>}}
MultipleLangReference(db) ==
  LET Langs(u) == {h.Lang : h \in {g \in Range(db.hreflangs) : g.URL = u}} \ {"x-default"}
  IN  {<<p.id>> : p \in {q \in Pages(db) : Cardinality(Langs(q.URL)) > 1}}

\* The canonical page of the two, once for each page that names it.
CanonicalizedToNonCanonical(db) ==
  {<<j[1].id, j[2].id>> : j \in {k \in Pages(db) \X Pages(db) :
     k[1].URL = k[2].Canonical /\ ~SelfCanonical(k[1]) /\ k[1].Crawled /\ k[2].Crawled}}
CanonicalizedToNonIndexable(db) ==
  {<<p.id>> : p \in {q \in Pages(db) :
     q.Noindex /\ \E r \in Pages(db) : r.URL = q.Canonical /\ ~SelfCanonical(r)}}

MultipageReporters(db) ==
  << <<"DuplicatedContent", DuplicatedContent(db)>>,
     <<"RedirectChain", RedirectChainsReporter(db)>>,
     <<"RedirectLoop", RedirectLoopsReporter(db)>>,
     <<"DuplicatedTitle", DuplicatedTitleReporter(db)>>,
     <<"DuplicatedDescription", DuplicatedDescriptionReporter(db)>>,
     <<"Orphan", OrphanPagesReporter(db)>>,
     <<"InternalNoFollowIndexable", NoFollowIndexableReporter(db)>>,
     <<"IncomingFollowNofollow", FollowNoFollowReporter(db)>>,
     <<"HreflangsReturnLink", MissingHrelangReturnLinks(db)>>,
     <<"HreflangToNonCanonical", HreflangsToNonCanonical(db)>>,
     <<"HreflangNoindexable", HreflangNoindexable(db)>>,
     <<"MultipleLangReference", MultipleLangReference(db)>>,
     <<"CanonicalizedToNonCanonical", CanonicalizedToNonCanonical(db)>>,
     <<"CanonicalizedToNonIndexable", CanonicalizedToNonIndexable(db)>> >>

\* What they send down the stream, reporter after reporter.
MultipageIssues(db) ==
  LET Of(r) == LET rows == Listed(r[2])
               IN  [i \in DOMAIN rows |-> [page |-> rows[i][1], error |-> r[1]]]
      all == MultipageReporters(db)
  IN  FlattenSeq([i \in DOMAIN all |-> Of(all[i])])

----------------------------------------------------------------------------
\* repository/pagereport.go.  The order of the ids stands for that of the URLs.
FindAllPageReportsByCrawlId(db) == db.pages
FindAllPageReportsByCrawlIdAndErrorType(db, error) ==
  SelectSeq(db.pages, LAMBDA p : \E i \in Range(db.issues) : i.page = p.id /\ i.error = error)
FindPageReportById(db, id) ==
  LET p == Report(db, id) IN p @@ [Nofollow |-> NofollowColumn(p)]

\* The tables of a page, as its tabs show them.
FindPageReportHreflangs(db, id) == OfPage(db.hreflangs, id)
FindPageReportImages(db, id) == OfPage(db.images, id)
FindPageReportIframes(db, id) == OfPage(db.iframes, id)
FindPageReportAudios(db, id) == OfPage(db.audios, id)
FindPageReportVideos(db, id) == OfPage(db.videos, id)
FindPageReportScripts(db, id) == OfPage(db.scripts, id)
FindPageReportStyles(db, id) == OfPage(db.styles, id)

\* The tabs of a page that are read in pages ask for LIMIT ?, ? without an
\* ORDER BY, so the database owes them no order, nor the same one for the next
\* page.  Assumed here: that of the ids, each time.
\* A link is listed if the crawl has a report of where it leads.
LinksListed(db, id) ==
  SelectSeq(OfPage(db.links, id), LAMBDA l : \E p \in Pages(db) : p.URL = l.URL)
FindLinks(db, id, n) == NthPage(LinksListed(db, id), n)
FindExternalLinks(db, id, n) == NthPage(OfPage(db.externals, id), n)
FindSitemapPageReports(db) ==
  SelectSeq(db.pages, LAMBDA p : OK200(p) /\ SelfCanonical(p) /\ p.Crawled)
FindPaginatedPageReports(db, n) == NthPage(SelectSeq(db.pages, LAMBDA p : p.Crawled), n)
GetNumberOfPagesForPageReport(db) ==
  PageCount(Cardinality({p \in Pages(db) : p.Crawled}))
Inlinks(db, u) == SelectSeq(db.links, LAMBDA l : l.URL = u /\ Report(db, l.page).Crawled)
FindInLinks(db, u, n) == NthPage(Inlinks(db, u), n)
FindPageReportsRedirectingToURL(db, u, n) ==
  NthPage(SelectSeq(db.pages, LAMBDA p : p.RedirectURL = u /\ p.Crawled), n)
GetNumberOfPagesForLinks(db, id) == PageCount(Len(OfPage(db.links, id)))
GetNumberOfPagesForExternalLinks(db, id) == PageCount(Len(OfPage(db.externals, id)))
GetNumberOfPagesForInlinks(db, u) ==
  PageCount(Cardinality({l \in LinksTo(db, u) : Report(db, l.page).Crawled}))
GetNumberOfPagesForRedirecting(db, u) ==
  PageCount(Cardinality({p \in Pages(db) : p.RedirectURL = u /\ p.Crawled}))

\* services/report.go: a page of a list, and the pages beside it.
Paginator(n, total) ==
  [TotalPages |-> total, CurrentPage |-> n,
   NextPage |-> IF n < total THEN n + 1 ELSE 0, PreviousPage |-> IF n > 1 THEN n - 1 ELSE 0]
OutOfBounds == [error |-> "page out of bounds"]
GetPaginatedReports(db, n) ==
  LET total == GetNumberOfPagesForPageReport(db)
  IN  IF n < 1 \/ (total > 0 /\ n > total) THEN OutOfBounds
      ELSE [Paginator |-> Paginator(n, total), PageReports |-> FindPaginatedPageReports(db, n)]

getPaginator(db, id, tab, n) ==
  LET p == Report(db, id)
      total == CASE tab = "internal"     -> GetNumberOfPagesForLinks(db, id)
                 [] tab = "external"     -> GetNumberOfPagesForExternalLinks(db, id)
                 [] tab = "inlinks"      -> GetNumberOfPagesForInlinks(db, p.URL)
                 [] tab = "redirections" -> GetNumberOfPagesForRedirecting(db, p.URL)
                 [] OTHER                -> 1
  IN  Paginator(n, total)
TabRows(db, id, tab, n) ==
  LET p == Report(db, id)
  IN  CASE tab = "internal"     -> FindLinks(db, id, n)
        [] tab = "external"     -> FindExternalLinks(db, id, n)
        [] tab = "inlinks"      -> FindInLinks(db, p.URL, n)
        [] tab = "redirections" -> FindPageReportsRedirectingToURL(db, p.URL, n)
        [] tab = "styles"       -> FindPageReportStyles(db, id)
        [] tab = "scripts"      -> FindPageReportScripts(db, id)
        [] tab = "videos"       -> FindPageReportVideos(db, id)
        [] tab = "audios"       -> FindPageReportAudios(db, id)
        [] tab = "iframes"      -> FindPageReportIframes(db, id)
        [] tab = "images"       -> FindPageReportImages(db, id)
        [] OTHER                -> <<>>
GetPageReport(db, id, tab, n) ==
  [PageReport |-> FindPageReportById(db, id) @@ [Hreflangs |-> FindPageReportHreflangs(db, id)],
   Tab |-> TabRows(db, id, tab, n), Paginator |-> getPaginator(db, id, tab, n)]
=============================================================================
