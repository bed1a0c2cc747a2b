------------------------------ MODULE SiteReports ------------------------------
(***************************************************************************)
(* What has to hold between the answers of a site, the rows they become,   *)
(* and what is shown of them.                                              *)
(***************************************************************************)
EXTENDS ResponseHandler

MultipageTypes == {r[1] : r \in Range(MultipageReporters(EmptyDB))}
InCallback == step \notin {"idle", "multi", "done"}
Settled(p) == p.URL \in answered /\ cur.p.URL # p.URL
PartsIntact == faults = work.faults \/ work.faulty \cap {"part", "prepare"} = {}
LostOf(p) == {i.error : i \in {j \in lost : j.page = p.id}}
Known(p) == FindErrorTypesByPage(db, p.id) \cup LostOf(p)

\* The page report that can be read back from the rows of a page.
Rebuilt(p) ==
  LET Tab(tab) == GetPageReport(db, p.id, tab, 1).Tab
  IN  GetPageReport(db, p.id, "details", 1).PageReport @@
      [Links |-> OfPage(db.links, p.id), ExternalLinks |-> OfPage(db.externals, p.id),
       InternalLinks |-> <<>>, Images |-> Tab("images"), Videos |-> Tab("videos"),
       Iframes |-> URLsOf(Tab("iframes")), Audios |-> URLsOf(Tab("audios")),
       Scripts |-> URLsOf(Tab("scripts")), Styles |-> URLsOf(Tab("styles")),
       Timeout |-> TimedOut(Answer(p.URL))]

----------------------------------------------------------------------------
\* crawler_handler.go:201, issue.go:18: the rows say what the reporters said.
\* What can be read back of a page is enough to find the same issues in it,
\* and each is a row unless the database refused it; the comparisons of the
\* pages see all pages.
IssuesComplete ==
  PartsIntact =>
    /\ \A p \in Pages(db) :
         Settled(p) => Known(p) \ MultipageTypes = PageIssues(Rebuilt(p), Answer(p.URL))
    /\ step = "done" =>
         \A r \in Range(MultipageReporters(db)), p \in Pages(db) :
           r[1] \in Known(p) <=> \E row \in r[2] : row[1] = p.id

\* What the comments of their reporters ask for a page that was found, and for
\* one that was not.
OfFound == {"EmptyTitle", "DuplicatedTitle", "EmptyDescription", "DuplicatedDescription",
            "LittleContent", "Deadend", "TooManyLinks", "HTTPLinks"}
Elsewhere == {"30x", "40x", "50x"}
\* What a page has that leads out of the site or over it.
OfLinks == {"TooManyLinks", "HTTPLinks", "ExternalWithoutNoFollow", "ExternalLinkRedirect",
            "ExternalLinkBroken", "LocalhostLinks"}
\* Issues that are not of the same page, whoever found them.
Opposed ==
  (Elsewhere \X OfFound) \cup ({"Deadend"} \X OfLinks) \cup
  {<<"EmptyTitle", "DuplicatedTitle">>, <<"EmptyDescription", "DuplicatedDescription">>,
   <<"Orphan", "IncomingFollowNofollow">>}
\* Issues that come with another one.
Implied ==
  {<<"RedirectLoop", "RedirectChain">>, <<"SitemapNoIndex", "NoIndexable">>,
   <<"SitemapBlocked", "Blocked">>}

\* What is the same in the pages of an issue.
Same(p) == [DuplicatedTitle |-> <<p.Title, p.Lang>>,
            DuplicatedDescription |-> <<p.Description, p.Lang>>, DuplicatedContent |-> p.BodyHash]
NotAlone(p, issue) ==
  \E q \in Pages(db) \ {p} : issue \in Known(q) /\ Same(q)[issue] = Same(p)[issue]
\* The page that p redirects to is redirected too, and shows p among those
\* that redirect to it.
RedirectedOn(p) ==
  \E q \in Pages(db) :
    /\ q.URL = p.RedirectURL /\ q.RedirectURL # ""
    /\ \E n \in 1..Cardinality(Pages(db)) :
         p \in Range(GetPageReport(db, q.id, "redirections", n).Tab)
\* It is redirected to p, and in the same loop.
RedirectedBack(p) ==
  \E q \in Pages(db) :
    q.URL = p.RedirectURL /\ q.RedirectURL = p.URL /\ "RedirectLoop" \in Known(q)
NothingIn(p, tab) == GetPageReport(db, p.id, tab, 1).Tab = <<>>

\* reporters.go of page and multipage: the reporters agree on what their
\* comments say, those that saw the answer and those that query the rows, on
\* a page, on the pages it is compared with, and with what is shown of it,
\* also when rows are missing.
ReportersAgree ==
  \A p \in Pages(db) :
    /\ \A o \in Opposed : ~({o[1], o[2]} \subseteq Known(p))
    /\ p.StatusCode = 0 => Known(p) \cap (OfFound \cup Elsewhere) = {}
    /\ "Deadend" \in Known(p) => NothingIn(p, "internal") /\ NothingIn(p, "external")
    /\ step = "done" =>
         /\ \A i \in Implied : i[1] \in Known(p) => i[2] \in Known(p)
         /\ \A issue \in DOMAIN Same(p) \cap Known(p) : NotAlone(p, issue)
         /\ "RedirectChain" \in Known(p) => RedirectedOn(p)
         /\ "RedirectLoop" \in Known(p) => RedirectedBack(p)
         /\ "Orphan" \in Known(p) => NothingIn(p, "inlinks")

\* crawler_handler.go:286: between two answers the totals of the crawl are
\* those of its reports, of the saved ones and of those without a row.
CountersMatchRows ==
  LET Reports(Test(_)) ==
        Cardinality({p.URL : p \in {q \in Pages(db) \cup Range(unsaved) : Test(q)}})
      Left(part(_)) == FoldSeq(LAMBDA p, n : n + part(p), 0, unsaved)
      NoFollow(p, l) == l.NoFollow \/ NofollowColumn(p)
      NoFollowRows(table) ==
        Cardinality({l \in Range(table) : NoFollow(Report(db, l.page), l)})
      NoFollowLeft(p) == Len(SelectSeq(p.Links, LAMBDA l : NoFollow(p, l)))
      NoFollowLeftOut(p) == Len(SelectSeq(p.ExternalLinks, LAMBDA l : NoFollow(p, l)))
  IN  ~InCallback =>
        /\ crawl.TotalURLs = Reports(LAMBDA p : p.URL \in answered)
        /\ crawl.Noindex = Reports(LAMBDA p : p.Noindex)
        /\ crawl.BlockedByRobotstxt = Reports(LAMBDA p : p.BlockedByRobotstxt)
        /\ step = "done" => crawl.TotalIssues = Len(db.issues)
        /\ PartsIntact =>
             /\ crawl.InternalFollowLinks + crawl.InternalNoFollowLinks
                  = Len(db.links) + Left(LAMBDA p : Len(p.Links))
             /\ crawl.InternalNoFollowLinks = NoFollowRows(db.links) + Left(NoFollowLeft)
             /\ crawl.ExternalFollowLinks + crawl.ExternalNoFollowLinks
                  = Len(db.externals) + Left(LAMBDA p : Len(p.ExternalLinks))
             /\ crawl.ExternalNoFollowLinks = NoFollowRows(db.externals) + Left(NoFollowLeftOut)

\* api_findings.go: the lists of findings grow, and are read, as FindingsCursor
\* says, so a client that follows the cursors while the crawl writes gets no
\* row twice and every row there was when it began.
Cursor == INSTANCE FindingsCursor WITH
            List <- Lists, Merged <- {"links", "resources"},
            found <- [l \in Lists |-> Findings(db, l)],
            reading <- reader.list # "none", list <- reader.list, cursor <- reader.after,
            got <- Range(reader.got), given <- Len(reader.got),
            base <- reader.base, done <- reader.done
CursorSpec == Cursor!Spec
ASSUME FindingsAssumption == Cursor!CursorAssumption

\* A paginated list, read from its first page by the links to the next one;
\* nothing at all if there is no first page.
MaxPages == 60
ReadThrough(Page(_)) ==
  LET Rest[n \in 1..MaxPages] == Page(n).rows \o IF Page(n).next = 0 THEN <<>> ELSE Rest[Page(n).next]
  IN  Rest[1]
Shown(view) ==
  IF view = OutOfBounds THEN [rows |-> <<>>, next |-> 0]
  ELSE [rows |-> view.PageReports, next |-> view.Paginator.NextPage]

\* services/report.go, issue.go, dashboard.go and the exports: what is shown
\* of a finished crawl agrees with itself.  The pages of a list are the whole
\* list, each type of issue is in one group, the charts add up, an export has
\* what the API has, and the sitemap the pages the API calls eligible.
ViewsAgree ==
  step = "done" =>
    /\ ReadThrough(LAMBDA n : Shown(GetPaginatedReports(db, n)))
         = SelectSeq(db.pages, LAMBDA p : p.Crawled)
    /\ \A t \in IssueTypes :
         ReadThrough(LAMBDA n : Shown(GetPaginatedReportsByIssue(db, t, n)))
           = FindAllPageReportsByCrawlIdAndErrorType(db, t)
    /\ GetIssuesCount(db) =
         {[type |-> t, count |-> Len(FindAllPageReportsByCrawlIdAndErrorType(db, t))] : t \in IssueTypes}
    /\ \A p \in Pages(db) :
         LET Tab(tab, n) == GetPageReport(db, p.id, tab, n)
             Of(view) == [rows |-> view.Tab, next |-> view.Paginator.NextPage]
             All(tab) == ReadThrough(LAMBDA n : Of(Tab(tab, n)))
         IN  /\ All("internal") = LinksListed(db, p.id)
             /\ All("external") = OfPage(db.externals, p.id)
             /\ All("inlinks") = Inlinks(db, p.URL)
             /\ Range(All("redirections")) = {q \in Pages(db) : q.RedirectURL = p.URL /\ q.Crawled}
    /\ CountByCanonical(db) + CountByNonCanonical(db) = Cardinality({p \in Pages(db) : OK200(p)})
    /\ CountImagesAlt(db).NonAlt <= Len(db.images)
    /\ CountScheme(db).HTTPS + CountScheme(db).HTTP = Len(db.pages)
    /\ \A n \in 1..2 :
         LET chart == newChart(<<CountByMediaType(db), CountByStatusCode(db)>>[n]) IN
         /\ Total(chart) = Cardinality({p \in Pages(db) : p.Crawled})
         /\ Len(chart) <= ChartLimit
    /\ \A d \in 1..8 : FoldSeq(LAMBDA n, sum : n + sum, 0, GetStatusCodeByDepth(db)[d])
                         = Cardinality({p \in Pages(db) : p.Depth = d})
    /\ {p.URL : p \in Range(FindSitemapPageReports(db))}
         = {f.row[1] : f \in {g \in ListPages(db) : g.row[3]}}
    /\ Len(FindAllPageReportsByCrawlId(db)) = Cardinality(ListPages(db))
    /\ Range(ExportIssues(db)) = {f.row : f \in ListIssues(db)}
    /\ Range(ExportAllResources(db)) = {f.row : f \in ListAllResources(db)}
    /\ {<<l[1], l[2]>> : l \in Range(ExportLinks(db)) \cup Range(ExportExternalLinks(db))}
         = {<<f.row[2], f.row[3]>> : f \in ListLinks(db)}
    /\ {<<h[1], h[2][1]>> : h \in Range(ExportHreflangs(db))}
         = {<<Origin(db, h), h.URL>> : h \in Range(db.hreflangs)}

\* issues/page/links.go:38: the reporter of links that are not followed
\* "returns true if the media type is text/html, the status code is between
\* 200 and 299 and the page's html contains internal links with the nofollow
\* attribute".
NofollowLinksReported ==
  step = "done" =>
    \A p \in Pages(db) :
      Page200(p) /\ (\E l \in Range(OfPage(db.links, p.id)) : l.NoFollow)
        => "InternalNoFollow" \in Known(p)
=============================================================================
