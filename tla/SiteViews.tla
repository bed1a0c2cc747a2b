------------------------------- MODULE SiteViews -------------------------------
(***************************************************************************)
(* The counts, charts and exports of a crawl (internal/repository/issue.go,*)
(* dashboard.go and export.go with the services above them), and its       *)
(* findings in the API (internal/repository/api_findings.go).              *)
(***************************************************************************)
EXTENDS SiteQueries

Critical == 1
Alert == 2
Warning == 3

\* The rows of issue_types, and the priority the migrations give each.
CriticalTypes ==
  {"30x", "40x", "50x", "RedirectChain", "RedirectLoop", "HTTPScheme", "Timeout"}
WarningTypes ==
  {"LittleContent", "NoLang", "TooManyLinks", "InternalNoFollow", "ExternalWithoutNoFollow",
   "NoIndexable", "HreflangNoindexable", "Blocked", "Orphan", "Deadend",
   "CanonicalizedToNonIndexable", "MissingHSTSHeader", "MissingCSP", "ContentTypeOptions",
   "LargeImage", "Depth", "ExternalLinkRedirect", "ExternalLinkBroken", "UnderscoreURL",
   "NoImageIndex", "Nosnippet", "ImgWithoutSize", "IncorrectMediaType", "DuplicatedId",
   "MissingViewportTag", "DOMSize"}
AlertTypes ==
  {"DuplicatedTitle", "DuplicatedDescription", "EmptyTitle", "ShortTitle", "LongTitle",
   "EmptyDescription", "ShortDescription", "LongDescription", "ImagesWithNoAlt", "NoH1",
   "HTTPLinks", "HreflangsReturnLink", "CanonicalizedToNonCanonical", "NotValidHeadings",
   "HreflangToNonCanonical", "InternalNoFollowIndexable", "SitemapNoIndex", "SitemapBlocked",
   "SitemapNonCanonical", "IncomingFollowNofollow", "InvalidLanguage", "HreflangToRedirect",
   "CanonicalizedToRedirect", "HreflangToError", "CanonicalizedToError", "MultipleCanonicalTags",
   "RelativeCanonicalURL", "HreflangMissingXDefault", "HreflangMissingSelfReference",
   "HreflangMismatchLang", "HreflangRelativeURL", "CanonicalMismatch", "LongAltText",
   "MultipleTitleTags", "MultipleDescriptionTags", "MultipleLangReference", "DuplicatedContent",
   "SlowTTFB", "FormOnHTTP", "InsecureForm", "SpaceURL", "MultipleSlashes", "MissingImgElement",
   "MetasInBody", "PaginationLink", "LocalhostLinks"}
IssueTypes == CriticalTypes \cup AlertTypes \cup WarningTypes
PriorityOf(type) ==
  IF type \in CriticalTypes THEN Critical ELSE IF type \in WarningTypes THEN Warning ELSE Alert

----------------------------------------------------------------------------
\* repository/issue.go
PagesWith(db, type) == {i.page : i \in {j \in Range(db.issues) : j.error = type}}
FindIssuesByTypeAndPriority(db, priority) ==
  {[type |-> t, count |-> Cardinality(PagesWith(db, t))] :
     t \in {s \in IssueTypes : PriorityOf(s) = priority /\ PagesWith(db, s) # {}}}
FindPassedIssues(db) == {[type |-> t, count |-> 0] : t \in {s \in IssueTypes : PagesWith(db, s) = {}}}
\* The rows, of a page that has an issue twice both.
CountIssuesByPriority(db, priority) ==
  Len(SelectSeq(db.issues, LAMBDA i : PriorityOf(i.error) = priority))
GetNumberOfPagesForIssues(db, type) == PageCount(Cardinality(PagesWith(db, type)))
FindPageReportIssues(db, type, n) ==
  NthPage(SelectSeq(db.pages, LAMBDA p : p.id \in PagesWith(db, type)), n)
FindErrorTypesByPage(db, id) == {i.error : i \in Range(OfPage(db.issues, id))}
\* services/issue.go
GetIssuesCount(db) ==
  FindIssuesByTypeAndPriority(db, Critical) \cup FindIssuesByTypeAndPriority(db, Alert)
    \cup FindIssuesByTypeAndPriority(db, Warning) \cup FindPassedIssues(db)
GetPaginatedReportsByIssue(db, type, n) ==
  LET total == GetNumberOfPagesForIssues(db, type)
  IN  IF n < 1 \/ n > total THEN OutOfBounds
      ELSE [Paginator |-> Paginator(n, total), PageReports |-> FindPageReportIssues(db, type, n)]

\* repository/dashboard.go
CountByCanonical(db) == Cardinality({p \in Pages(db) : OK200(p) /\ SelfCanonical(p)})
CountByNonCanonical(db) == Cardinality({p \in Pages(db) : OK200(p) /\ ~SelfCanonical(p)})
CountImagesAlt(db) ==
  LET without == Len(SelectSeq(db.images, LAMBDA i : i.Alt = ""))
  IN  [Alt |-> Len(db.images) - without, NonAlt |-> without]
\* Two schemes have a place: that of the last row that is not https remains.
CountScheme(db) ==
  LET Of(scheme) == Cardinality({p \in Pages(db) : ParsedURL[p.URL].scheme = scheme})
  IN  [HTTPS |-> Of("https"), HTTP |-> Of("http")]
CountList(db, Key(_)) ==
  LET crawled == {p \in Pages(db) : p.Crawled}
      items == {[key |-> k, value |-> Cardinality({p \in crawled : Key(p) = k})] :
                  k \in {Key(p) : p \in crawled}}
  IN  Sorted(items, LAMBDA i, j : i.value > j.value)
CountByMediaType(db) == CountList(db, LAMBDA p : p.MediaType)
CountByStatusCode(db) == CountList(db, LAMBDA p : p.StatusCode)
GetStatusCodeByDepth(db) ==
  LET At(d, low, high) ==
        Cardinality({p \in Pages(db) : p.Depth = d /\ p.StatusCode >= low /\ p.StatusCode <= high})
  IN  [d \in 1..8 |-> <<At(d, 0, 199), At(d, 200, 299), At(d, 300, 399), At(d, 400, 499),
                        At(d, 500, 999)>>]

Total(items) == FoldSeq(LAMBDA i, sum : i.value + sum, 0, items)
\* services/dashboard.go: the slices that do not fit add up to the last one.
newChart(items) ==
  IF Len(items) <= ChartLimit THEN items
  ELSE Append(SubSeq(items, 1, ChartLimit - 1),
              [key |-> "Other", value |-> Total(SubSeq(items, ChartLimit, Len(items)))])

----------------------------------------------------------------------------
\* repository/export.go: each row with the URL of its page.
Origin(db, r) == Report(db, r.page).URL
Exported(db, table, Columns(_)) ==
  [i \in DOMAIN table |-> <<Origin(db, table[i]), Columns(table[i])>>]
JustURL(r) == r.URL
ExportLinks(db) == Exported(db, db.links, JustURL)
ExportExternalLinks(db) == Exported(db, db.externals, JustURL)
ExportImages(db) == Exported(db, db.images, LAMBDA r : <<r.URL, r.Alt>>)
ExportScripts(db) == Exported(db, db.scripts, JustURL)
ExportStyles(db) == Exported(db, db.styles, JustURL)
ExportIframes(db) == Exported(db, db.iframes, JustURL)
ExportAudios(db) == Exported(db, db.audios, JustURL)
ExportVideos(db) == Exported(db, db.videos, LAMBDA r : <<r.URL, r.Poster>>)
ExportHreflangs(db) == Exported(db, db.hreflangs, LAMBDA r : <<r.URL, r.Lang>>)
ExportIssues(db) == Exported(db, db.issues, LAMBDA r : <<r.error, PriorityOf(r.error)>>)

\* services/export.go
ExportAllResources(db) ==
  LET Typed(type, rows) == [i \in DOMAIN rows |-> <<type>> \o rows[i]]
  IN  Typed("image", ExportImages(db)) \o Typed("script", ExportScripts(db))
        \o Typed("style", ExportStyles(db)) \o Typed("iframe", ExportIframes(db))
        \o Typed("audio", ExportAudios(db)) \o Typed("video", ExportVideos(db))

----------------------------------------------------------------------------
\* repository/api_findings.go: the rows of a list with their place in it.
ListIssues(db) ==
  {[after |-> i.id, row |-> <<Origin(db, i), <<i.error, PriorityOf(i.error)>>>>] :
     i \in Range(db.issues)}
SitemapEligible(p) == OK200(p) /\ SelfCanonical(p) /\ p.Crawled
ListPages(db) ==
  {[after |-> p.id, row |-> <<p.URL, NofollowColumn(p), SitemapEligible(p)>>] : p \in Pages(db)}
ListLinks(db) ==
  {[after |-> l.id * 2, row |-> <<"internal", Origin(db, l), l.URL>>] : l \in Range(db.links)}
    \cup {[after |-> l.id * 2 + 1, row |-> <<"external", Origin(db, l), l.URL>>] :
            l \in Range(db.externals)}
Resource(db, type) ==
  CASE type = "image"  -> <<0, db.images, ExportImages(db)>>
    [] type = "script" -> <<1, db.scripts, ExportScripts(db)>>
    [] type = "style"  -> <<2, db.styles, ExportStyles(db)>>
    [] type = "iframe" -> <<3, db.iframes, ExportIframes(db)>>
    [] type = "audio"  -> <<4, db.audios, ExportAudios(db)>>
    [] type = "video"  -> <<5, db.videos, ExportVideos(db)>>
ResourceTypes == {"image", "script", "style", "iframe", "audio", "video"}
resourceQuery(db, type) ==
  LET r == Resource(db, type)
  IN  {[after |-> r[2][i].id, row |-> <<type>> \o r[3][i]] : i \in DOMAIN r[2]}
ListAllResources(db) ==
  LET Of(type) == {[f EXCEPT !.after = 8 * @ + Resource(db, type)[1]] : f \in resourceQuery(db, type)}
  IN  UNION {Of(type) : type \in ResourceTypes}

\* A mutant of FindingPage: the cursor is at the row that was left out.
FindingPage_skips(findings, after, limit) ==
  LET rest == Sorted({f \in findings : f.after > after}, LAMBDA f, g : f.after < g.after)
      more == Len(rest) > limit
      items == IF more THEN SubSeq(rest, 1, limit) ELSE rest
  IN  [items |-> items, nextAfterID |-> IF more THEN rest[limit + 1].after ELSE 0]
\* A request asks for one row more than it gives, to know if there are more.
FindingPage(findings, after, limit) ==
  LET rest == Sorted({f \in findings : f.after > after}, LAMBDA f, g : f.after < g.after)
      more == Len(rest) > limit
      items == IF more THEN SubSeq(rest, 1, limit) ELSE rest
  IN  [items |-> items, nextAfterID |-> IF more THEN items[limit].after ELSE 0]

Findings(db, list) ==
  CASE list = "issues"    -> ListIssues(db)
    [] list = "pages"     -> ListPages(db)
    [] list = "links"     -> ListLinks(db)
    [] list = "resources" -> ListAllResources(db)
    [] OTHER              -> resourceQuery(db, list)
=============================================================================
