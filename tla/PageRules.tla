------------------------------ MODULE PageRules ------------------------------
(***************************************************************************)
(* The reporters that look at one page (internal/issues/page).  Each one   *)
(* is a predicate of the page report p, and of the answer a where the      *)
(* reporter reads the document or the headers itself.                      *)
(***************************************************************************)
EXTENDS PageParser

CrawledHTML(p) == p.Crawled /\ p.MediaType = "text/html"
Success(p) == p.StatusCode >= 200 /\ p.StatusCode < 300
Redirected(p) == p.StatusCode >= 300 /\ p.StatusCode < 400
\* The guard of eight reporters: no status is below 200 and above 299.
NotSuccessGuard(p) == p.StatusCode < 200 /\ p.StatusCode >= 300
Page200(p) == CrawledHTML(p) /\ Success(p)
PageAny(p) == CrawledHTML(p) /\ ~NotSuccessGuard(p)

\* What the reporters see of the document: the body of a redirect and of
\* an error is a document too, a request that failed left none.
Document(p, a) == IF p.Timeout \/ a.size = 0 THEN EmptyAnswer ELSE a
Header(p, a) == IF a.err = "request" THEN EmptyAnswer ELSE a

AnyOf(s, Test(_)) == \E i \in DOMAIN s : Test(s[i])

----------------------------------------------------------------------------
\* status.go
Status30x(p) == p.Crawled /\ Redirected(p)
Status40x(p) == p.Crawled /\ p.StatusCode >= 400 /\ p.StatusCode < 500
Status50x(p) == p.Crawled /\ p.StatusCode >= 500

\* title.go
EmptyTitle(p) == Page200(p) /\ p.Title = ""
ShortTitle(p) == CrawledHTML(p) /\ Length[p.Title] > 0 /\ Length[p.Title] < 20
LongTitle(p) == CrawledHTML(p) /\ Length[p.Title] > 60
MultipleTitleTags(p, a) == CrawledHTML(p) /\ Len(Document(p, a).titles) > 1

\* description.go
EmptyDescription(p) == Page200(p) /\ p.Description = ""
ShortDescription(p) == Page200(p) /\ Length[p.Description] > 0 /\ Length[p.Description] < 80
LongDescription(p) == Page200(p) /\ Length[p.Description] > 160
MultipleDescriptionTags(p, a) == CrawledHTML(p) /\ Len(Document(p, a).descriptions) > 1

\* indexability.go
NoIndexable(p) == p.Noindex
BlockedByRobotstxt(p) == p.BlockedByRobotstxt
NoIndexInSitemap(p) == p.InSitemap /\ p.Noindex
SitemapAndBlocked(p) == p.InSitemap /\ p.BlockedByRobotstxt
NonCanonicalInSitemap(p) == CrawledHTML(p) /\ p.Canonical \notin {"", p.URL}
MetasInBody(p, a) == CrawledHTML(p) /\ Document(p, a).bodyMetas > 0
Nosnippet(p) == CrawledHTML(p) /\ p.Robots \cap {"nosnippet", "max-snippet:0"} # {}

\* canonical.go.  The last canonical of the header is compared.
CanonicalMultipleTags(p, a) == PageAny(p) /\ Len(Document(p, a).canonicals) > 1
CanonicalRelativeURL(p, a) ==
  /\ PageAny(p)
  /\ Document(p, a).canonicals # <<>>
  /\ ~Document(p, a).canonicals[1].abs
CanonicalMismatch(p, a) ==
  LET tags == Document(p, a).canonicals
      headers == Header(p, a).headCanonicals
  IN  /\ PageAny(p)
      /\ tags # <<>>
      /\ headers # <<>>
      /\ tags[1] # headers[Len(headers)]

\* depth.go
Depth(p) == p.MediaType = "text/html" /\ Success(p) /\ p.Depth > 4

\* links.go
TooManyLinks(p) == Page200(p) /\ Len(p.Links) > 100
InternalNoFollowLinks(p) ==
  /\ Page200(p)
  /\ \/ p.Nofollow /\ p.InternalLinks # <<>>
     \/ AnyOf(p.InternalLinks, LAMBDA l : l.NoFollow)
ExternalLinkWitoutNoFollow(p) ==
  Page200(p) /\ ~p.Nofollow /\ AnyOf(p.ExternalLinks, LAMBDA l : ~l.NoFollow)
HTTPLinks(p) == Page200(p) /\ AnyOf(p.Links, LAMBDA l : ParsedURL[l.URL].scheme = "http")
Deadend(p) == Page200(p) /\ Len(p.Links) + Len(p.ExternalLinks) = 0
ExternalLinkRedirect(p) ==
  CrawledHTML(p) /\ AnyOf(p.ExternalLinks, LAMBDA l : l.StatusCode >= 300 /\ l.StatusCode <= 399)
ExternalLinkBroken(p) ==
  CrawledHTML(p) /\ AnyOf(p.ExternalLinks, LAMBDA l : l.StatusCode < 0 \/ l.StatusCode > 399)
IsLocalhost(u) == ParsedURL[u].host \in {"localhost", "127.0.0.1"}
LocalhostLinks(p) ==
  CrawledHTML(p) /\ ~IsLocalhost(p.URL) /\ AnyOf(p.ExternalLinks, LAMBDA l : IsLocalhost(l.URL))

\* images.go
AltText(p) == CrawledHTML(p) /\ AnyOf(p.Images, LAMBDA i : i.Alt = "")
LongAltText(p) == CrawledHTML(p) /\ AnyOf(p.Images, LAMBDA i : Length[i.Alt] > 100)
LargeImage(p) == p.MediaType \in {"image/png", "image/jpeg"} /\ p.Size > 500000
NoImageIndex(p) == CrawledHTML(p) /\ "noimageindex" \in p.Robots
MissingImgTagInPicture(p, a) ==
  CrawledHTML(p) /\ AnyOf(Document(p, a).pictures, LAMBDA i : i.alts = <<>>)
ImgWithoutSize(p, a) == CrawledHTML(p) /\ AnyOf(Document(p, a).images, LAMBDA i : ~i.sized)

\* language.go.  A language is a name; those that do not parse are "xx-invalid".
InvalidLang(p) == CrawledHTML(p) /\ ~Redirected(p) /\ p.Lang = "xx-invalid"
MissingLang(p) == CrawledHTML(p) /\ ~Redirected(p) /\ p.Lang = ""

\* hreflangs.go
HreflangXDefaultMissing(p) ==
  CrawledHTML(p) /\ p.Hreflangs # <<>> /\ ~AnyOf(p.Hreflangs, LAMBDA h : h.Lang = "x-default")
HreflangMissingSelfReference(p) ==
  CrawledHTML(p) /\ p.Hreflangs # <<>> /\ ~AnyOf(p.Hreflangs, LAMBDA h : h.URL = p.URL)
HreflangMismatchingLang(p) ==
  /\ CrawledHTML(p)
  /\ p.Lang # ""
  /\ AnyOf(p.Hreflangs, LAMBDA h : h.URL = p.URL /\ h.Lang \notin {"x-default", p.Lang})
HreflangRelativeURL(p, a) ==
  CrawledHTML(p) /\ AnyOf(Document(p, a).hreflangs, LAMBDA h : ~h.href.abs)

\* headings.go.  A heading may be at most one level below the one before it.
NoH1(p) == PageAny(p) /\ p.H1 = ""
ValidHeadingsOrder(p, a) ==
  LET levels == <<1>> \o Document(p, a).headings
  IN  PageAny(p) /\ \E i \in 1..(Len(levels) - 1) : levels[i + 1] > levels[i] + 1

\* content.go.  Without an extension a path is taken for HTML.
LittleContent(p) == Page200(p) /\ p.Words < 200
TypesOf(extension) ==
  CASE extension \in {"", ".html"} -> {"text/html"}
    [] extension = ".js"           -> {"application/javascript", "text/javascript"}
    [] extension = ".png"          -> {"image/png"}
    [] OTHER                       -> {}
IncorrectMediaType(p) ==
  LET types == TypesOf(ParsedURL[p.URL].ext)
  IN  p.MediaType = "" \/ (types # {} /\ p.MediaType \notin types)
DuplicatedId(p, a) == Page200(p) /\ ~IsInjective(SelectSeq(Document(p, a).ids, LAMBDA i : i # ""))
DOMSize(p, a) == Page200(p) /\ Document(p, a).nodes > 1500

\* pagination.go
Pagination(p, a) ==
  /\ CrawledHTML(p)
  /\ ~Redirected(p)
  /\ AnyOf(Document(p, a).pagination,
           LAMBDA h : AbsoluteURL(h) # "" /\ ~AnyOf(p.Links, LAMBDA l : l.URL = h.url))

\* scheme.go, security.go, timeout.go, url.go, ttfb.go
HTTPScheme(p) == p.Crawled /\ Success(p) /\ ParsedURL[p.URL].scheme = "http"
MissingHSTSHeader(p, a) == Header(p, a).hsts \in {"", "max-age=never"}
MissingCSP(p, a) == p.MediaType = "text/html" /\ ~Document(p, a).cspMeta /\ ~Header(p, a).csp
MissingContentTypeOptions(p, a) == p.MediaType = "text/html" /\ ~Header(p, a).nosniff
Timeout(p) == p.Timeout
UnderscoreURL(p) == "_" \in ParsedURL[p.URL].marks
SpaceURL(p) == " " \in ParsedURL[p.URL].marks
MultipleSlashes(p) == "//" \in ParsedURL[p.URL].marks
SlowTTFB(p) == p.TTFB > 800

\* form.go, viewport.go
FormOnHTTP(p, a) ==
  ParsedURL[p.URL].scheme # "https" /\ PageAny(p) /\ Document(p, a).forms # <<>>
InsecureForm(p, a) == PageAny(p) /\ AnyOf(Document(p, a).forms, LAMBDA scheme : scheme = "http")
ViewportTag(p, a) == PageAny(p) /\ Document(p, a).viewport = ""

----------------------------------------------------------------------------
\* GetAllReporters, each with what it says of the page.
GetAllReporters(p, a) ==
  { <<"30x", Status30x(p)>>, <<"40x", Status40x(p)>>, <<"50x", Status50x(p)>>,
    <<"EmptyTitle", EmptyTitle(p)>>, <<"ShortTitle", ShortTitle(p)>>,
    <<"LongTitle", LongTitle(p)>>, <<"MultipleTitleTags", MultipleTitleTags(p, a)>>,
    <<"EmptyDescription", EmptyDescription(p)>>, <<"ShortDescription", ShortDescription(p)>>,
    <<"LongDescription", LongDescription(p)>>,
    <<"MultipleDescriptionTags", MultipleDescriptionTags(p, a)>>,
    <<"NoIndexable", NoIndexable(p)>>, <<"Blocked", BlockedByRobotstxt(p)>>,
    <<"SitemapNoIndex", NoIndexInSitemap(p)>>, <<"SitemapBlocked", SitemapAndBlocked(p)>>,
    <<"SitemapNonCanonical", NonCanonicalInSitemap(p)>>,
    <<"MultipleCanonicalTags", CanonicalMultipleTags(p, a)>>,
    <<"RelativeCanonicalURL", CanonicalRelativeURL(p, a)>>,
    <<"CanonicalMismatch", CanonicalMismatch(p, a)>>, <<"Depth", Depth(p)>>,
    <<"Nosnippet", Nosnippet(p)>>, <<"MetasInBody", MetasInBody(p, a)>>,
    <<"TooManyLinks", TooManyLinks(p)>>, <<"InternalNoFollow", InternalNoFollowLinks(p)>>,
    <<"ExternalWithoutNoFollow", ExternalLinkWitoutNoFollow(p)>>,
    <<"HTTPLinks", HTTPLinks(p)>>, <<"Deadend", Deadend(p)>>,
    <<"ExternalLinkRedirect", ExternalLinkRedirect(p)>>,
    <<"ExternalLinkBroken", ExternalLinkBroken(p)>>, <<"LocalhostLinks", LocalhostLinks(p)>>,
    <<"ImagesWithNoAlt", AltText(p)>>, <<"LongAltText", LongAltText(p)>>,
    <<"LargeImage", LargeImage(p)>>, <<"NoImageIndex", NoImageIndex(p)>>,
    <<"MissingImgElement", MissingImgTagInPicture(p, a)>>,
    <<"ImgWithoutSize", ImgWithoutSize(p, a)>>, <<"InvalidLanguage", InvalidLang(p)>>,
    <<"NoLang", MissingLang(p)>>, <<"HreflangMissingXDefault", HreflangXDefaultMissing(p)>>,
    <<"HreflangMissingSelfReference", HreflangMissingSelfReference(p)>>,
    <<"HreflangMismatchLang", HreflangMismatchingLang(p)>>,
    <<"HreflangRelativeURL", HreflangRelativeURL(p, a)>>, <<"NoH1", NoH1(p)>>,
    <<"NotValidHeadings", ValidHeadingsOrder(p, a)>>, <<"LittleContent", LittleContent(p)>>,
    <<"IncorrectMediaType", IncorrectMediaType(p)>>, <<"DuplicatedId", DuplicatedId(p, a)>>,
    <<"DOMSize", DOMSize(p, a)>>, <<"PaginationLink", Pagination(p, a)>>,
    <<"HTTPScheme", HTTPScheme(p)>>, <<"MissingHSTSHeader", MissingHSTSHeader(p, a)>>,
    <<"MissingCSP", MissingCSP(p, a)>>,
    <<"ContentTypeOptions", MissingContentTypeOptions(p, a)>>, <<"Timeout", Timeout(p)>>,
    <<"UnderscoreURL", UnderscoreURL(p)>>, <<"SpaceURL", SpaceURL(p)>>,
    <<"MultipleSlashes", MultipleSlashes(p)>>, <<"SlowTTFB", SlowTTFB(p)>>,
    <<"FormOnHTTP", FormOnHTTP(p, a)>>, <<"InsecureForm", InsecureForm(p, a)>>,
    <<"MissingViewportTag", ViewportTag(p, a)>> }

\* The errors the reporters find in a page.
PageIssues(p, a) == {r[1] : r \in {s \in GetAllReporters(p, a) : s[2]}}
=============================================================================
