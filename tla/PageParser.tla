------------------------------ MODULE PageParser ------------------------------
(***************************************************************************)
(* From an answer of a server to a PageReport                              *)
(* (internal/services/html_parser.go and parser.go).                       *)
(*                                                                         *)
(* An answer is a record: what the request and the body came to, the       *)
(* headers, and the elements of the document in document order.  A URL or  *)
(* a text is a name; "" is the empty one.  What of a URL or a text matters *)
(* is in ParsedURL and Length.  An attribute that holds a URL is an Href:  *)
(* the URL it leads to and whether it is written in full; an empty         *)
(* attribute leads to the page itself.                                     *)
(***************************************************************************)
EXTENDS Integers, Sequences, FiniteSets, SequencesExt

CONSTANTS
  ParsedURL,   \* of each URL: its scheme, host, marks in its text, extension
  Length,      \* of each text: its bytes
  MediaTypeOf  \* of each Content-Type: its media type, "" if it cannot be parsed

NoHref == [url |-> "", abs |-> FALSE]

\* An answer with nothing in it: what the others are made from.
EmptyAnswer ==
  [err |-> "none", status |-> 200, contentType |-> "", size |-> 0, contentLength |-> 0, ttfb |-> 0,
   location |-> NoHref, headLang |-> "", headRobots |-> {}, headCanonicals |-> <<>>,
   headHreflangs |-> <<>>, hsts |-> "", csp |-> FALSE, nosniff |-> FALSE,
   htmlLang |-> "", titles |-> <<>>, descriptions |-> <<>>, refresh |-> "", refreshTo |-> NoHref,
   metaRobots |-> {}, h1s |-> <<>>, h2s |-> <<>>, headings |-> <<>>, canonicals |-> <<>>,
   hreflangs |-> <<>>, anchors |-> <<>>, images |-> <<>>, pictures |-> <<>>, iframes |-> <<>>,
   audios |-> <<>>, videos |-> <<>>, scripts |-> <<>>, styles |-> <<>>, preloads |-> <<>>,
   css |-> <<>>, pagination |-> <<>>, words |-> 0, body |-> "", ids |-> <<>>, nodes |-> 0,
   bodyMetas |-> 0, forms |-> <<>>, viewport |-> "", cspMeta |-> FALSE]

\* A PageReport of which only the URL is known.
EmptyReport(u) ==
  [URL |-> u, RedirectURL |-> "", StatusCode |-> 0, MediaType |-> "", ContentType |-> "",
   Lang |-> "", Title |-> "", Description |-> "", Refresh |-> "", Robots |-> {},
   Noindex |-> FALSE, Nofollow |-> FALSE, Canonical |-> "", H1 |-> "", H2 |-> "",
   Links |-> <<>>, ExternalLinks |-> <<>>, InternalLinks |-> <<>>, Words |-> 0,
   Hreflangs |-> <<>>, Size |-> 0, Images |-> <<>>, Scripts |-> <<>>, Styles |-> <<>>,
   Iframes |-> <<>>, Audios |-> <<>>, Videos |-> <<>>, BlockedByRobotstxt |-> FALSE,
   Crawled |-> FALSE, InSitemap |-> FALSE, Depth |-> 0, BodyHash |-> "", Timeout |-> FALSE,
   TTFB |-> 0]

----------------------------------------------------------------------------
\* The first of the elements that match, or nothing.
First(s, none) == IF s = <<>> THEN none ELSE s[1]

\* urlutils.AbsoluteURL: "" for the URLs it refuses.
AbsoluteURL(h) ==
  IF h.url # "" /\ ParsedURL[h.url].scheme \in {"http", "https"} THEN h.url ELSE ""

\* The URLs of the attributes that have a usable one.
Usable(hrefs) ==
  LET resolved == [i \in DOMAIN hrefs |-> AbsoluteURL(hrefs[i])]
  IN  SelectSeq(resolved, LAMBDA u : u # "")

\* Without a Location a redirect leads to the page itself.
headersLocation(u, a) == IF a.location = NoHref THEN u ELSE AbsoluteURL(a.location)

lang(a) == IF a.htmlLang # "" THEN a.htmlLang ELSE a.headLang
robots(a) == IF a.metaRobots # {} THEN a.metaRobots ELSE a.headRobots

htmlTitle(a) == First(a.titles, "")
htmlMetaDescription(a) == First(a.descriptions, "")
htmlH1(a) == First(a.h1s, "")
htmlH2(a) == First(a.h2s, "")

\* What follows the delay in a meta refresh is cut at its fourth character
\* without a look at its length.
RefreshPanics(a) == a.refresh = "short"
htmlMetaRefreshURL(a) == IF a.refresh = "url" THEN AbsoluteURL(a.refreshTo) ELSE ""

\* More than one canonical tag counts as none, and the header is asked.
htmlCanonical(a) == IF Len(a.canonicals) = 1 THEN AbsoluteURL(a.canonicals[1]) ELSE ""
headersCanonical(a) == AbsoluteURL(First(a.headCanonicals, NoHref))
canonical(a) == IF htmlCanonical(a) # "" THEN htmlCanonical(a) ELSE headersCanonical(a)

\* Those of the tags are made absolute, those of the header are taken as written.
htmlHreflang(a) ==
  LET tags == SelectSeq(a.hreflangs, LAMBDA h : h.lang # "none" /\ AbsoluteURL(h.href) # "")
  IN  [i \in DOMAIN tags |-> [URL |-> tags[i].href.url, Lang |-> tags[i].lang]]
headersHreflangs(a) ==
  LET links == SelectSeq(a.headHreflangs, LAMBDA h : h.lang # "")
  IN  [i \in DOMAIN links |-> [URL |-> links[i].href.url, Lang |-> links[i].lang]]
hreflangs(a) == IF htmlHreflang(a) # <<>> THEN htmlHreflang(a) ELSE headersHreflangs(a)

\* An image counts once for its src and once for each source of its srcset,
\* and not at all without a usable src.
htmlImages(a) ==
  LET Of(i) == [n \in DOMAIN Usable(i.srcset) |-> [URL |-> Usable(i.srcset)[n], Alt |-> i.alt]]
      All(i) == IF AbsoluteURL(i.src) = "" THEN <<>>
                ELSE <<[URL |-> AbsoluteURL(i.src), Alt |-> i.alt]>> \o Of(i)
  IN  FlattenSeq([i \in DOMAIN a.images |-> All(a.images[i])])
\* The sources of a picture take the alt of its first image.
htmlPictures(a) ==
  LET Of(p) == IF p.alts = <<>> THEN <<>>
               ELSE [n \in DOMAIN Usable(p.sources) |->
                       [URL |-> Usable(p.sources)[n], Alt |-> p.alts[1]]]
  IN  FlattenSeq([i \in DOMAIN a.pictures |-> Of(a.pictures[i])])

htmlIframes(a) == Usable(a.iframes)
htmlScripts(a) == Usable(a.scripts)
htmlStyles(a) == Usable(a.styles)
\* The src of an element, then those of its sources.
Media(m) == Usable(<<m.src>> \o m.sources)
htmlAudios(a) == FlattenSeq([i \in DOMAIN a.audios |-> Media(a.audios[i])])
htmlVideos(a) ==
  LET Of(m) == [n \in DOMAIN Media(m) |-> [URL |-> Media(m)[n], Poster |-> AbsoluteURL(m.poster)]]
  IN  FlattenSeq([i \in DOMAIN a.videos |-> Of(a.videos[i])])

newLink(u, l) ==
  [URL |-> l.href.url, NoFollow |-> "nofollow" \in l.rel, Sponsored |-> "sponsored" \in l.rel,
   UGC |-> "ugc" \in l.rel, StatusCode |-> 0,
   External |-> ParsedURL[l.href.url].host # ParsedURL[u].host]
htmlLinks(u, a) ==
  LET usable == SelectSeq(a.anchors, LAMBDA l : AbsoluteURL(l.href) # "")
  IN  [i \in DOMAIN usable |-> newLink(u, usable[i])]

----------------------------------------------------------------------------
isHTML(a) ==
  a.contentType \in {"text/html", "text/html, text/html", "application/xhtml+xml"}

Redirects(a) == a.status >= 300 /\ a.status < 400

\* A redirect is read no further than its Location, and a document only if
\* its Content-Type says HTML and it has a size, or a length if it came
\* without a body (a HEAD, which no request of a crawl is): then there are
\* its headers only, and the hash of nothing.
NewHTMLParser(u, a) ==
  LET size == IF a.size = 0 /\ a.contentLength > 0 THEN a.contentLength ELSE a.size
      base == [EmptyReport(u) EXCEPT !.StatusCode = a.status, !.ContentType = a.contentType,
                 !.Size = size, !.MediaType = MediaTypeOf[a.contentType]]
      links == htmlLinks(u, a)
  IN  CASE Redirects(a) -> [base EXCEPT !.RedirectURL = headersLocation(u, a)]
        [] ~Redirects(a) /\ ~(isHTML(a) /\ size > 0) -> base
        [] ~Redirects(a) /\ isHTML(a) /\ size > 0 /\ a.size = 0 ->
             [base EXCEPT
                !.Lang = a.headLang, !.Canonical = headersCanonical(a),
                !.Hreflangs = headersHreflangs(a), !.Robots = a.headRobots,
                !.Noindex = a.headRobots \cap {"noindex", "none"} # {},
                !.Nofollow = a.headRobots \cap {"nofollow", "none"} # {},
                !.BodyHash = "nothing"]
        [] OTHER ->
             [base EXCEPT
                !.Lang = lang(a), !.Title = htmlTitle(a), !.Description = htmlMetaDescription(a),
                !.Refresh = a.refresh, !.RedirectURL = htmlMetaRefreshURL(a),
                !.Robots = robots(a), !.Noindex = robots(a) \cap {"noindex", "none"} # {},
                !.Nofollow = robots(a) \cap {"nofollow", "none"} # {},
                !.H1 = htmlH1(a), !.H2 = htmlH2(a), !.Canonical = canonical(a),
                !.Hreflangs = hreflangs(a), !.Images = htmlImages(a) \o htmlPictures(a),
                !.Iframes = htmlIframes(a), !.Audios = htmlAudios(a), !.Videos = htmlVideos(a),
                !.Scripts = htmlScripts(a), !.Styles = htmlStyles(a),
                !.ExternalLinks = SelectSeq(links, LAMBDA l : l.External),
                !.Links = SelectSeq(links, LAMBDA l : ~l.External),
                !.Words = a.words, !.BodyHash = a.body]

\* The parser panics: a document that is read to the meta refresh.
Panics(a) ==
  a.err = "none" /\ ~Redirects(a) /\ isHTML(a) /\ a.size > 0 /\ RefreshPanics(a)

\* The request failed, or the body did for a reason that is not a timeout.
TimedOut(a) == a.err \in {"request", "bodyTimeout"}
Unreadable(a) == a.err = "bodyBroken"

buildPageReport(u, a) ==
  IF TimedOut(a) THEN [EmptyReport(u) EXCEPT !.Timeout = TRUE] ELSE NewHTMLParser(u, a)
=============================================================================
