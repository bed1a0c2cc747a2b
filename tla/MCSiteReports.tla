----------------------------- MODULE MCSiteReports -----------------------------
EXTENDS SiteReports

\* The URLs: those of the site, a host beside it, and what is odd about some.
Plain == [scheme |-> "https", host |-> "site", marks |-> {}, ext |-> ""]
MCParsedURL ==
  [a |-> Plain, b |-> Plain, c |-> Plain, d |-> Plain, none |-> Plain,
   page |-> [Plain EXCEPT !.ext = ".html"], odd |-> [Plain EXCEPT !.marks = {"_", " ", "//"}],
   plain |-> [Plain EXCEPT !.scheme = "http"], image |-> [Plain EXCEPT !.ext = ".png"],
   script |-> [Plain EXCEPT !.ext = ".js"], media |-> Plain, style |-> Plain,
   far |-> [Plain EXCEPT !.host = "far"], near |-> [Plain EXCEPT !.host = "localhost"],
   data |-> [Plain EXCEPT !.scheme = "data"]]
MCLength == [t \in {"", "title", "long", "short"} |->
  CASE t = "" -> 0 [] t = "title" -> 50 [] t = "long" -> 200 [] t = "short" -> 10]
MCMediaTypeOf == [t \in {"", "text/html", "application/xhtml+xml", "image/png", "text/css",
                         "text/html, text/html", "text/javascript"} |->
  IF t = "text/html, text/html" THEN "" ELSE t]
MCFirstId == [t \in Tables |-> CASE t = "externals" -> 4 [] t = "scripts" -> 2 [] OTHER -> 0]

To(u) == [url |-> u, abs |-> TRUE]
Relative(u) == [url |-> u, abs |-> FALSE]
Link(u) == [href |-> To(u), rel |-> {}]
Rel(u, r) == [href |-> To(u), rel |-> {r}]
Hreflang(u, l) == [href |-> To(u), lang |-> l]
Image(u, alt) == [src |-> To(u), srcset |-> <<>>, alt |-> alt, sized |-> TRUE]
Medium(u) == [src |-> To(u), sources |-> <<>>, poster |-> To("image")]

\* A page nothing is to be said of, but that it links to itself only.
Good ==
  [EmptyAnswer EXCEPT !.contentType = "text/html", !.size = 5000, !.hsts = "max-age", !.csp = TRUE,
     !.nosniff = TRUE, !.htmlLang = "en", !.titles = <<"title">>, !.descriptions = <<"title">>,
     !.h1s = <<"h">>, !.words = 300, !.viewport = "v", !.body = "body", !.anchors = <<Link("a")>>]

\* The same with one thing changed.
Variants ==
  {Good} \cup
  {[Good EXCEPT !.titles = t] : t \in {<<>>, <<"short">>, <<"long">>, <<"title", "title">>}} \cup
  {[Good EXCEPT !.descriptions = t] :
     t \in {<<>>, <<"short">>, <<"long">>, <<"title", "title">>}} \cup
  {[Good EXCEPT !.metaRobots = r] : r \in {{"noindex"}, {"nofollow"}, {"none"}, {"noimageindex"},
                                           {"nosnippet"}}} \cup
  {[Good EXCEPT !.canonicals = t] : t \in {<<To("a")>>, <<Relative("b")>>, <<To("b"), To("a")>>}} \cup
  {[Good EXCEPT !.canonicals = <<To("a")>>, !.headCanonicals = <<To("b")>>],
   [Good EXCEPT !.anchors = <<>>], [Good EXCEPT !.anchors = <<Rel("a", "nofollow")>>],
   [Good EXCEPT !.anchors = [i \in 1..101 |-> Link("a")]],
   [Good EXCEPT !.anchors = <<Link("plain"), Rel("far", "sponsored"), Rel("near", "ugc")>>],
   [Good EXCEPT !.images = <<Image("image", "")>>],
   [Good EXCEPT !.images = <<[Image("image", "long") EXCEPT !.sized = FALSE,
                                                            !.srcset = <<To("image")>>]>>],
   [Good EXCEPT !.pictures = <<[alts |-> <<>>, sources |-> <<To("image")>>]>>],
   [Good EXCEPT !.pictures = <<[alts |-> <<"title">>, sources |-> <<To("image")>>]>>],
   [Good EXCEPT !.htmlLang = ""], [Good EXCEPT !.htmlLang = "xx-invalid"],
   [Good EXCEPT !.hreflangs = <<Hreflang("a", "en"), Hreflang("b", "x-default")>>],
   [Good EXCEPT !.hreflangs = <<[Hreflang("b", "fr") EXCEPT !.href = Relative("b")]>>],
   [Good EXCEPT !.headHreflangs = <<Hreflang("a", "fr")>>],
   [Good EXCEPT !.h1s = <<>>], [Good EXCEPT !.headings = <<1, 3>>], [Good EXCEPT !.words = 10],
   [Good EXCEPT !.ids = <<"i", "i">>], [Good EXCEPT !.nodes = 2000], [Good EXCEPT !.bodyMetas = 1],
   [Good EXCEPT !.pagination = <<To("b")>>], [Good EXCEPT !.hsts = ""], [Good EXCEPT !.csp = FALSE],
   [Good EXCEPT !.nosniff = FALSE], [Good EXCEPT !.ttfb = 900], [Good EXCEPT !.forms = <<"http">>],
   [Good EXCEPT !.viewport = ""], [Good EXCEPT !.refresh = "short"],
   [Good EXCEPT !.refresh = "url", !.refreshTo = To("b")],
   [Good EXCEPT !.size = 0], [Good EXCEPT !.contentType = "application/xhtml+xml"],
   [Good EXCEPT !.contentType = "text/html, text/html"], [Good EXCEPT !.contentType = ""],
   [Good EXCEPT !.contentType = "image/png", !.size = 600000],
   [Good EXCEPT !.contentType = "text/css", !.css = <<To("image")>>],
   [Good EXCEPT !.preloads = <<To("style")>>, !.css = <<To("image"), To("data")>>],
   [Good EXCEPT !.preloads = <<To("style"), To("data")>>],
   [Good EXCEPT !.iframes = <<To("b")>>, !.audios = <<Medium("media")>>,
                !.videos = <<Medium("media")>>, !.scripts = <<To("script")>>, !.styles = <<To("style")>>],
   [Good EXCEPT !.location = To("b")], [Good EXCEPT !.err = "request"],
   [Good EXCEPT !.err = "bodyTimeout"], [Good EXCEPT !.err = "bodyBroken"]}

NotFound == [EmptyAnswer EXCEPT !.status = 404, !.contentType = "text/html"]

\* One crawl, nothing wrong, nobody looking.
Crawl(site, first) ==
  [site |-> site, first |-> first, nothing |-> NotFound, hosts |-> {"site"}, robots |-> {},
   sitemap |-> {}, crawlSitemap |-> FALSE, ignoreRobotsTxt |-> FALSE, followNofollow |-> FALSE,
   includeNoindex |-> TRUE, checkExternalLinks |-> FALSE, statuses |-> {200}, others |-> FALSE,
   shared |-> {}, faulty |-> {}, faults |-> 0, limit |-> 9, lists |-> {}]

\* Sites of one page, with every status; with the options the other way.
OnePage ==
  {Crawl([a |-> [v EXCEPT !.status = s]], "a") : v \in Variants, s \in {200, 301, 404, 500}}
    \cup {[Crawl([a |-> v], "a") EXCEPT !.includeNoindex = FALSE, !.followNofollow = TRUE,
             !.sitemap = {"a"}, !.crawlSitemap = TRUE, !.robots = {"a", "b", "image", "style"},
             !.ignoreRobotsTxt = (v # Good)] : v \in Variants}
    \cup {[Crawl([a |-> [Good EXCEPT !.metaRobots = {"noindex"}]], "a") EXCEPT !.sitemap = {"a"}],
          Crawl([plain |-> [Good EXCEPT !.forms = <<"https">>]], "plain"),
          Crawl([a |-> [Good EXCEPT !.contentType = "application/xhtml+xml",
                                    !.hreflangs = <<Hreflang("b", "fr")>>]], "a")}
    \cup {Crawl([u \in {o} |-> Good], o) : o \in {"page", "odd", "plain", "image", "script"}}

\* Sites of several pages.
Redirect(u) == [EmptyAnswer EXCEPT !.status = 301, !.location = To(u), !.contentType = "text/html"]
Redirects3 ==
  Crawl([a |-> [Good EXCEPT !.anchors = <<Link("b"), Link("c")>>], b |-> Redirect("c"),
         c |-> Redirect("d"), d |-> Redirect("c")], "a")
Languages ==
  Crawl([a |-> [Good EXCEPT !.anchors = <<Link("b")>>,
                            !.hreflangs = <<Hreflang("a", "en"), Hreflang("b", "fr"),
                                             Hreflang("c", "de")>>],
         b |-> [Good EXCEPT !.htmlLang = "fr", !.canonicals = <<To("a")>>,
                            !.hreflangs = <<Hreflang("a", "en"), Hreflang("b", "de")>>],
         c |-> [Good EXCEPT !.htmlLang = "de", !.metaRobots = {"noindex"},
                            !.hreflangs = <<Hreflang("d", "de")>>, !.canonicals = <<To("b")>>],
         d |-> [Good EXCEPT !.hreflangs = <<Hreflang("a", "en")>>]], "a")
Nofollows ==
  Crawl([a |-> [Good EXCEPT !.anchors = <<Rel("b", "nofollow"), Link("c"), Link("b")>>],
         b |-> [Good EXCEPT !.metaRobots = {"nofollow"}, !.anchors = <<Link("a"), Link("d")>>],
         c |-> [Good EXCEPT !.metaRobots = {"noindex"},
                            !.anchors = <<Rel("far", "nofollow"), Link("far")>>]], "a")
Blocks ==
  [Crawl([a |-> [Good EXCEPT !.anchors = <<Link("b"), Link("c"), Link("far")>>,
                             !.iframes = <<To("d")>>],
          c |-> Good], "a")
     EXCEPT !.robots = {"b", "d"}, !.sitemap = {"none", "b", "c"}, !.crawlSitemap = TRUE]
External ==
  [Crawl([a |-> [Good EXCEPT !.anchors = <<Link("far"), Link("near"), Link("b")>>],
          b |-> [Good EXCEPT !.anchors = <<Link("far")>>]], "a")
     EXCEPT !.checkExternalLinks = TRUE, !.statuses = {-1, 200, 301}, !.others = TRUE,
            !.shared = {"far"}]
Deep ==
  Crawl([a |-> [Good EXCEPT !.anchors = <<Link("b")>>], b |-> [Good EXCEPT !.anchors = <<Link("c")>>],
         c |-> [Good EXCEPT !.anchors = <<Link("d")>>],
         d |-> [Good EXCEPT !.anchors = <<Link("page")>>],
         page |-> [Good EXCEPT !.anchors = <<Link("odd")>>], odd |-> Good], "a")
Statuses ==
  Crawl([a |-> [Good EXCEPT !.anchors = <<Link("b"), Link("c"), Link("d"), Link("none")>>],
         b |-> [Good EXCEPT !.status = 500], c |-> Redirect("a"), d |-> Good], "a")
Untitled ==
  LET Page(u) == [Good EXCEPT !.titles = <<>>, !.descriptions = <<>>, !.anchors = <<Link(u)>>]
  IN  Crawl([a |-> Page("b"), b |-> Page("a")], "a")
Full ==
  Crawl([a |-> [Good EXCEPT !.anchors = <<Link("b"), Link("far")>>, !.images = <<Image("image", "")>>,
                            !.scripts = <<To("script")>>, !.videos = <<Medium("media")>>],
         b |-> [Good EXCEPT !.anchors = <<Link("a")>>, !.scripts = <<To("script")>>]], "a")
Faulty(w) == {[w EXCEPT !.faulty = {kind}, !.faults = 1] :
                kind \in {"save", "part", "issues", "prepare", "query"}}

NofollowWorkloads == {Nofollows}
MCWorkloads ==
  OnePage \cup {Redirects3, Deep, Untitled, Languages, Nofollows, Blocks, External, Statuses}
    \cup {[Nofollows EXCEPT !.includeNoindex = FALSE, !.limit = 2],
          [Languages EXCEPT !.includeNoindex = FALSE]}
    \cup Faulty([Full EXCEPT !.limit = 3]) \cup Faulty(Blocks) \cup Faulty(Languages)
    \cup {[w EXCEPT !.lists = Lists] : w \in {[Full EXCEPT !.limit = 3], Blocks}}
=============================================================================
