------------------------------ MODULE MCEngine ------------------------------
(* A small site, the defects it may have, and the instance of Engine that   *)
(* audits it.                                                               *)
EXTENDS Engine

Urls == {"home", "a", "b", "c", "gone"}
Spelled == Urls \cup {"b/", "b#top", "ext", "blog.", "map", "map2", "logo.png"}

(* The crawler drops a fragment; the link service a trailing slash as well. *)
NormalOf == [s \in Spelled |-> IF s = "b#top" THEN "b" ELSE s]
NodeOf == [s \in Spelled |-> IF s \in {"b#top", "b/"} THEN "b" ELSE s]

Link(to) ==
    [to |-> to, internal |-> to \notin {"ext", "blog."}, anchor |-> "plain",
     opener |-> TRUE, social |-> to = "ext", names |-> {}]

Heading(level, len) == [level |-> level, len |-> len, question |-> TRUE]
Picture == [alt |-> 20, sized |-> TRUE, loading |-> "", format |-> "modern", named |-> TRUE]

(* A page nothing is wrong with.                                            *)
Good(url, to) ==
    [Blank(url) EXCEPT
        !.status = 200, !.html = TRUE, !.headers = {"hsts", "cache", "encoding"},
        !.bytes = 4000, !.title = [text |-> url, len |-> 40], !.desc = [text |-> url, len |-> 100],
        !.says = [title |-> IF url = "a" THEN {"tea"} ELSE {}, h1 |-> {}, text |-> {"tea"}],
        !.canonical = url, !.viewport = "device", !.lang = TRUE, !.charset = TRUE,
        !.og = {"title", "image"}, !.heads = <<Heading(1, 20), Heading(2, 10)>>,
        !.words = 800, !.hash = url, !.tokens = 500, !.images = <<Picture>>,
        !.links = [i \in 1..Len(to) |-> Link(to[i])],
        !.jsonld = <<[broken |-> FALSE, types |-> {"Organization"}, has |-> {"name"}]>>,
        !.marks = {"date", "author", "list", "persian", "rtl"},
        !.names = IF url = "home" THEN {"about", "contact", "privacy"} ELSE {}]

Missing(url) == [Blank(url) EXCEPT !.status = 404, !.html = TRUE, !.headers = {"hsts"}]

Line(key, val, covers) == [key |-> key, val |-> val, covers |-> covers]

Clean ==
    [web |-> [u \in Urls \cup {"b/"} |->
                CASE u = "home" -> Good(u, <<"a", "b", "ext">>)
                  [] u = "a" -> Good(u, <<"home", "b#top", "ext">>)
                  [] u = "b" -> Good(u, <<"home", "a", "ext", "logo.png">>)
                  [] u = "c" -> Good(u, <<"home", "a", "ext">>)
                  [] u = "b/" -> [Good("b", <<"home", "a", "ext">>) EXCEPT !.url = "b/",
                                    !.final = "b", !.hops = <<301>>]
                  [] OTHER -> Missing(u)],
     maps |-> [u \in {"map", "map2"} |->
                IF u = "map" THEN [kind |-> "urlset", entries |-> <<"home", "a", "b">>]
                ELSE [kind |-> "absent", entries |-> <<>>]],
     hasRobots |-> TRUE,
     robots |-> <<Line("agent", "*", {}), Line("disallow", "", {}),
                  Line("blank", "", {}), Line("sitemap", "map", {})>>,
     llms |-> TRUE, securityTxt |-> TRUE, dead |-> {}, https |-> TRUE, local |-> FALSE,
     keywords |-> <<"tea">>, psi |-> [field |-> {}, opportunities |-> <<>>]]

(* Defects of a page, here of b.                                            *)
PageDefect(p, d) ==
    CASE d = "down" -> [p EXCEPT !.status = 500]
      [] d = "forbidden" -> [p EXCEPT !.status = 403]
      [] d = "chain" -> [p EXCEPT !.hops = <<301, 302>>, !.final = "a"]
      [] d = "insecure" -> [p EXCEPT !.marks = @ \cup {"insecure", "onclick", "blank"}]
      [] d = "fixed" -> [p EXCEPT !.viewport = "fixed"]
      [] d = "viewport" -> [p EXCEPT !.viewport = "none"]
      [] d = "shape" -> [p EXCEPT !.shape = {"long", "upper", "underscore", "params"}]
      [] d = "lang" -> [p EXCEPT !.lang = FALSE]
      [] d = "charset" -> [p EXCEPT !.charset = FALSE]
      [] d = "heavy" -> [p EXCEPT !.bytes = 600000, !.headers = {"hsts"}, !.inline = 200000]
      [] d = "slow" -> [p EXCEPT !.ms = 900, !.scripts = 20, !.blocking = 5]
      [] d = "noindex" -> [p EXCEPT !.noindex = TRUE]
      [] d = "soft404" -> [p EXCEPT !.words = 200, !.marks = @ \cup {"notfound"}]
      [] d = "h1" -> [p EXCEPT !.heads = <<>>]
      [] d = "h1s" -> [p EXCEPT !.heads = <<Heading(1, 9), Heading(1, 9), Heading(3, 9)>>]
      [] d = "emptyh1" -> [p EXCEPT !.heads[1].len = 0, !.heads[2].question = FALSE]
      [] d = "thin" -> [p EXCEPT !.words = 40, !.scripts = 2]
      [] d = "shallow" -> [p EXCEPT !.words = 450, !.intro = 150, !.marks = @ \ {"date"}]
      [] d = "copy" -> [p EXCEPT !.hash = "a", !.title.text = "a", !.desc.text = "a"]
      [] d = "stuffed" -> [p EXCEPT !.top.hits = 60]
      [] d = "untitled" -> [p EXCEPT !.title.len = 0, !.desc.len = 0]
      [] d = "stub" -> [p EXCEPT !.title.len = 10, !.desc.len = 50]
      [] d = "wordy" -> [p EXCEPT !.title.len = 70, !.desc.len = 200]
      [] d = "uncanonical" -> [p EXCEPT !.canonical = "none"]
      [] d = "canonical" -> [p EXCEPT !.canonical = "a"]
      [] d = "lost" -> [p EXCEPT !.canonical = "ext"]
      [] d = "social" -> [p EXCEPT !.og = {}]
      [] d = "card" -> [p EXCEPT !.og = {"title"}]
      [] d = "anchors" -> [p EXCEPT !.links[1].anchor = "generic", !.links[2].anchor = "empty"]
      [] d = "alt" -> [p EXCEPT !.images[1].alt = -1, !.images[1].loading = "lazy"]
      [] d = "unsized" -> [p EXCEPT !.images[1].sized = FALSE, !.images[1].named = FALSE]
      [] d = "gallery" -> [p EXCEPT !.images =
                             [i \in 1..8 |-> [Picture EXCEPT !.format = "legacy", !.alt = 200]]]
      [] d = "hreflang" -> [p EXCEPT !.hreflang = {<<"fa", "b">>, <<"invalid", "a">>}]
      [] d = "ltr" -> [p EXCEPT !.marks = @ \ {"rtl", "author", "list"}]
      [] d = "schema" -> [p EXCEPT !.jsonld =
                            <<[broken |-> TRUE, types |-> {}, has |-> {}],
                              [broken |-> FALSE, types |-> {}, has |-> {}],
                              [broken |-> FALSE, types |-> {"HowTo", "Recipe"}, has |-> {"name"}]>>]
      [] d = "bare" -> [p EXCEPT !.jsonld = <<>>]
      [] d = "malformed" -> [p EXCEPT !.raises = TRUE]
      [] d = "self" -> [p EXCEPT !.links = Append(@, Link("b"))]
      [] OTHER -> p

(* Defects of the site.                                                     *)
SiteDefect(s, d) ==
    CASE d = "http" -> [s EXCEPT !.https = FALSE]
      [] d = "norobots" -> [s EXCEPT !.hasRobots = FALSE, !.robots = <<>>]
      [] d = "closed" -> [s EXCEPT !.robots[2] = Line("disallow", "/", Urls)]
      [] d = "hidden" -> [s EXCEPT !.robots[2] = Line("disallow", "/b", {"b"})]
      [] d = "assets" -> [s EXCEPT !.robots = Append(@, Line("disallow", "assets", {}))]
      [] d = "bots" -> [s EXCEPT !.robots =
                          <<Line("agent", "gptbot", {}), Line("disallow", "/", Urls)>> \o @]
      [] d = "nomap" -> [s EXCEPT !.maps["map"].kind = "absent"]
      [] d = "badmap" -> [s EXCEPT !.maps["map2"].kind = "html"]
      [] d = "nested" -> [s EXCEPT !.maps["map"] = [kind |-> "index", entries |-> <<"map2", "map">>],
                            !.maps["map2"] = [kind |-> "urlset", entries |-> <<"a", "b", "c">>]]
      [] d = "badloc" -> [s EXCEPT !.maps["map"].entries = <<"home", "a", "b", "b", "gone", Malformed>>]
      [] d = "seedloc" -> [s EXCEPT !.maps["map"].entries = <<Malformed>>]
      [] d = "orphan" -> [s EXCEPT !.maps["map"].entries = <<"home", "a", "b", "c">>]
      [] d = "slash" -> [s EXCEPT !.web["a"].links[2].to = "b/"]
      [] d = "deadlink" -> [s EXCEPT !.web["a"].links = Append(@, Link("gone"))]
      [] d = "errorpage" -> [s EXCEPT !.maps["map"].entries = <<"home", "a", "b", "gone", "c">>,
                               !.web["gone"].links = <<Link("c")>>]
      [] d = "wide" -> [s EXCEPT !.maps["map"].kind = "absent",
                          !.web["home"] = Good("home", <<"a", "b", "c", "ext">>),
                          !.web["c"] = Good("c", <<"gone", "b/", "a", "ext">>)]
      [] d = "deadout" -> [s EXCEPT !.dead = {"ext"}]
      [] d = "nofiles" -> [s EXCEPT !.llms = FALSE, !.securityTxt = FALSE]
      [] d = "headers" -> [s EXCEPT !.web["home"].headers = {"no-store"}]
      [] d = "keyword" -> [s EXCEPT !.keywords = <<"tea", "milk", "">>]
      [] d = "split" -> [s EXCEPT !.web["b"].says.title = {"tea"}]
      [] d = "weak" -> [s EXCEPT !.web["a"].says.title = {}]
      [] d = "vitals" -> [s EXCEPT !.psi = [field |-> {<<"LCP", "poor">>, <<"CLS", "good">>},
                                            opportunities |-> <<"img">>]]
      [] d = "anonymous" -> [s EXCEPT !.web["home"].names = {}]
      [] d = "noindexes" -> [s EXCEPT !.web["home"].noindex = TRUE, !.web["a"].noindex = TRUE]
      [] OTHER -> [s EXCEPT !.web["b"] = PageDefect(@, d)]

SitewideDefects ==
    {"http", "norobots", "closed", "hidden", "assets", "bots", "nomap", "badmap", "nested",
     "badloc", "seedloc", "orphan", "slash", "deadlink", "errorpage", "wide", "deadout", "nofiles",
     "headers", "keyword", "split", "weak", "vitals", "anonymous", "noindexes"}
PageDefects ==
    {"down", "forbidden", "chain", "insecure", "fixed", "viewport", "shape", "lang", "charset",
     "heavy", "slow", "noindex", "soft404", "h1", "h1s", "emptyh1", "thin", "shallow", "copy",
     "stuffed", "untitled", "stub", "wordy", "uncanonical", "canonical", "lost", "social", "card",
     "anchors", "alt", "unsized", "gallery", "hreflang", "ltr", "schema", "bare", "malformed",
     "self"}

SiteWith(D) == FoldSet(LAMBDA d, s : SiteDefect(s, d), Clean, D)

(* Every defect alone, and the pairs whose rules or whose crawls interact.  *)
Pairs ==
    {{"noindex", "noindexes"}, {"noindexes", "canonical"}, {"hidden", "noindex"},
     {"closed", "nomap"}, {"lang", "http"}, {"lang", "hreflang"}, {"slash", "orphan"},
     {"copy", "slash"}, {"weak", "split"}, {"self", "slash"}, {"thin", "slow"},
     {"orphan", "errorpage"}, {"nested", "errorpage"}, {"badloc", "badmap"}, {"lang", "untitled"}, {"thin", "http"}}
Starts == {{d} : d \in SitewideDefects \cup PageDefects} \cup Pairs

(* Requests fail in the audits of the flaky sites; the jobs interleave, the *)
(* process dies and files cannot be written, removed or read in those of    *)
(* the busy ones.  The other sites are audited by one job after the other.  *)
Flaky == {{"deadlink"}, {"orphan"}, {"slash"}, {"malformed"}}
Busy == {{"closed"}, {"malformed"}}
Started == IF current = Empty THEN defects ELSE current.defects
Quiet ==
    /\ Started \notin Flaky => faults' = 0
    /\ Started \notin Busy =>
         /\ storage' /\ crashes' = 0 /\ unwritten' = {} /\ fileErrors' = 0
         /\ status'["words"] = "none"
         /\ status'["audit2"] # "none" => status'["audit1"] \in {"done", "error"}

EmptyReport == [pages |-> 0]
Maps == <<"map", "map2">>
==============================================================================
