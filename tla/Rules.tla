-------------------------------- MODULE Rules --------------------------------
(***************************************************************************)
(* The audit's rules: functions from what a crawl found to the issues it   *)
(* reports.  A page is a record of the facts the parser extracts:          *)
(*   url, final, status, error, hops (codes of its redirects), ms, html,   *)
(*   depth, inlinks, headers (a set of names), bytes, shape (of its URL),  *)
(*   title and desc [text, len] with len = 0 for none, says [title, h1,    *)
(*   text] (the target keywords in each), noindex, canonical, viewport,    *)
(*   lang, charset, og, hreflang (a set of <<code, url>>), heads [level,   *)
(*   len, question], words, hash, tokens and top (the most frequent one),  *)
(*   intro, images, links, jsonld, micro, scripts, inline, blocking, names *)
(*   (about, contact, privacy), and marks, the set of patterns the rules   *)
(*   search its HTML for.                                                  *)
(* A site context holds the pages in crawl order and the site-wide facts.  *)
(*                                                                         *)
(* An issue is [id, about, sev, cat, n, on]: about is the keyword or the   *)
(* metric of the rules that yield one issue for each, n its affected_count *)
(* and on the pages it names.  What an issue counts are tuples that start  *)
(* with a page: a page, or a link, a block or a language of it.  Wording   *)
(* is left out, and so is the order of the list.                           *)
(***************************************************************************)
EXTENDS Integers, FiniteSets, Robots

CONSTANTS
    Normal,         \* fetcher.normalize_url, a function on spellings of URLs
    Malformed       \* an address that urlparse refuses

Issue(id, sev, cat, items) ==
    [id |-> id, about |-> "", sev |-> sev, cat |-> cat,
     n |-> Cardinality(items), on |-> {x[1] : x \in items}]

Found(id, sev, cat, items) == IF items = {} THEN {} ELSE {Issue(id, sev, cat, items)}
Raised(id, sev, cat, when, items) == IF when THEN Found(id, sev, cat, items) ELSE {}
(* An issue that blames the site, by its start URL.                         *)
Sitewide(ctx, id, sev, cat, when) == Raised(id, sev, cat, when, {<<ctx.start>>})
About(issues, what) == {[i EXCEPT !.about = what] : i \in issues}
(* An issue that blames nothing in particular.                              *)
Unlocated(id, sev, cat, when) ==
    IF when THEN {Issue(id, sev, cat, {})} ELSE {}

-----------------------------------------------------------------------------
(* models.py: which pages the rules look at.                                *)

is_ok(p) == p.status >= 200 /\ p.status < 300 /\ ~p.error
is_indexable(p) == is_ok(p) /\ p.html /\ ~p.noindex

Pages(ctx) == ToSet(ctx.pages)
html_pages(ctx) == {p \in Pages(ctx) : is_ok(p) /\ p.html}
indexable_pages(ctx) == {p \in Pages(ctx) : is_indexable(p)}
UrlsOf(S) == {<<p.url>> : p \in S}
h1s(p) == SelectSeq(p.heads, LAMBDA h : h.level = 1)
Current(p) == Normal[p.final]
Indices(s) == 1..Len(s)
First(s, n) == SubSeq(s, 1, Min({n, Len(s)}))

(* The pages of S that share a value of f with another page of S.           *)
Shared(S, f(_)) == {p \in S : \E q \in S \ {p} : f(p) = f(q)}

-----------------------------------------------------------------------------
(* rules/technical.py                                                       *)

check_status_codes(ctx) ==
    LET unreachable == {p \in Pages(ctx) : p.error}
        answered == Pages(ctx) \ unreachable
        With(codes) == UrlsOf({p \in answered : p.status \in codes})
    IN  Found("server-error", "critical", "technical", UrlsOf({p \in answered : p.status >= 500}))
        \cup Found("broken-internal-links", "high", "links", With({404, 410}))
        \cup Found("forbidden-pages", "high", "indexing", With({401, 403}))
        \cup Found("unreachable-pages", "critical", "technical", UrlsOf(unreachable))

check_redirects(ctx) ==
    LET chains == {p \in Pages(ctx) : Len(p.hops) > 1}
        temporary == {p \in Pages(ctx) : ToSet(p.hops) \cap {302, 307} # {}}
    IN  Found("redirect-chain", "medium", "technical", UrlsOf(chains))
        \cup Found("temporary-redirect", "medium", "technical", UrlsOf(temporary))

(* The first page that was fetched stands for the home page.                *)
HomeHeaders(ctx) == IF ctx.pages = <<>> THEN {} ELSE ctx.pages[1].headers

check_https(ctx) ==
    IF ctx.local THEN {}
    ELSE IF ~ctx.https THEN Sitewide(ctx, "no-https", "critical", "technical", TRUE)
    ELSE Found("mixed-content", "high", "technical",
               UrlsOf({p \in html_pages(ctx) : "insecure" \in p.marks}))
         \cup Sitewide(ctx, "no-hsts", "low", "technical",
                       HomeHeaders(ctx) # {} /\ "hsts" \notin HomeHeaders(ctx))

check_robots(ctx) ==
    IF ~ctx.hasRobots
    THEN Sitewide(ctx, "robots-missing", "low", "indexing", TRUE)
    ELSE LET lines == ToSet(ctx.robots)
         IN  Sitewide(ctx, "robots-blocks-site", "critical", "indexing",
                      blocks_everything(ctx.robots))
             \cup Sitewide(ctx, "robots-no-sitemap", "low", "indexing",
                           \A l \in lines : l.key # "sitemap")
             \cup Sitewide(ctx, "robots-blocks-assets", "high", "indexing",
                           \E l \in lines : l.key = "disallow" /\ l.val = "assets")

BadEntry(p) == p.error \/ p.status >= 400 \/ p.hops # <<>> \/ p.noindex

InvalidSitemaps(ctx) ==
    Found("sitemap-invalid", "medium", "indexing", ToSet(First(ctx.sitemapErrors, 10)))

(* A malformed entry makes normalize_url raise after the first issue was    *)
(* yielded, which run_all keeps.                                            *)
check_sitemap(ctx) ==
    IF ctx.sitemaps = {} THEN Sitewide(ctx, "sitemap-missing", "medium", "indexing", TRUE)
    ELSE IF Malformed \in ctx.locs THEN InvalidSitemaps(ctx)
    ELSE LET locs == {Normal[l] : l \in ctx.locs}
             listed == {p \in Pages(ctx) : Normal[p.url] \in locs}
             absent == indexable_pages(ctx) \ listed
             few == Cardinality(indexable_pages(ctx))
         IN  InvalidSitemaps(ctx)
             \cup Found("sitemap-bad-entries", "medium", "indexing",
                        UrlsOf({p \in listed : BadEntry(p)}))
             \cup Raised("sitemap-incomplete", "low", "indexing",
                         locs # {} /\ Cardinality(absent) > 2 /\ 5 * Cardinality(absent) > few,
                         UrlsOf(absent))
             \cup Sitewide(ctx, "sitemap-mismatch", "medium", "indexing",
                           ctx.pages # <<>> /\ listed = {} /\ locs # {})

check_mobile(ctx) ==
    LET Viewport(kinds) == UrlsOf({p \in html_pages(ctx) : p.viewport \in kinds})
    IN  Found("viewport-missing", "critical", "technical", Viewport({"none"}))
        \cup Found("viewport-invalid", "medium", "technical", Viewport({"fixed", "nozoom"}))

check_urls(ctx) ==
    LET Shaped(s) == UrlsOf({p \in indexable_pages(ctx) : s \in p.shape})
    IN  Found("url-too-long", "low", "technical", Shaped("long"))
        \cup Found("url-underscores", "low", "technical", Shaped("underscore"))
        \cup Found("url-uppercase", "low", "technical", Shaped("upper"))
        \cup Found("url-parameters", "medium", "indexing", Shaped("params"))

check_lang(ctx) ==
    Found("html-lang-missing", "medium", "international",
          UrlsOf({p \in html_pages(ctx) : ~p.lang}))
    \cup Found("charset-missing", "medium", "technical",
               UrlsOf({p \in html_pages(ctx) : ~p.charset /\ "charset" \notin p.headers}))

check_compression(ctx) ==
    Found("no-compression", "medium", "performance",
          UrlsOf({p \in html_pages(ctx) : "encoding" \notin p.headers /\ p.bytes > 50000}))

-----------------------------------------------------------------------------
(* rules/indexing.py                                                        *)

check_noindex(ctx) ==
    LET noindexed == {p \in html_pages(ctx) : p.noindex}
    IN  IF noindexed = html_pages(ctx)
        THEN Found("site-wide-noindex", "critical", "indexing", UrlsOf(noindexed))
        ELSE Found("noindex-pages", "info", "indexing", UrlsOf(noindexed))

check_conflicting_directives(ctx) ==
    IF ~ctx.hasRobots THEN {}
    ELSE Found("noindex-blocked-by-robots", "high", "indexing",
               UrlsOf({p \in html_pages(ctx) :
                         p.noindex /\ \E l \in disallowed_paths(ctx.robots) : p.url \in l.covers}))

check_soft_404(ctx) ==
    Found("soft-404", "medium", "indexing",
          UrlsOf({p \in html_pages(ctx) :
                    p.status = 200 /\ p.words <= 250 /\ "notfound" \in p.marks}))

check_crawl_waste(ctx) ==
    LET wasted == {p \in Pages(ctx) : p.hops # <<>> \/ (p.html /\ p.noindex) \/ p.status >= 400}
        total == Len(ctx.pages)
    IN  Raised("crawl-budget-waste", "medium", "indexing",
               total >= 10 /\ 4 * Cardinality(wasted) > total, UrlsOf(wasted))

-----------------------------------------------------------------------------
(* rules/content.py                                                         *)

TITLE_MIN == 25
TITLE_MAX == 60
DESC_MIN == 70
DESC_MAX == 160
THIN_CONTENT_WORDS == 300
SHALLOW_CONTENT_WORDS == 600

SkipsLevel(p) == \E i \in 1..Len(p.heads) - 1 : p.heads[i + 1].level - p.heads[i].level > 1

check_headings(ctx) ==
    LET pages == indexable_pages(ctx)
        One == {p \in pages : Len(h1s(p)) = 1}
    IN  Found("h1-missing", "high", "content", UrlsOf({p \in pages : h1s(p) = <<>>}))
        \cup Found("h1-multiple", "low", "content", UrlsOf({p \in pages : Len(h1s(p)) > 1}))
        \cup Found("h1-empty", "medium", "content", UrlsOf({p \in One : h1s(p)[1].len < 3}))
        \cup Found("heading-order", "low", "content", UrlsOf({p \in pages : SkipsLevel(p)}))
        \cup Found("no-subheadings", "medium", "ai_search",
                   UrlsOf({p \in pages : /\ p.words > SHALLOW_CONTENT_WORDS
                                         /\ \A i \in Indices(p.heads) : p.heads[i].level # 2}))

check_content_depth(ctx) ==
    LET thin == {p \in indexable_pages(ctx) : p.words < THIN_CONTENT_WORDS}
        shallow == {p \in indexable_pages(ctx) \ thin : p.words < SHALLOW_CONTENT_WORDS}
    IN  Found("thin-content", "high", "content", UrlsOf(thin))
        \cup Found("shallow-content", "low", "content", UrlsOf(shallow))

check_duplicate_content(ctx) ==
    LET weighty == {p \in indexable_pages(ctx) : p.words >= 100}
    IN  Found("duplicate-content", "high", "indexing", UrlsOf(Shared(weighty, LAMBDA p : p.hash)))

(* The code lists at most twenty pages under keyword-weak: more pages than   *)
(* an instance has.                                                          *)
KeywordIssues(ctx, kw) ==
    LET pages == indexable_pages(ctx)
        in_title == {p \in pages : kw \in p.says.title}
        in_h1 == {p \in pages : kw \in p.says.h1}
        in_body == {p \in pages : kw \in p.says.text}
    IN  IF in_body = {} THEN Sitewide(ctx, "keyword-absent", "high", "content", TRUE)
        ELSE Raised("keyword-weak", "medium", "content", in_title = {} /\ in_h1 = {},
                    UrlsOf(in_body))
             \cup Raised("keyword-cannibal", "medium", "content",
                         Cardinality(in_title) > 1, UrlsOf(in_title))

(* Each of the first ten keywords has issues of its own.                    *)
check_keyword_usage(ctx) ==
    IF indexable_pages(ctx) = {} THEN {}
    ELSE UNION {About(KeywordIssues(ctx, kw), kw) :
                    kw \in ToSet(First(ctx.keywords, 10)) \ {""}}

check_keyword_stuffing(ctx) ==
    Found("keyword-stuffing", "high", "content",
          UrlsOf({p \in indexable_pages(ctx) :
                    /\ p.words >= 150 /\ p.tokens >= 80
                    /\ p.top.word /\ 100 * p.top.hits > 6 * p.tokens /\ p.top.hits >= 15}))

check_freshness(ctx) ==
    Found("no-publish-date", "medium", "eeat",
          UrlsOf({p \in indexable_pages(ctx) : p.words >= 400 /\ "date" \notin p.marks}))

-----------------------------------------------------------------------------
(* rules/meta.py                                                            *)

check_titles(ctx) ==
    LET titled == {p \in indexable_pages(ctx) : p.title.len > 0}
    IN  Found("title-missing", "critical", "content", UrlsOf(indexable_pages(ctx) \ titled))
        \cup Found("title-too-short", "medium", "content",
                   UrlsOf({p \in titled : p.title.len < TITLE_MIN}))
        \cup Found("title-too-long", "low", "content",
                   UrlsOf({p \in titled : p.title.len > TITLE_MAX}))
        \cup Found("title-duplicate", "high", "content",
                   UrlsOf(Shared(titled, LAMBDA p : p.title.text)))

check_descriptions(ctx) ==
    LET described == {p \in indexable_pages(ctx) : p.desc.len > 0}
    IN  Found("meta-description-missing", "medium", "content",
              UrlsOf(indexable_pages(ctx) \ described))
        \cup Found("meta-description-short", "low", "content",
                   UrlsOf({p \in described : p.desc.len < DESC_MIN}))
        \cup Found("meta-description-long", "low", "content",
                   UrlsOf({p \in described : p.desc.len > DESC_MAX}))
        \cup Found("meta-description-duplicate", "low", "content",
                   UrlsOf(Shared(described, LAMBDA p : p.desc.text)))

(* same_site with subdomains, for a canonical.                              *)
Canonicalised(ctx) == {p \in indexable_pages(ctx) : p.canonical # "none"}

check_canonicals(ctx) ==
    LET elsewhere == {p \in Canonicalised(ctx) : p.canonical \in ctx.foreign}
        mismatched == {p \in Canonicalised(ctx) \ elsewhere : Normal[p.canonical] # Current(p)}
        noindex == {Normal[p.url] : p \in {q \in html_pages(ctx) : q.noindex}}
        to_noindex == {p \in mismatched : Normal[p.canonical] \in noindex}
    IN  Found("canonical-missing", "medium", "indexing",
              UrlsOf(indexable_pages(ctx) \ Canonicalised(ctx)))
        \cup Found("canonical-external", "critical", "indexing", UrlsOf(elsewhere))
        \cup IF to_noindex # {}
             THEN Found("canonical-to-noindex", "high", "indexing", UrlsOf(to_noindex))
             ELSE Found("canonical-mismatch", "medium", "indexing", UrlsOf(mismatched))

check_social(ctx) ==
    LET missing_og == {p \in indexable_pages(ctx) : p.og \cap {"title", "description"} = {}}
    IN  Found("og-missing", "low", "content", UrlsOf(missing_og))
        \cup Found("og-image-missing", "low", "content",
                   UrlsOf({p \in indexable_pages(ctx) \ missing_og : "image" \notin p.og}))

-----------------------------------------------------------------------------
(* rules/ai_search.py                                                       *)

check_ai_crawlers(ctx) ==
    IF ~ctx.hasRobots THEN {}
    ELSE IF ai_blocked(ctx.robots) # {}
    THEN Sitewide(ctx, "ai-crawlers-blocked", "info", "ai_search", TRUE)
    ELSE Sitewide(ctx, "ai-crawler-policy-undefined", "info", "ai_search",
                  ai_mentioned(ctx.robots) = {})

check_llms_txt(ctx) == Sitewide(ctx, "no-llms-txt", "info", "ai_search", ~ctx.llms)

NoQuestion(p) ==
    LET sub == {i \in Indices(p.heads) : p.heads[i].level \in {2, 3}}
    IN  sub # {} /\ \A i \in sub : ~p.heads[i].question

check_answer_structure(ctx) ==
    LET pages == {p \in indexable_pages(ctx) : p.words >= 400}
        no_lists == {p \in pages : "list" \notin p.marks}
    IN  Found("no-question-headings", "medium", "ai_search",
              UrlsOf({p \in pages : NoQuestion(p)}))
        \cup Found("buried-answer", "medium", "ai_search",
                   UrlsOf({p \in pages : p.intro > 120}))
        \cup Raised("no-lists-or-tables", "low", "ai_search",
                    10 * Cardinality(no_lists) > 6 * Cardinality(pages), UrlsOf(no_lists))

check_csr(ctx) ==
    Found("client-side-rendered", "high", "ai_search",
          UrlsOf({p \in html_pages(ctx) : p.words < 50 /\ p.scripts >= 1 /\ p.bytes > 2000}))

-----------------------------------------------------------------------------
(* rules/links.py.  A link is [to, internal, anchor, opener, social, names].*)

LinksOf(S) == UNION {{<<p.url, i, p.links[i]>> : i \in Indices(p.links)} : p \in S}
Internal(L) == {l \in L : l[3].internal}

check_orphans(ctx) ==
    LET pages == indexable_pages(ctx)
        others == {p \in pages : p.url # ctx.start}
        weak == {p \in others : p.inlinks = 1}
    IN  IF Cardinality(pages) < 3 THEN {}
        ELSE Found("orphan-pages", "high", "links", UrlsOf({p \in others : p.inlinks = 0}))
             \cup Raised("weak-internal-linking", "medium", "links",
                         10 * Cardinality(weak) > 3 * Cardinality(pages), UrlsOf(weak))

check_depth(ctx) ==
    Found("deep-pages", "medium", "links", UrlsOf({p \in indexable_pages(ctx) : p.depth >= 4}))

check_anchors(ctx) ==
    LET internal == Internal(LinksOf(html_pages(ctx)))
        generic == {l \in internal : l[3].anchor = "generic"}
    IN  Unlocated("generic-anchor-text", "medium", "links",
                  10 * Cardinality(generic) > Cardinality(internal))
        \cup Found("empty-anchor-text", "low", "links",
                   {l \in internal : l[3].anchor = "empty"})

check_js_links(ctx) ==
    Found("js-navigation", "high", "links",
          UrlsOf({p \in html_pages(ctx) : "onclick" \in p.marks}))

(* A page is unsafe when it has the attribute anywhere and an outbound link *)
(* without noopener anywhere, on the same element or not.                   *)
check_external(ctx) ==
    LET unsafe == {p \in html_pages(ctx) :
                     "blank" \in p.marks /\ \E i \in Indices(p.links) :
                         ~p.links[i].internal /\ ~p.links[i].opener}
    IN  Found("broken-external-links", "medium", "links", ctx.broken)
        \cup Raised("unsafe-target-blank", "low", "links",
                    Cardinality(unsafe) > 2, UrlsOf(unsafe))

-----------------------------------------------------------------------------
(* rules/images.py.  An image is [alt, sized, loading, format, named]: alt  *)
(* is -1 without the attribute and else its length, named is FALSE for a    *)
(* file name such as IMG_1.jpg.  The first three images are the viewport.   *)

ImagesOf(p) == {p.images[i] : i \in Indices(p.images)}
AllImages(ctx) == UNION {ImagesOf(p) : p \in html_pages(ctx)}
PagesWith(ctx, bad) == UrlsOf({p \in html_pages(ctx) : ImagesOf(p) \cap bad # {}})

check_alt_text(ctx) ==
    Found("image-alt-missing", "medium", "images", PagesWith(ctx, {g \in AllImages(ctx) : g.alt = -1}))
    \cup Found("image-alt-too-long", "low", "images",
               PagesWith(ctx, {g \in AllImages(ctx) : g.alt > 125}))

check_layout_shift(ctx) ==
    Found("image-no-dimensions", "medium", "performance",
          PagesWith(ctx, {g \in AllImages(ctx) : ~g.sized /\ g.format \notin {"svg", "none"}}))

check_lazy_loading(ctx) ==
    LET Early(p) == \E i \in Indices(p.images) : i <= 3 /\ p.images[i].loading = "lazy"
        Late(p) == {i \in Indices(p.images) : i > 3 /\ p.images[i].loading = ""}
    IN  Found("lcp-image-lazy", "medium", "performance",
              UrlsOf({p \in html_pages(ctx) : Early(p)}))
        \cup Found("no-lazy-loading", "low", "performance",
                   UrlsOf({p \in html_pages(ctx) : Cardinality(Late(p)) >= 5}))

check_formats(ctx) ==
    LET Legacy(p) == {i \in Indices(p.images) : p.images[i].format = "legacy"}
        Modern(p) == \E g \in ImagesOf(p) : g.format \in {"modern", "svg"}
    IN  Found("legacy-image-format", "medium", "performance",
              UrlsOf({p \in html_pages(ctx) :
                        Cardinality(Legacy(p)) >= 3 /\ ~Modern(p) /\ "picture" \notin p.marks}))
        \cup Found("image-filename", "low", "images",
                   PagesWith(ctx, {g \in AllImages(ctx) : ~g.named}))

-----------------------------------------------------------------------------
(* rules/international.py                                                   *)

Alternates(p) == {Normal[h[2]] : h \in p.hreflang}

check_hreflang(ctx) ==
    LET pages_with == {p \in html_pages(ctx) : p.hreflang # {}}
        no_default == {p \in pages_with : \A h \in p.hreflang : h[1] # "x-default"}
        OneWay(p, h) == \E q \in html_pages(ctx) :
            Current(q) = Normal[h[2]] /\ q.hreflang # {} /\ Current(p) \notin Alternates(q)
        Blamed(Test(_, _)) == UNION {{<<p.url, h>> : h \in {x \in p.hreflang : Test(p, x)}} :
                                        p \in pages_with}
    IN  Found("hreflang-invalid-code", "high", "international",
              Blamed(LAMBDA p, h : h[1] = "invalid"))
        \cup Found("hreflang-no-self", "high", "international",
                   UrlsOf({p \in pages_with : Current(p) \notin Alternates(p)}))
        \cup Found("hreflang-not-reciprocal", "high", "international", Blamed(OneWay))
        \cup Raised("hreflang-no-x-default", "medium", "international",
                    no_default = pages_with, UrlsOf(no_default))

check_rtl(ctx) ==
    Found("missing-rtl-direction", "medium", "international",
          UrlsOf({p \in html_pages(ctx) : "persian" \in p.marks /\ "rtl" \notin p.marks}))

-----------------------------------------------------------------------------
(* rules/performance.py.  psi is a set of <<metric, status>>, empty when    *)
(* there is no field data, with the opportunities PageSpeed lists.          *)

check_field_data(ctx) ==
    IF ctx.psi.field = {} THEN {}
    ELSE UNION {About(Sitewide(ctx, "cwv", IF f[2] = "poor" THEN "high" ELSE "medium",
                               "performance", TRUE), f[1]) :
                  f \in {x \in ctx.psi.field : x[2] # "good"}}
         \cup UNION {About(Sitewide(ctx, "psi", "low", "performance", TRUE), o) :
                  o \in ToSet(First(ctx.psi.opportunities, 4))}

check_page_weight(ctx) ==
    LET Over(Size(_), limit) == UrlsOf({p \in html_pages(ctx) : Size(p) > limit})
    IN  Found("heavy-html", "medium", "performance", Over(LAMBDA p : p.bytes, 500000))
        \cup Found("slow-response", "high", "performance", Over(LAMBDA p : p.ms, 800))
        \cup Found("too-many-scripts", "medium", "performance", Over(LAMBDA p : p.scripts, 15))
        \cup Found("large-inline-script", "low", "performance",
                   Over(LAMBDA p : p.inline, 100000))

check_render_blocking(ctx) ==
    Found("render-blocking-resources", "medium", "performance",
          UrlsOf({p \in html_pages(ctx) : p.blocking >= 4}))

check_caching(ctx) ==
    LET headers == HomeHeaders(ctx)
    IN  Sitewide(ctx, "no-cache-headers", "low", "performance",
                 headers # {} /\ ("cache" \notin headers \/ "no-store" \in headers))

-----------------------------------------------------------------------------
(* rules/structured.py.  A JSON-LD block is [broken, types, has].           *)

REQUIRED_FIELDS(type) ==
    CASE type \in {"Article", "NewsArticle", "BlogPosting"} -> {"headline"}
      [] type \in {"Product", "Organization", "SoftwareApplication", "Course"} -> {"name"}
      [] type = "Recipe" -> {"name", "image"}
      [] type = "Event" -> {"name", "startDate", "location"}
      [] type = "JobPosting" -> {"title", "datePosted", "hiringOrganization"}
      [] type = "LocalBusiness" -> {"name", "address"}
      [] type = "BreadcrumbList" -> {"itemListElement"}
      [] type = "VideoObject" -> {"name", "thumbnailUrl", "uploadDate"}
      [] OTHER -> {}

Blocks(S) == UNION {{<<p.url, i, p.jsonld[i]>> : i \in Indices(p.jsonld)} : p \in S}

check_presence(ctx) ==
    LET pages == indexable_pages(ctx)
        without == {p \in pages : p.jsonld = <<>> /\ p.micro = {}}
    IN  Sitewide(ctx, "no-structured-data", "high", "structured_data",
                 pages # {} /\ without = pages)
        \cup Raised("structured-data-partial", "medium", "structured_data",
                    without # pages /\ 2 * Cardinality(without) > Cardinality(pages),
                    UrlsOf(without))

check_validity(ctx) ==
    LET blocks == Blocks(html_pages(ctx))
        broken == {b \in blocks : b[3].broken}
        typed == {b \in blocks \ broken : b[3].types # {}}
        Lacks(b, t) == {<<b[1], b[2], t, f>> : f \in REQUIRED_FIELDS(t) \ b[3].has}
        Lacking == UNION {UNION {Lacks(b, t) : t \in b[3].types} : b \in typed}
        Deprecated == UNION {{<<b[1], b[2], t>> : t \in b[3].types \cap {"FAQPage", "HowTo"}} :
                               b \in typed}
    IN  Found("jsonld-invalid", "high", "structured_data", broken)
        \cup Found("schema-missing-required", "medium", "structured_data", Lacking)
        \cup Found("schema-no-type", "medium", "structured_data", (blocks \ broken) \ typed)
        \cup Found("schema-deprecated-type", "info", "structured_data", Deprecated)

ORG_TYPES == {"Organization", "LocalBusiness", "Corporation", "Person", "OnlineStore", "Store"}

check_recommended_types(ctx) ==
    LET pages == indexable_pages(ctx)
        present == UNION {b[3].types : b \in Blocks(pages)} \cup UNION {p.micro : p \in pages}
    IN  Sitewide(ctx, "no-organization-schema", "medium", "eeat",
                 present # {} /\ present \cap ORG_TYPES = {})
        \cup Sitewide(ctx, "no-breadcrumb-schema", "low", "structured_data",
                      /\ present # {} /\ "BreadcrumbList" \notin present
                      /\ Cardinality(pages) > 3)

-----------------------------------------------------------------------------
(* rules/eeat.py                                                            *)

check_trust_pages(ctx) ==
    LET seen == UNION {p.names : p \in Pages(ctx)}
                \cup UNION {l[3].names : l \in Internal(LinksOf(html_pages(ctx)))}
        Missing(key) == html_pages(ctx) # {} /\ key \notin seen
    IN  Sitewide(ctx, "missing-about-page", "medium", "eeat", Missing("about"))
        \cup Sitewide(ctx, "missing-contact-page", "medium", "eeat", Missing("contact"))
        \cup Sitewide(ctx, "missing-privacy-page", "low", "eeat", Missing("privacy"))

check_authorship(ctx) ==
    LET content == {p \in indexable_pages(ctx) : p.words >= 500}
        without == {p \in content : "author" \notin p.marks}
    IN  Raised("no-author-byline", "medium", "eeat",
               Cardinality(without) >= 2 /\ 2 * Cardinality(without) >= Cardinality(content),
               UrlsOf(without))

check_citations(ctx) ==
    LET long == {p \in indexable_pages(ctx) : p.words >= 700}
        uncited == {p \in long : \A i \in Indices(p.links) : p.links[i].internal}
    IN  Raised("no-external-citations", "low", "eeat",
               Cardinality(uncited) >= 2 /\ 10 * Cardinality(uncited) >= 6 * Cardinality(long),
               UrlsOf(uncited))

check_social_profiles(ctx) ==
    Sitewide(ctx, "no-social-profiles", "low", "eeat",
             /\ html_pages(ctx) # {}
             /\ \A l \in LinksOf(html_pages(ctx)) : l[3].internal \/ ~l[3].social)

check_security_txt(ctx) == Sitewide(ctx, "no-security-txt", "info", "eeat", ~ctx.securityTxt)

-----------------------------------------------------------------------------
(* rules/base.py                                                            *)

TechnicalRules(ctx) ==
    check_status_codes(ctx) \cup check_redirects(ctx) \cup check_https(ctx)
    \cup check_robots(ctx) \cup check_sitemap(ctx) \cup check_mobile(ctx)
    \cup check_urls(ctx) \cup check_lang(ctx) \cup check_compression(ctx)
    \cup check_noindex(ctx) \cup check_conflicting_directives(ctx)
    \cup check_soft_404(ctx) \cup check_crawl_waste(ctx)

ContentRules(ctx) ==
    check_headings(ctx) \cup check_content_depth(ctx) \cup check_duplicate_content(ctx)
    \cup check_keyword_usage(ctx) \cup check_keyword_stuffing(ctx) \cup check_freshness(ctx)
    \cup check_titles(ctx) \cup check_descriptions(ctx) \cup check_canonicals(ctx)
    \cup check_social(ctx) \cup check_ai_crawlers(ctx) \cup check_llms_txt(ctx)
    \cup check_answer_structure(ctx) \cup check_csr(ctx)

LinkAndMediaRules(ctx) ==
    check_orphans(ctx) \cup check_depth(ctx) \cup check_anchors(ctx)
    \cup check_js_links(ctx) \cup check_external(ctx) \cup check_alt_text(ctx)
    \cup check_layout_shift(ctx) \cup check_lazy_loading(ctx) \cup check_formats(ctx)
    \cup check_hreflang(ctx) \cup check_rtl(ctx) \cup check_field_data(ctx)
    \cup check_page_weight(ctx) \cup check_render_blocking(ctx) \cup check_caching(ctx)

TrustRules(ctx) ==
    check_presence(ctx) \cup check_validity(ctx) \cup check_recommended_types(ctx)
    \cup check_trust_pages(ctx) \cup check_authorship(ctx) \cup check_citations(ctx)
    \cup check_social_profiles(ctx) \cup check_security_txt(ctx)

(* Every rule runs, whatever the others do: a rule that raises adds what it *)
(* had yielded, and the sitemap rule is the one that can.                   *)
run_all(ctx) ==
    TechnicalRules(ctx) \cup ContentRules(ctx) \cup LinkAndMediaRules(ctx) \cup TrustRules(ctx)
=============================================================================
