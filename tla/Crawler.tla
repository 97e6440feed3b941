------------------------------- MODULE Crawler -------------------------------
(***************************************************************************)
(* crawler.py and fetcher.py: one breadth-first crawl of a site, from its  *)
(* robots.txt and sitemaps to the list of pages the rules look at.         *)
(*                                                                         *)
(* The site is a record of what its server answers: web, a function from   *)
(* URLs to pages (see Rules); maps, one from the addresses of sitemaps to  *)
(* [kind, entries]; hasRobots and robots; dead, the foreign addresses that *)
(* do not answer; llms and securityTxt.  A request may also fail on the    *)
(* way, MaxFaults times.                                                   *)
(***************************************************************************)
EXTENDS Score

CONSTANTS
    Start,          \* the start URL, normalised
    SameSite,       \* the URLs same_site accepts, normalised
    Foreign,        \* the URLs of other sites
    Assets,         \* the URLs _is_crawlable refuses
    WellKnown,      \* the sitemap paths every crawl tries
    SitemapLimit,   \* 25 in discover_sitemaps
    MaxPages, MaxDepth, Workers, MaxExternal,   \* of CrawlConfig
    MaxFaults       \* bound on the requests that fail

ASSUME CrawlerAssumption ==
    /\ MaxPages \in Nat \ {0} /\ Workers \in Nat \ {0} /\ MaxDepth \in Nat
    /\ SitemapLimit \in Nat /\ MaxExternal \in Nat \ {0} /\ MaxFaults \in Nat
    /\ Start \in SameSite /\ \A u \in SameSite : u \in DOMAIN Normal /\ Normal[u] = u

VARIABLES
    site,           \* what the server answers
    phase,          \* what crawl() is about to do
    lines,          \* robots.txt as it was read: [found, text]
    maps,           \* the state of discover_sitemaps: [queue, seen, found, errors, locs]
    files,          \* llms.txt and security.txt: [llms, securityTxt]
    frontier,       \* <<url, depth>> still to visit, in order
    queued,         \* every URL that was ever put there
    batch,          \* what the pool fetches now: <<url, depth>>
    answers,        \* its answers, in the order of the batch; unset ones are "none"
    pages,          \* the pages so far
    blocked,        \* the URLs robots.txt keeps it from
    broken,         \* outbound links that do not answer
    faults          \* requests that failed

crawlVars == <<phase, lines, maps, files, frontier, queued, batch, answers, pages, blocked,
               broken, faults>>

-----------------------------------------------------------------------------
(* A page nothing was parsed from.                                          *)
Blank(url) ==
    [url |-> url, final |-> url, status |-> 0, error |-> FALSE, hops |-> <<>>, ms |-> 0,
     html |-> FALSE, depth |-> 0, inlinks |-> 0, headers |-> {}, bytes |-> 0, shape |-> {},
     title |-> [text |-> "", len |-> 0], desc |-> [text |-> "", len |-> 0],
     says |-> [title |-> {}, h1 |-> {}, text |-> {}], noindex |-> FALSE, canonical |-> "none",
     viewport |-> "none", lang |-> FALSE, charset |-> FALSE, og |-> {}, hreflang |-> {},
     heads |-> <<>>, words |-> 0, hash |-> "", tokens |-> 0, top |-> [word |-> TRUE, hits |-> 0],
     intro |-> 0, images |-> <<>>, links |-> <<>>, jsonld |-> <<>>, micro |-> {}, scripts |-> 0,
     inline |-> 0, blocking |-> 0, names |-> {}, marks |-> {}, raises |-> FALSE]

(* What fetching and parsing make of any site: a page carries the address   *)
(* that was asked for, and its internal links lead to the same site.        *)
WellFormed(s) ==
    /\ \A u \in SameSite :
         LET page == s.web[u]
         IN  /\ DOMAIN page = DOMAIN Blank(u) /\ page.url = u
             /\ page.links \in Seq([to : DOMAIN Normal, internal : BOOLEAN, opener : BOOLEAN,
                                   social : BOOLEAN, anchor : STRING, names : SUBSET STRING])
             /\ \A l \in ToSet(page.links) :
                  l.internal /\ l.to \notin Assets => Normal[l.to] \in SameSite
    /\ \A u \in DOMAIN s.maps : s.maps[u].entries \in Seq(DOMAIN Normal \cup {Malformed})

(* Fetcher._error                                                           *)
Failure(url) == [Blank(url) EXCEPT !.error = TRUE]

CrawlInit(sites) ==
    /\ site \in sites
    /\ phase = "idle"
    /\ lines = [found |-> FALSE, text |-> <<>>]
    /\ maps = [queue |-> <<>>, seen |-> {}, found |-> {}, errors |-> <<>>, locs |-> <<>>]
    /\ files = [llms |-> FALSE, securityTxt |-> FALSE]
    /\ frontier = <<>> /\ queued = {} /\ batch = <<>> /\ answers = <<>>
    /\ pages = <<>> /\ blocked = {} /\ broken = {} /\ faults = 0

(* A new Crawler.                                                           *)
Reset(to) ==
    /\ phase' = to
    /\ lines' = [found |-> FALSE, text |-> <<>>]
    /\ maps' = [queue |-> <<>>, seen |-> {}, found |-> {}, errors |-> <<>>, locs |-> <<>>]
    /\ files' = [llms |-> FALSE, securityTxt |-> FALSE]
    /\ frontier' = <<>> /\ queued' = {} /\ batch' = <<>> /\ answers' = <<>>
    /\ pages' = <<>> /\ blocked' = {} /\ broken' = {}

(* load_robots: without an answer everything is allowed.                    *)
LoadRobots ==
    /\ phase = "robots"
    /\ \/ lines' = [found |-> site.hasRobots, text |-> site.robots] /\ UNCHANGED faults
       \/ faults < MaxFaults /\ faults' = faults + 1 /\ UNCHANGED lines
    /\ maps' = [maps EXCEPT !.queue =
                    (IF lines'.found THEN robots_sitemaps(lines'.text) ELSE <<>>) \o WellKnown]
    /\ phase' = "sitemaps"
    /\ UNCHANGED <<site, files, frontier, queued, batch, answers, pages, blocked, broken>>

allowed(url) == lines.found => can_fetch(lines.text, url)

-----------------------------------------------------------------------------
(* discover_sitemaps                                                        *)

Read(m, url) ==
    LET answer == IF url \in DOMAIN site.maps THEN site.maps[url]
                  ELSE [kind |-> "absent", entries |-> <<>>]
        rest == [m EXCEPT !.queue = Tail(@), !.seen = @ \cup {url}]
    IN  CASE url \in m.seen -> [m EXCEPT !.queue = Tail(@)]
          [] url \notin m.seen /\ answer.kind = "html" ->
               [rest EXCEPT !.errors = Append(@, <<url>>)]
          [] url \notin m.seen /\ answer.kind = "index" ->
               [rest EXCEPT !.found = @ \cup {url}, !.queue = @ \o answer.entries]
          [] url \notin m.seen /\ answer.kind = "urlset" ->
               [rest EXCEPT !.found = @ \cup {url}, !.locs = @ \o answer.entries]
          [] OTHER -> rest

ReadSitemap ==
    /\ phase = "sitemaps" /\ maps.queue # <<>> /\ Cardinality(maps.seen) < SitemapLimit
    /\ IF Head(maps.queue) = Malformed
       THEN phase' = "failed" /\ UNCHANGED <<maps, faults>>
       ELSE LET url == Normal[Head(maps.queue)]
            IN  /\ \/ maps' = Read(maps, url) /\ UNCHANGED faults
                   \/ /\ url \notin maps.seen /\ faults < MaxFaults
                      /\ faults' = faults + 1
                      /\ maps' = [maps EXCEPT !.queue = Tail(@), !.seen = @ \cup {url}]
                /\ UNCHANGED phase
    /\ UNCHANGED <<site, lines, files, frontier, queued, batch, answers, pages, blocked, broken>>

Deduplicated(s) ==
    FoldLeft(LAMBDA acc, x : IF x \in ToSet(acc) THEN acc ELSE Append(acc, x), <<>>, s)

(* Mutants: a URL is queued each time it is met; a stack for a queue.       *)
EnqueueAgain(acc, url, depth) ==
    [frontier |-> Append(acc.frontier, <<url, depth>>), queued |-> acc.queued \cup {url}]
EnqueueFirst(acc, url, depth) ==
    IF url \in acc.queued THEN acc
    ELSE [frontier |-> <<<<url, depth>>>> \o acc.frontier, queued |-> acc.queued \cup {url}]

(* Put a URL at the end of the frontier, unless it was ever there.          *)
Enqueue(acc, url, depth) ==
    IF url \in acc.queued THEN acc
    ELSE [frontier |-> Append(acc.frontier, <<url, depth>>), queued |-> acc.queued \cup {url}]

Sow(acc, loc) ==
    IF Normal[loc] \in SameSite THEN Enqueue(acc, Normal[loc], 1) ELSE acc

(* The rest of discover_sitemaps, the two well-known files, and the seeds:  *)
(* the start URL and the first MaxPages entries of the sitemaps.            *)
Seed ==
    LET locs == Deduplicated(maps.locs)
        seeds == First(locs, MaxPages)
    IN  /\ phase = "sitemaps"
        /\ maps.queue = <<>> \/ Cardinality(maps.seen) >= SitemapLimit
        /\ maps' = [maps EXCEPT !.locs = locs]
        /\ \/ files' = [llms |-> site.llms, securityTxt |-> site.securityTxt] /\ UNCHANGED faults
           \/ /\ faults < MaxFaults /\ faults' = faults + 1
              /\ \/ files' = [llms |-> FALSE, securityTxt |-> site.securityTxt]
                 \/ files' = [llms |-> site.llms, securityTxt |-> FALSE]
        /\ IF Malformed \in ToSet(seeds)
           THEN phase' = "failed" /\ UNCHANGED <<frontier, queued>>
           ELSE LET acc == FoldLeft(Sow, [frontier |-> <<<<Start, 0>>>>, queued |-> {Start}], seeds)
                IN  /\ phase' = "fill"
                    /\ frontier' = acc.frontier /\ queued' = acc.queued
        /\ UNCHANGED <<site, lines, batch, answers, pages, blocked, broken>>

-----------------------------------------------------------------------------
(* crawl                                                                    *)

Room == Len(batch) < Workers /\ Len(pages) + Len(batch) < MaxPages

(* Take the next URL into the batch, unless it is too deep or forbidden.    *)
TakeNext ==
    LET next == Head(frontier)
        deep == next[2] > MaxDepth
    IN  /\ phase = "fill" /\ frontier # <<>> /\ Room
        /\ frontier' = Tail(frontier)
        /\ batch' = IF ~deep /\ allowed(next[1]) THEN Append(batch, next) ELSE batch
        /\ blocked' = IF ~deep /\ ~allowed(next[1]) THEN blocked \cup {next[1]} ELSE blocked
        /\ UNCHANGED <<site, phase, lines, maps, files, queued, answers, pages, broken, faults>>

StartBatch ==
    /\ phase = "fill" /\ (frontier = <<>> \/ ~Room) /\ batch # <<>>
    /\ phase' = "fetch"
    /\ answers' = [i \in 1..Len(batch) |-> "none"]
    /\ UNCHANGED <<site, lines, maps, files, frontier, queued, batch, pages, blocked, broken, faults>>

(* A thread of the pool.                                                    *)
FetchOne(i) ==
    /\ phase = "fetch" /\ i \in DOMAIN answers /\ answers[i] = "none"
    /\ \/ answers' = [answers EXCEPT ![i] = "answer"] /\ UNCHANGED faults
       \/ /\ faults < MaxFaults /\ faults' = faults + 1
          /\ answers' = [answers EXCEPT ![i] = "failure"]
    /\ UNCHANGED <<site, phase, lines, maps, files, frontier, queued, batch, pages, blocked, broken>>

Follow(acc, link, depth) ==
    IF link.internal /\ link.to \notin Assets THEN Enqueue(acc, Normal[link.to], depth + 1)
    ELSE acc
FollowAll(acc, links, depth) == FoldLeft(LAMBDA a, l : Follow(a, l, depth), acc, links)

(* pool.map returns when every thread has; the pages are then taken in the  *)
(* order of the batch.  An address that urljoin refuses makes the parser    *)
(* raise, out of the whole crawl.                                           *)
Absorb ==
    LET url == Head(batch)[1]
        depth == Head(batch)[2]
        got == IF Head(answers) = "answer" THEN site.web[url] ELSE Failure(url)
        page == [got EXCEPT !.depth = depth]
        acc == IF depth >= MaxDepth \/ ~is_ok(page) THEN [frontier |-> frontier, queued |-> queued]
               ELSE FollowAll([frontier |-> frontier, queued |-> queued], page.links, depth)
    IN  /\ phase = "fetch" /\ batch # <<>> /\ "none" \notin ToSet(answers)
        /\ batch' = Tail(batch) /\ answers' = Tail(answers)
        /\ IF page.raises THEN phase' = "failed" /\ UNCHANGED <<pages, frontier, queued>>
           ELSE /\ pages' = Append(pages, page)
                /\ frontier' = acc.frontier /\ queued' = acc.queued
                /\ phase' = IF Len(batch) = 1 THEN "fill" ELSE "fetch"
        /\ UNCHANGED <<site, lines, maps, files, blocked, broken, faults>>

-----------------------------------------------------------------------------
(* After the crawl.                                                         *)

Fetched == {p \in ToSet(pages) : is_ok(p) /\ p.html}

(* _compute_inlinks counts link tags, of a page to itself too.              *)
inlinks(url) == Cardinality({l \in Internal(LinksOf(Fetched)) : Normal[l[3].to] = url})

(* The outbound links in the order they are met, up to the limit.           *)
Outward(acc, link) ==
    IF link.internal \/ Normal[link.to] \in ToSet(acc) \/ Len(acc) >= MaxExternal THEN acc
    ELSE Append(acc, Normal[link.to])
OutwardOf(acc, p) == IF is_ok(p) /\ p.html THEN FoldLeft(Outward, acc, p.links) ELSE acc
External == ToSet(FoldLeft(OutwardOf, <<>>, pages))

Finish ==
    /\ phase = "fill" /\ batch = <<>>
    /\ frontier = <<>> \/ Len(pages) >= MaxPages
    /\ phase' = "crawled"
    /\ pages' = [i \in Indices(pages) |-> [pages[i] EXCEPT !.inlinks = inlinks(Normal[pages[i].url])]]
    /\ \E flaky \in SUBSET External :
         /\ faults' = faults + Cardinality(flaky) /\ faults' <= MaxFaults
         /\ broken' = (External \cap site.dead) \cup flaky
    /\ UNCHANGED <<site, lines, maps, files, frontier, queued, batch, answers, blocked>>

CrawlStep ==
    \/ LoadRobots \/ ReadSitemap \/ Seed
    \/ TakeNext \/ StartBatch \/ (\E i \in 1..Workers : FetchOne(i)) \/ Absorb \/ Finish

(* The context the rules are given.                                         *)
Context ==
    [start |-> Start, pages |-> pages, hasRobots |-> lines.found, robots |-> lines.text,
     sitemaps |-> maps.found, sitemapErrors |-> maps.errors, locs |-> ToSet(maps.locs),
     llms |-> files.llms, securityTxt |-> files.securityTxt,
     broken |-> {<<u>> : u \in broken}, foreign |-> Foreign,
     https |-> site.https, local |-> site.local, keywords |-> site.keywords, psi |-> site.psi]

-----------------------------------------------------------------------------
(* The URLs at most n links from the start, the entries of the sitemaps     *)
(* being one link away: what a crawl is for, said without its queue.        *)
Seeds == {Normal[l] : l \in ToSet(First(maps.locs, MaxPages)) \ {Malformed}} \cap SameSite
Targets(u) ==
    LET links == IF allowed(u) /\ is_ok(site.web[u]) THEN ToSet(site.web[u].links) ELSE {}
    IN  {Normal[l.to] : l \in {x \in links : x.internal /\ x.to \notin Assets}}
Within ==
    LET R[n \in 0..MaxDepth] ==
            IF n = 0 THEN {Start}
            ELSE R[n - 1] \cup (UNION {Targets(u) : u \in R[n - 1]}) \cup (IF n = 1 THEN Seeds ELSE {})
    IN  R

(* Whatever the threads' timing, the failures and the shape of the links,   *)
(* a URL is in the frontier, in the batch or among the pages at most once,  *)
(* the crawl never asks for more than MaxPages pages, and it asks for none  *)
(* that robots.txt forbids or that is too deep (crawler.py:127-157).        *)
VisitsBounded ==
    LET visits == frontier \o batch \o [i \in Indices(pages) |-> <<pages[i].url, pages[i].depth>>]
    IN  /\ \A i, j \in Indices(visits) : visits[i][1] = visits[j][1] => i = j
        /\ Len(pages) + Len(batch) <= MaxPages
        /\ \A i \in Indices(visits) :
             i > Len(frontier) => allowed(visits[i][1]) /\ visits[i][2] <= MaxDepth

(* A crawl with no failed request that finishes has every page it should    *)
(* have, each at its true distance from the start; one that was cut short   *)
(* by MaxPages left out nothing closer than what it took, although pages    *)
(* are taken in batches and enter the queue from sitemaps as well as from   *)
(* links (crawler.py:100-157).                                              *)
CrawlComplete(clean) ==
    (phase = "crawled" /\ clean) =>
        LET far == Within[MaxDepth]
            Distance(u) == CHOOSE n \in 0..MaxDepth :
                             u \in Within[n] /\ \A m \in 0..(n - 1) : u \notin Within[m]
            taken == {p.url : p \in ToSet(pages)}
        IN  /\ taken \subseteq far
            /\ \A p \in ToSet(pages) : p.depth = Distance(p.url)
            /\ \A u \in far \ taken :
                 allowed(u) => /\ Len(pages) = MaxPages
                               /\ \A p \in ToSet(pages) : p.depth <= Distance(u)
=============================================================================
