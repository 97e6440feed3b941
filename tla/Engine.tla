------------------------------- MODULE Engine -------------------------------
(***************************************************************************)
(* The engine as its dashboard runs it: an audit job crawls the site, runs *)
(* the rules and stores a report; between two audits the owner may repair  *)
(* one of the site's defects.  The link analysis and the trend, which the  *)
(* platform computes from stored reports, are computed from the same ones. *)
(*                                                                         *)
(* One audit works at a time; the other jobs are keyword research, whose   *)
(* work is left open.                                                      *)
(***************************************************************************)
EXTENDS Crawler, Dashboard

CONSTANTS
    AuditJobs,      \* the jobs that audit; the others research keywords
    Node,           \* internal_links normalise, a function on spellings
    Empty,          \* stands for the report of no audit
    SiteOf(_),      \* the site that has a given set of defects
    FirstDefects    \* the sets of defects a site may start with

ASSUME JobAssumption == "none" \notin Jobs
ASSUME SiteAssumption ==
    \A D \in FirstDefects : \A d \in SUBSET D : WellFormed(SiteOf(d))

G == INSTANCE LinkGraph
T == INSTANCE Trends

VARIABLES
    defects,        \* what is wrong with the site
    auditing,       \* the audit that is working, or "none"
    spent,          \* the faults when it began
    previous, current   \* the last two reports

engineVars == <<defects, auditing, spent, previous, current>>
vars == <<site, crawlVars, dashVars, engineVars>>

Init ==
    /\ defects \in FirstDefects
    /\ CrawlInit({SiteOf(defects)})
    /\ DashInit
    /\ auditing = "none" /\ spent = 0 /\ previous = Empty /\ current = Empty

-----------------------------------------------------------------------------
(* report.internal_edges: the links of every page, in order, as authored.   *)
AddEdge(acc, url, link) ==
    IF link.internal THEN Append(acc, [from |-> url, to |-> link.to, anchor |-> link.anchor])
    ELSE acc
AddEdges(acc, p) == FoldLeft(LAMBDA a, l : AddEdge(a, p.url, l), acc, p.links)
Edges == FoldLeft(AddEdges, <<>>, pages)

Rows ==
    [i \in 1..Len(pages) |->
        [url |-> pages[i].url, status |-> pages[i].status, indexable |-> is_indexable(pages[i])]]

Graph == G!build([rows |-> Rows, edges |-> Edges])

Report ==
    LET report == build_report(Context, run_all(Context))
    IN  [pages |-> report.pages, scores |-> report.scores, issues |-> report.issues,
         headline |-> [overall_score |-> 100 * report.overall,
                       total_issues |-> 100 * Cardinality(report.issues),
                       orphan_pages |-> 100 * Cardinality(G!orphans(Graph, Start))],
         html |-> Cardinality(html_pages(Context)), defects |-> defects]

-----------------------------------------------------------------------------
(* POST /api/audit and /api/keywords.                                       *)
Submit(j) == Create(j) /\ UNCHANGED <<site, crawlVars, engineVars>>

BeginAudit(j) ==
    /\ j \in AuditJobs /\ auditing = "none" /\ Begin(j)
    /\ auditing' = j /\ spent' = faults
    /\ Reset("robots")
    /\ UNCHANGED <<site, faults, defects, previous, current>>

Crawl == auditing # "none" /\ CrawlStep /\ UNCHANGED <<dashVars, engineVars>>

(* _run_audit after the crawl.                                              *)
FinishAudit ==
    /\ auditing # "none" /\ phase = "crawled" /\ WorkReturns(auditing)
    /\ previous' = current /\ current' = Report
    /\ auditing' = "none" /\ phase' = "idle"
    /\ UNCHANGED <<site, lines, maps, files, frontier, queued, batch, answers, pages, blocked,
                   broken, faults, defects, spent>>

FailAudit ==
    /\ auditing # "none" /\ phase = "failed" /\ WorkRaises(auditing)
    /\ auditing' = "none" /\ phase' = "idle"
    /\ UNCHANGED <<site, lines, maps, files, frontier, queued, batch, answers, pages, blocked,
                   broken, faults, defects, spent, previous, current>>

Research(j) ==
    /\ j \notin AuditJobs
    /\ Begin(j) \/ WorkReturns(j) \/ WorkRaises(j)
    /\ UNCHANGED <<site, crawlVars, engineVars>>

Store(j) == (WriteTemp(j) \/ Rename(j) \/ Flip(j)) /\ UNCHANGED <<site, crawlVars, engineVars>>

Reboot ==
    /\ Restart
    /\ auditing' = "none" /\ Reset("idle")
    /\ UNCHANGED <<site, faults, defects, spent, previous, current>>

(* The owner repairs one defect, once, between two audits.                  *)
Fix(d) ==
    /\ auditing = "none" /\ current # Empty /\ previous = Empty
    /\ defects = current.defects /\ d \in defects
    /\ defects' = defects \ {d} /\ site' = SiteOf(defects')
    /\ UNCHANGED <<crawlVars, dashVars, auditing, spent, previous, current>>

(* The bounded session is over: the only state the system may stop in.      *)
Quiescent == (\A j \in Jobs : thread[j] = "over") /\ UNCHANGED vars

Next ==
    \/ Crawl \/ FinishAudit \/ FailAudit \/ Reboot \/ Quiescent
    \/ \E j \in Jobs : Submit(j) \/ BeginAudit(j) \/ Research(j) \/ Store(j)
    \/ \E d \in defects : Fix(d)

Spec == Init /\ [][Next]_vars

-----------------------------------------------------------------------------
(* Crawler.CrawlComplete, of the audits in which no request failed.         *)
EveryPageFound == CrawlComplete(faults = spent)

(* Nothing is wrong in the second report that was not in the first, on as   *)
(* many pages.                                                              *)
NothingNew ==
    /\ previous # Empty /\ previous.html = current.html
    /\ \A i \in current.issues : \E o \in previous.issues :
         o.id = i.id /\ o.about = i.about /\ i.n <= o.n

(* trends.py:1-19, "is it getting better": an audit that finds nothing new  *)
(* is never said to be worse than the one before, in no category and no     *)
(* headline number.  The one exception is the overall score when a category *)
(* left the average with its last issue (report.py:220-262).                *)
NothingNewNotWorse ==
    NothingNew =>
        T!Moved(T!compare(previous, current), "worse")
            \subseteq IF DOMAIN previous.scores = DOMAIN current.scores THEN {}
                      ELSE {"overall_score"}

(* The engine's rule and the link service both name the orphan pages, one   *)
(* from counted link tags and one from the graph of distinct pages.  They   *)
(* differ only on a page that links to itself, on links whose page did not  *)
(* answer well, on an address whose spellings only one of them takes for    *)
(* the same, and on the smallest sites (rules/links.py:22-28,               *)
(* internal_links/analyze.py:187-193).                                      *)
OrphanVerdicts ==
    phase = "crawled" =>
        LET engine == UNION {i.on : i \in {x \in check_orphans(Context) : x.id = "orphan-pages"}}
            service == G!orphans(Graph, Start)
            few == Cardinality(indexable_pages(Context)) < 3
            Into(n) == {e \in ToSet(Edges) : Node[e.to] = n}
            known == {p.url : p \in ToSet(pages)}
            Met == known \cup {Start} \cup {e.to : e \in ToSet(Edges)}
        IN  /\ \A u \in engine :
                 \/ Node[u] \in service
                 \/ \E v \in Met : Node[v] = Node[u] /\ Normal[v] # Normal[u]
                 \/ \E e \in Into(Node[u]) : e.from \notin {p.url : p \in Fetched}
            /\ \A n \in service \ {Node[u] : u \in engine} :
                 \/ few
                 \/ \E u \in known, v \in Met : Node[u] = n /\ Normal[v] = Normal[u] /\ Node[v] # n
                 \/ \E e \in Into(n) : Node[e.from] = n
=============================================================================
