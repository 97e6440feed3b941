------------------------------ MODULE LinkGraph ------------------------------
(***************************************************************************)
(* internal_links/analyze.py: the graph of a site's own links.  Its report *)
(* is the one a crawl stores: rows, the pages, and edges, a sequence of    *)
(* [from, to, anchor] in the order they were found.  Node spells an        *)
(* address the way this service does, which drops a trailing slash where   *)
(* the crawler keeps it.                                                   *)
(***************************************************************************)
EXTENDS Integers, Sequences, FiniteSetsExt

CONSTANT Node           \* normalise, a function on spellings of URLs

Last(rows, url) == rows[Max({i \in 1..Len(rows) : Node[rows[i].url] = url})]

(* Pages with one spelling are one node, the last row of them; a link of a  *)
(* page to itself is dropped.                                               *)
build(report) ==
    LET urls == {Node[report.rows[i].url] : i \in 1..Len(report.rows)}
        E == {i \in 1..Len(report.edges) :
                Node[report.edges[i].from] # Node[report.edges[i].to]}
    IN  [pages |-> [u \in urls |-> Last(report.rows, u)],
         edges |-> {[source |-> Node[report.edges[i].from], target |-> Node[report.edges[i].to],
                     anchor |-> report.edges[i].anchor, at |-> i] : i \in E}]

(* Mutant: the links of the page for the links to it.                       *)
OutlinkCount(graph, url) ==
    Cardinality({e.target : e \in {x \in graph.edges : x.source = url}})

(* Distinct linking pages, not link tags.                                   *)
inlink_count(graph, url) ==
    Cardinality({e.source : e \in {x \in graph.edges : x.target = url}})

orphans(graph, start) ==
    {u \in DOMAIN graph.pages :
        graph.pages[u].indexable /\ inlink_count(graph, u) = 0 /\ u # Node[start]}
=============================================================================
