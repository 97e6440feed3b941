-------------------------------- MODULE Score --------------------------------
(***************************************************************************)
(* report.py: the score of a crawl and its issues.  Fractions are kept in  *)
(* thousandths; the square root is rounded down to one.                    *)
(***************************************************************************)
EXTENDS Rules

Categories ==
    {"indexing", "content", "technical", "performance", "structured_data",
     "links", "images", "eeat", "international", "ai_search"}

SeverityWeight ==
    [critical |-> 30, high |-> 15, medium |-> 7, low |-> 3, info |-> 0]

(* In tenths.                                                               *)
CATEGORY_WEIGHT ==
    [indexing |-> 14, content |-> 14, technical |-> 12, performance |-> 12,
     links |-> 10, structured_data |-> 8, images |-> 7, eeat |-> 10,
     ai_search |-> 7, international |-> 5]

(* 1000 * sqrt(a / n), for a <= n.                                          *)
Root(a, n) ==
    CHOOSE r \in 0..1000 :
        r * r * n <= a * 1000000 /\ (r + 1) * (r + 1) * n > a * 1000000

(* Python's round of a / b, to the even neighbour when halfway.             *)
Round(a, b) ==
    LET q == a \div b
        twice == 2 * (a - q * b)
    IN  IF twice > b \/ (twice = b /\ q % 2 = 1) THEN q + 1 ELSE q

Least(a, b) == IF a < b THEN a ELSE b
Most(a, b) == IF a < b THEN b ELSE a

(* In thousandths of a point.                                               *)
penalty(issue, page_count) ==
    LET base == SeverityWeight[issue.sev]
        breadth == Root(Least(Most(1, issue.n), page_count), page_count)
    IN  base * 550 + (base * 450 * breadth) \div 1000

active_categories(ctx, issues) ==
    (Categories \ {"images", "international"})
    \cup (IF \E p \in html_pages(ctx) : p.images # <<>> THEN {"images"} ELSE {})
    \cup (IF \/ \E p \in html_pages(ctx) : p.hreflang # {}
             \/ \E i \in issues : i.cat = "international"
          THEN {"international"} ELSE {})

category_score(ctx, issues, cat) ==
    LET page_count == Most(1, Cardinality(html_pages(ctx)))
        total == MapThenSumSet(LAMBDA i : penalty(i, page_count), {i \in issues : i.cat = cat})
    IN  Most(0, Round(100000 - total, 1000))

(* The part of build_report that the consumers of a report see: the score,  *)
(* the scores of the categories in play, the issues and the pages.          *)
build_report(ctx, issues) ==
    LET active == active_categories(ctx, issues)
        scores == [c \in active |-> category_score(ctx, issues, c)]
        weight == MapThenSumSet(LAMBDA c : CATEGORY_WEIGHT[c], active)
        mean == Round(MapThenSumSet(LAMBDA c : scores[c] * CATEGORY_WEIGHT[c], active), weight)
        critical == \E i \in issues : i.sev = "critical"
    IN  [overall |-> IF critical THEN Least(mean, 45) ELSE mean,
         scores |-> scores, issues |-> issues, pages |-> Len(ctx.pages)]
=============================================================================
