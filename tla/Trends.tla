------------------------------- MODULE Trends -------------------------------
(***************************************************************************)
(* trends.py: what changed between two audits of a site.  A report is      *)
(* [pages, headline, scores]: headline is a function from some of the      *)
(* metrics to numbers, in hundredths, and scores one from the categories   *)
(* in play to points.  A metric that was not measured is not in it.        *)
(***************************************************************************)
EXTENDS Integers, FiniteSets

Metrics ==
    {"overall_score", "total_issues", "keywords_found", "keywords_ranked",
     "average_position", "orphan_pages", "keyword_coverage", "behind_on"}
LowerIsBetter == {"total_issues", "average_position", "orphan_pages", "behind_on"}

(* How much must move before it is news.                                    *)
Threshold(m) ==
    CASE m \in {"overall_score", "total_issues"} -> 200
      [] m \in {"keywords_found", "keyword_coverage"} -> 500
      [] m = "average_position" -> 50
      [] OTHER -> 100

COUNTING == {"total_issues", "orphan_pages"}
CATEGORY_THRESHOLD == 3

Gap(a, b) == IF a < b THEN b - a ELSE a - b

(* SAMPLE_TOLERANCE is a fifth of the larger crawl.                         *)
similar(before, after) ==
    /\ before # 0 /\ after # 0
    /\ 5 * Gap(before, after) <= (IF before < after THEN after ELSE before)

(* Mutant: up is better, of whatever it is.                                 *)
DirectionOfSign(delta, threshold, higher) ==
    IF delta < threshold /\ -delta < threshold THEN "level"
    ELSE IF delta > 0 THEN "better" ELSE "worse"

Direction(delta, threshold, higher) ==
    IF delta < threshold /\ -delta < threshold THEN "level"
    ELSE IF (delta > 0) = higher THEN "better" ELSE "worse"

(* The metrics both audits measured, less those that only a crawl of the    *)
(* same size can compare.                                                   *)
Compared(previous, current) ==
    (DOMAIN previous.headline \cap DOMAIN current.headline)
    \ (IF similar(previous.pages, current.pages) THEN {} ELSE COUNTING)

categories(previous, current) ==
    [c \in DOMAIN previous.scores \cap DOMAIN current.scores |->
        Direction(current.scores[c] - previous.scores[c], CATEGORY_THRESHOLD, TRUE)]

compare(previous, current) ==
    [changes |-> [m \in Compared(previous, current) |->
                    Direction(current.headline[m] - previous.headline[m], Threshold(m),
                              m \notin LowerIsBetter)],
     categories |-> categories(previous, current),
     comparable |-> similar(previous.pages, current.pages)]

Moved(trend, way) ==
    {m \in DOMAIN trend.changes : trend.changes[m] = way}
    \cup {c \in DOMAIN trend.categories : trend.categories[c] = way}
=============================================================================
