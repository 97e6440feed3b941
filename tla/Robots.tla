------------------------------- MODULE Robots -------------------------------
(***************************************************************************)
(* robots.txt as the engine reads it, three times: urllib's parser, which  *)
(* decides what the crawler may fetch, the rule that looks for a site      *)
(* blocked as a whole, and the rule that looks for blocked AI crawlers.    *)
(*                                                                         *)
(* A file is a sequence of lines [key, val, covers].  key is "agent",      *)
(* "disallow", "allow", "sitemap", "delay" or "blank"; val is an agent or  *)
(* a path, where "/" is everything, "" nothing and "assets" a path of      *)
(* style sheets or scripts; covers is the set of URLs below that path.     *)
(***************************************************************************)
EXTENDS SequencesExt

AI_CRAWLERS == {"gptbot", "ccbot"}

-----------------------------------------------------------------------------
(* urllib.robotparser.  A group of agents ends at a blank line or at an     *)
(* agent that follows a rule; the first group for every agent is the        *)
(* default.  The crawler calls itself "Mozilla/5.0 ...", which the parser   *)
(* cuts at the slash, so that no other group of the file applies to it.     *)

NoGroup == [agents |-> {}, rules |-> <<>>]

Close(acc) ==
    [state |-> 0, group |-> NoGroup,
     default |-> IF acc.state = 2 /\ acc.default = NoGroup /\ "*" \in acc.group.agents
                 THEN acc.group ELSE acc.default]

ReadLine(acc, line) ==
    LET fresh == IF line.key = "agent" /\ acc.state = 2 THEN Close(acc) ELSE acc
    IN  CASE line.key = "blank" -> Close(acc)
          [] line.key = "agent" ->
               [fresh EXCEPT !.state = 1, !.group.agents = @ \cup {line.val}]
          [] line.key \in {"disallow", "allow"} /\ acc.state # 0 ->
               [acc EXCEPT !.state = 2, !.group.rules = Append(@, line)]
          [] line.key = "delay" /\ acc.state # 0 -> [acc EXCEPT !.state = 2]
          [] OTHER -> acc

DefaultGroup(lines) ==
    Close(FoldLeft(ReadLine, [state |-> 0, group |-> NoGroup, default |-> NoGroup], lines)).default

(* The first rule whose path the URL starts with decides; an empty path     *)
(* forbids nothing.                                                         *)
can_fetch(lines, url) ==
    LET rules == DefaultGroup(lines).rules
        hits == {i \in 1..Len(rules) : rules[i].val = "" \/ url \in rules[i].covers}
    IN  \/ hits = {}
        \/ LET rule == rules[Min(hits)]
           IN  rule.key = "allow" \/ rule.val = ""

-----------------------------------------------------------------------------
(* rules/technical.py.  The agents read so far are forgotten at any line    *)
(* that is neither an agent nor a rule, and at nothing else: a blank line   *)
(* and a new group keep them.                                               *)

ScanBlock(acc, line) ==
    CASE line.key = "blank" -> acc
      [] line.key = "agent" -> [acc EXCEPT !.agents = @ \cup {line.val}]
      [] line.key = "disallow" ->
           [acc EXCEPT !.blocks = @ \/ /\ line.val = "/"
                                       /\ acc.agents \cap {"*", "googlebot"} # {}]
      [] line.key = "allow" -> acc
      [] OTHER -> [acc EXCEPT !.agents = {}]

blocks_everything(lines) ==
    FoldLeft(ScanBlock, [agents |-> {}, blocks |-> FALSE], lines).blocks

(* rules/ai_search.py.  Here a blank line is what ends a group.             *)
ScanAi(acc, line) ==
    CASE line.key = "agent" -> [acc EXCEPT !.agents = @ \cup {line.val}]
      [] line.key = "disallow" /\ line.val = "/" ->
           [acc EXCEPT !.blocked = @ \cup (acc.agents \cap AI_CRAWLERS)]
      [] line.key = "blank" -> [acc EXCEPT !.agents = {}]
      [] OTHER -> acc

ai_blocked(lines) == FoldLeft(ScanAi, [agents |-> {}, blocked |-> {}], lines).blocked
ai_mentioned(lines) == {l.val : l \in {x \in ToSet(lines) : x.key = "agent"}} \cap AI_CRAWLERS

(* rules/indexing.py: the paths a noindex page must not lie below.          *)
disallowed_paths(lines) ==
    {l \in ToSet(lines) : l.key = "disallow" /\ l.val \notin {"", "/"}}

(* fetcher.py: the addresses of the Sitemap lines.                          *)
robots_sitemaps(lines) ==
    LET named == SelectSeq(lines, LAMBDA l : l.key = "sitemap" /\ l.val # "")
    IN  [i \in 1..Len(named) |-> named[i].val]
=============================================================================
