---- MODULE MCJobService ----
(* Small instances of JobService.                                           *)
EXTENDS JobService, TLC

(* A site's crawl and keyword study, analyses of them, a crawl of another   *)
(* tenant.  Each run picks the jobs it needs.                               *)
MCService(j) ==
    CASE j \in {"site", "rival1", "foreign"} -> "crawl"
      [] j = "words" -> "keyword"
      [] j = "content" -> "content"
      [] j = "plan" -> "optimizer"
      [] OTHER -> "competitor"
MCReads(j) ==
    CASE j \in {"content", "plan"} -> <<"site", "words">>
      [] j = "duel" -> <<"site", "foreign", "rival1">>
      [] OTHER -> <<>>

ServiceOf == [j \in Jobs |-> MCService(j)]
ReadsOf == [j \in Jobs |-> MCReads(j)]
TenantOf == [j \in Jobs |-> IF j = "foreign" THEN "B" ELSE "A"]

(* One worker for each service, and an API.                                 *)
ServesOf == [t \in Threads |-> IF t = "crawlapi" THEN "crawl" ELSE t]
====
