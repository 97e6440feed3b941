---- MODULE MCOutbox ----
(* Small instances of Outbox.                                               *)
EXTENDS Outbox, TLC

(* A crawl request for the crawl service, and its completion, which both    *)
(* the orchestrator and a second service are bound to.  The ids are drawn   *)
(* in the other order than the names suggest.                               *)
IdOf == [e \in Events |-> IF e = "request" THEN 2 ELSE 1]
KeyOf == [e \in Events |-> IF e = "request" THEN "crawl.requested" ELSE "crawl.completed"]
BindsOf == [q \in Queues |->
                IF q = "crawl" THEN {"crawl.requested"} ELSE {"crawl.completed"}]
ConsumesOf == [c \in Consumers |-> IF c = "orchestrator2" THEN "orchestrator" ELSE c]

(* One failure of any kind.                                                 *)
OneFailure == faults' + blips' <= 1
====
