---- MODULE MCNotifications ----
(* Small instances of Notifications.                                        *)
EXTENDS Notifications, TLC

(* A webhook that asks for everything, an email channel of the same tenant  *)
(* that asks for reports, and a channel of another tenant.                  *)
TenantOf == [c \in Channels |-> IF c = "other" THEN "B" ELSE "A"]
EventTenantOf == [e \in Events |-> IF e = "elsewhere" THEN "B" ELSE "A"]
TypeOf == [e \in Events |-> IF e = "audit" THEN "workflow.completed" ELSE "report.rendered"]
AskedOf == [c \in Channels |-> IF c = "mail" THEN {"report.rendered"} ELSE {}]

(* One redelivery or one failure; the channel of the other tenant stays.    *)
OneMishap == extras' + faults' <= 1 /\ ("other" \in Channels => channel'["other"] # "deleted")
====
