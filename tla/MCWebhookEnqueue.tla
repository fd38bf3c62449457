-------------------------- MODULE MCWebhookEnqueue --------------------------
(* Instances of WebhookEnqueue for TLC: an event and an upgrade            *)
(* subscription; the first row of the upgrade stream is a baseline.        *)
EXTENDS WebhookEnqueue

TwoKinds == [s \in Subs |-> IF s = "hook" THEN "event" ELSE "upgrade"]
EventKind == [s \in Subs |-> "event"]
MatchAll == [s \in Subs |-> 1..MaxId]
FirstVersion == [k \in Streams |-> IF k = "upgrade" THEN {1} ELSE {}]
=============================================================================
