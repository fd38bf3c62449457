------------------------- MODULE MCWebhookDelivery --------------------------
(* Instances of WebhookDelivery for TLC. *)
EXTENDS WebhookDelivery

OneEach == [t \in Tasks |-> IF t = "t1" THEN "w1" ELSE "w2"]
=============================================================================
