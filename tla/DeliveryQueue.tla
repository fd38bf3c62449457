--------------------------- MODULE DeliveryQueue ----------------------------
(***************************************************************************)
(* What the delivery service promises of a row of webhook_deliveries (the  *)
(* state diagram of docs/WEBHOOKS.md): it stays pending until it has been  *)
(* acknowledged or given up, delivered means acknowledged, nothing is sent *)
(* once it is settled, and both ends are final but for a redrive of a      *)
(* failed delivery and for the removal of settled rows, or of all rows     *)
(* with their subscription.  A redrive of a row whose removal has begun is *)
(* lost with it.  The promise ends for a delivery whose worker outlives    *)
(* its lease ("late"), also one that is being removed.                     *)
(***************************************************************************)
CONSTANT Deliveries

VARIABLES status,   \* of each delivery
          acked     \* deliveries the subscriber has answered with a 2xx

Init ==
    /\ status = [i \in Deliveries |-> "none"]
    /\ acked = {}

Accept(i) ==
    /\ status[i] = "none"
    /\ status' = [status EXCEPT ![i] = "pending"]
    /\ UNCHANGED acked

Acknowledge(i) ==
    /\ status[i] \in {"pending", "gone", "late"}
    /\ acked' = acked \cup {i}
    /\ UNCHANGED status

Deliver(i) ==
    /\ status[i] = "pending"
    /\ i \in acked
    /\ status' = [status EXCEPT ![i] = "delivered"]
    /\ UNCHANGED acked

GiveUp(i) ==
    /\ status[i] = "pending"
    /\ status' = [status EXCEPT ![i] = "failed"]
    /\ UNCHANGED acked

Redrive(S) ==
    /\ \A i \in S : status[i] = "failed"
    /\ status' = [i \in Deliveries |-> IF i \in S THEN "pending" ELSE status[i]]
    /\ UNCHANGED acked

Lapse(i) ==
    /\ status[i] \in {"pending", "gone"}
    /\ status' = [status EXCEPT ![i] = "late"]
    /\ UNCHANGED acked

DropAll ==
    /\ status' = [i \in Deliveries |->
                    IF status[i] \in {"none", "late"} THEN status[i] ELSE "gone"]
    /\ UNCHANGED acked

Remove(S) ==
    /\ \A i \in S : status[i] \in {"delivered", "failed"}
    /\ status' = [i \in Deliveries |-> IF i \in S THEN "gone" ELSE status[i]]
    /\ UNCHANGED acked

Next ==
    \/ \E i \in Deliveries :
        Accept(i) \/ Acknowledge(i) \/ Deliver(i) \/ GiveUp(i) \/ Lapse(i)
    \/ DropAll
    \/ \E S \in SUBSET Deliveries : Redrive(S) \/ Remove(S)

Spec == Init /\ [][Next]_<<status, acked>>
=============================================================================
