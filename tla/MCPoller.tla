------------------------------ MODULE MCPoller ------------------------------
(***************************************************************************)
(* poller::run for TLC: the poll cycle (Ingestion) and the retention pass  *)
(* it runs after a cycle (Retention).  The pass works on tables of which   *)
(* Ingestion models only the events' identity, so `job` is the part that   *)
(* runs and the other rests.                                               *)
(***************************************************************************)
EXTENDS MCIngestion, Retention

VARIABLE job

PollerInit == job \in {"poll", "retention"} /\ Init /\ RetentionInit

PollerNext ==
    /\ UNCHANGED job
    /\ \/ job = "poll" /\ Next /\ UNCHANGED retentionVars
       \/ job = "retention" /\ RetentionNext /\ UNCHANGED vars

(* The fairness of Ingestion and of Retention, asked of the part that runs *)
(* (Retention's actions are disabled while it rests).                      *)
PollerFairness ==
    /\ WF_vars(job = "poll" /\ CloseLedger)
    /\ \A p \in Pollers :
          /\ WF_vars(job = "poll" /\ PollStep(p))
          /\ WF_vars(job = "poll" /\ Restart(p))
          /\ WF_vars(job = "poll" /\ KeepaliveExit(p))
          /\ WF_vars(job = "poll" /\ AcquireLock(p))
          /\ <>[][~Outage(p)]_vars
    /\ RetentionFairness

PollerSpec ==
    PollerInit /\ [][PollerNext]_<<job, vars, retentionVars>> /\ PollerFairness
=============================================================================
