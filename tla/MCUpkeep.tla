------------------------------ MODULE MCUpkeep ------------------------------
(***************************************************************************)
(* Three jobs on the tables for TLC: the backfill command beside the live  *)
(* poller, the interface history, and the webhook enqueue pass.  Each of   *)
(* their modules models the rows it uses; `job` is the one that runs, the  *)
(* others rest.                                                            *)
(***************************************************************************)
EXTENDS Backfill, SpecHistory, MCWebhookEnqueue

VARIABLE job

ThreeEvents == <<1, 2, 2>>

UpkeepInit ==
    /\ job \in {"backfill", "history", "enqueue"}
    /\ BackfillInit /\ HistoryInit /\ EnqueueInit
    /\ job # "history" => wasm = CHOOSE h \in Hashes : TRUE

UpkeepNext ==
    /\ UNCHANGED job
    /\ \/ /\ job = "backfill" /\ BackfillNext
          /\ UNCHANGED <<historyVars, enqueueVars>>
       \/ /\ job = "history" /\ HistoryNext
          /\ UNCHANGED <<bfVars, enqueueVars>>
       \/ /\ job = "enqueue" /\ EnqueueNext
          /\ UNCHANGED <<bfVars, historyVars>>

(* HistoryFairness and EnqueueFairness, asked of the job that runs.        *)
UpkeepFairness ==
    /\ \A p \in Loaders : WF_historyVars(job = "history" /\ LoadStep(p))
    /\ \A p \in Procs :
          /\ WF_historyVars(job = "history" /\ WatchStep(p))
          /\ WF_historyVars(job = "history" /\ ErrorExpires(p))
          /\ SF_historyVars(job = "history" /\ Get(p))
          /\ SF_historyVars(job = "history" /\ ReadInstance(p))
    /\ \A d \in Dispatchers :
          /\ WF_enqueueVars(job = "enqueue" /\ PassStep(d))
          /\ <>[][~PassCutShort(d)]_enqueueVars

UpkeepSpec ==
    /\ UpkeepInit
    /\ [][UpkeepNext]_<<job, bfVars, historyVars, enqueueVars>>
    /\ UpkeepFairness

(* HistoryCatchesUp of SpecHistory, when the indexer's loads run: the      *)
(* recorded interface follows the deployed one across crashes, missed      *)
(* checks and RPC errors (record_version, note_wasm_hash).                 *)
HistoryHeals == job = "history" => HistoryCatchesUp

(* StateCatchesUp of SpecHistory, when the indexer's cycles run: the       *)
(* newest snapshot becomes the contract's current state (try_snapshot).    *)
SnapshotsHeal == job = "history" => StateCatchesUp
=============================================================================
