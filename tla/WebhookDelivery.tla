-------------------------- MODULE WebhookDelivery ---------------------------
(***************************************************************************)
(* The delivery side of the webhook service (dispatcher.rs: fetch_due,     *)
(* deliver_with_shutdown, send, the mark_* updates, the automatic disable),*)
(* with the routes and the pruner that change the same rows.  All          *)
(* deliveries modelled belong to one subscription.                         *)
(*                                                                         *)
(* deliver_with_shutdown claims rows until a fetch comes back empty, one   *)
(* future per row, and only then polls the futures, which take the permits *)
(* themselves: what is claimed is not bounded by the permits, and a claim  *)
(* may wait for longer than its lease.  Every statement of a future is a   *)
(* step.  Time is abstracted to what the queries compare with now():       *)
(* whether a row is due, whether its lease still runs, whether the last    *)
(* success is a day old.                                                   *)
(***************************************************************************)
EXTENDS Integers, FiniteSets

CONSTANTS
    Deliveries,        \* rows of webhook_deliveries that may be enqueued
    Upgrades,          \* those whose source is an interface version
    Tasks,             \* bound: futures in flight at a time
    Workers,           \* service processes
    WorkerOf,          \* the process each task runs in
    MaxAttempts,       \* WEBHOOK_MAX_ATTEMPTS
    FailureThreshold,  \* WEBHOOK_FAILURE_THRESHOLD
    MaxFaults          \* bound: crashes and failed statements

ASSUME DeliveryAssumption ==
    /\ Upgrades \subseteq Deliveries
    /\ WorkerOf \in [Tasks -> Workers]
    /\ MaxAttempts \in Nat \ {0}
    /\ FailureThreshold \in Nat \ {0}
    /\ MaxFaults \in Nat

VARIABLES
    row,      \* webhook_deliveries
    sub,      \* the row of webhook_subscriptions
    task,     \* the futures of deliver_with_shutdown
    draining, \* workers that have stopped claiming and poll their futures
    redrive,  \* a redrive request is between its two statements
    pruning,  \* rows the pruner's subquery has selected
    faults,   \* crashes and failed statements so far
    acked,    \* history: deliveries answered with a 2xx
    posts,    \* history: attempts since it was (re)driven, unless it is late
    late      \* history: deliveries whose lease ran out under a task
vars == <<row, sub, task, draining, redrive, pruning, faults, acked, posts, late>>
history == <<acked, posts, late>>

Statuses == {"none", "pending", "delivered", "failed", "gone"}
NoTask == [pc |-> "free", id |-> "none", attempts |-> 0, ok |-> FALSE]
(* What is left of a task that is done with the row. *)
Done(pc) == [NoTask EXCEPT !.pc = pc]
Row(status, attempts, due, leased) ==
    [status |-> status, attempts |-> attempts, due |-> due, leased |-> leased]

(* The task owns, or thinks it owns, the row. *)
Holding == {"unreadable", "claimed", "disable410", "mark"}
Holds(t, i) == task[t].pc \in Holding /\ task[t].id = i

(* Failure counters matter only up to the threshold. *)
OneMore(n) == IF n < FailureThreshold THEN n + 1 ELSE n

Init ==
    /\ row = [i \in Deliveries |-> Row("none", 0, FALSE, FALSE)]
    /\ sub = [exists |-> TRUE, active |-> TRUE, disabled |-> FALSE,
              failures |-> 0, last |-> "never"]
    /\ task = [t \in Tasks |-> NoTask]
    /\ draining = {}
    /\ redrive = FALSE
    /\ pruning = {}
    /\ faults = 0
    /\ acked = {}
    /\ posts = [i \in Deliveries |-> 0]
    /\ late = {}

(* The enqueue pass gives the subscription a delivery, due at once. *)
Enqueue(i) ==
    /\ row[i].status = "none"
    /\ sub.active
    /\ row' = [row EXCEPT ![i] = Row("pending", 0, TRUE, FALSE)]
    /\ UNCHANGED <<sub, task, draining, redrive, pruning, faults, history>>

-----------------------------------------------------------------------------
(* Time *)

(* next_attempt_at is reached. *)
BackoffElapses(i) ==
    /\ row[i].status = "pending" /\ ~row[i].due
    /\ row' = [row EXCEPT ![i].due = TRUE]
    /\ UNCHANGED <<sub, task, draining, redrive, pruning, faults, history>>

(* locked_until is reached. *)
LeaseRunsOut(i) ==
    /\ row[i].leased
    /\ row' = [row EXCEPT ![i].leased = FALSE]
    /\ late' = IF \E t \in Tasks : Holds(t, i) THEN late \cup {i} ELSE late
    /\ posts' = IF i \in late' THEN [posts EXCEPT ![i] = 0] ELSE posts
    /\ UNCHANGED <<sub, task, draining, redrive, pruning, faults, acked>>

(* 24 hours since last_success_at or, before any success, first_failure_at. *)
DayPasses ==
    /\ sub.last = "recent"
    /\ sub' = [sub EXCEPT !.last = "old"]
    /\ UNCHANGED <<row, task, draining, redrive, pruning, faults, history>>

-----------------------------------------------------------------------------
(* fetch_due *)

(* Mutant of Claimable: the lease is not looked at. *)
ClaimableAnyway(i) == row[i].status = "pending" /\ row[i].due

(* Mutant of Claimable: what is pending when the subscription is switched  *)
(* off stays behind.                                                       *)
ClaimableIfActive(i) ==
    row[i].status = "pending" /\ row[i].due /\ ~row[i].leased /\ sub.active

(* Pending, due and not leased, whatever the state of the subscription. *)
Claimable(i) == row[i].status = "pending" /\ row[i].due /\ ~row[i].leased

(* The UPDATE ... FOR UPDATE SKIP LOCKED gives row i to a task of a worker *)
(* that is claiming.  The secret it returns decrypts or not.               *)
Claim(t, i, pc) ==
    /\ task[t].pc = "free"
    /\ WorkerOf[t] \notin draining
    /\ Claimable(i)
    /\ pc \in {"claimed", "unreadable"}
    /\ row' = [row EXCEPT ![i].leased = TRUE]
    /\ task' = [task EXCEPT ![t] = [pc |-> pc, id |-> i,
                                   attempts |-> row[i].attempts, ok |-> FALSE]]
    /\ UNCHANGED <<sub, draining, redrive, pruning, faults, history>>

(* UPDATE ... WHERE id = $1: nothing happens when the row is gone. *)
Write(i, r) == IF row[i].status = "gone" THEN row ELSE [row EXCEPT ![i] = r]

(* Mutant of MarkFailed: a status no query knows. *)
MarkErrored(i) == Write(i, [row[i] EXCEPT !.status = "error", !.leased = FALSE])

(* mark_failed_undecryptable, mark_failed_permanent: no attempt is counted. *)
MarkFailed(i) == Write(i, [row[i] EXCEPT !.status = "failed", !.leased = FALSE])

(* The secret does not decrypt: the delivery fails, and the subscription   *)
(* is disabled afterwards.                                                 *)
Undecryptable(t) ==
    /\ task[t].pc = "unreadable"
    /\ row' = MarkFailed(task[t].id)
    /\ task' = [task EXCEPT ![t] = Done("badSecret")]
    /\ UNCHANGED <<sub, draining, redrive, pruning, faults, history>>

(* The interface version the delivery is about has been pruned. *)
SourcePruned(t) ==
    /\ task[t].pc = "claimed"
    /\ task[t].id \in Upgrades
    /\ row' = MarkFailed(task[t].id)
    /\ task' = [task EXCEPT ![t] = NoTask]
    /\ UNCHANGED <<sub, draining, redrive, pruning, faults, history>>

-----------------------------------------------------------------------------
(* deliver_with_shutdown *)

TasksOf(w) == {t \in Tasks : WorkerOf[t] = w}

(* A fetch returned no delivery to send: nothing was claimable, what was   *)
(* claimable was locked or unreadable, or the service is shutting down.    *)
StopClaiming(w) ==
    /\ w \notin draining
    /\ \E t \in TasksOf(w) : task[t].pc = "claimed"
    /\ \A t \in TasksOf(w) : task[t].pc \in {"free", "claimed"}
    /\ draining' = draining \cup {w}
    /\ UNCHANGED <<row, sub, task, redrive, pruning, faults, history>>

(* All futures are done; the delivery loop calls deliver again. *)
Drained(w) ==
    /\ w \in draining
    /\ \A t \in TasksOf(w) : task[t].pc = "free"
    /\ draining' = draining \ {w}
    /\ UNCHANGED <<row, sub, task, redrive, pruning, faults, history>>

(* The subscriber answers with a 2xx, a 410 or another failure; an error   *)
(* before or during the request counts as one of the last, also when the   *)
(* body of a 2xx breaks off ("cut").                                       *)
Send(t, answer) ==
    /\ task[t].pc = "claimed"
    /\ WorkerOf[t] \in draining
    /\ task' = [task EXCEPT ![t].pc = IF answer = "410" THEN "disable410" ELSE "mark",
                            ![t].ok = answer = "2xx"]
    /\ acked' = IF answer \in {"2xx", "cut"} THEN acked \cup {task[t].id} ELSE acked
    /\ posts' = IF task[t].id \in late THEN posts
                ELSE [posts EXCEPT ![task[t].id] = @ + 1]
    /\ UNCHANGED <<row, sub, draining, redrive, pruning, faults, late>>

(* UPDATE webhook_subscriptions ... WHERE id = $1 *)
WriteSub(s) == IF sub.exists THEN s ELSE sub
Disabled == WriteSub([sub EXCEPT !.active = FALSE, !.disabled = TRUE])

(* 410 Gone switches the subscription off; the delivery is retried anyway. *)
Disable410(t) ==
    /\ task[t].pc = "disable410"
    /\ sub' = Disabled
    /\ task' = [task EXCEPT ![t].pc = "mark"]
    /\ UNCHANGED <<row, draining, redrive, pruning, faults, history>>

(* mark_delivered. *)
MarkDelivered(t) ==
    /\ task[t].pc = "mark" /\ task[t].ok
    /\ LET i == task[t].id IN
        row' = Write(i, Row("delivered", row[i].attempts + 1, row[i].due, FALSE))
    /\ task' = [task EXCEPT ![t] = Done("succeeded")]
    /\ UNCHANGED <<sub, draining, redrive, pruning, faults, history>>

(* Mutant of IsFinal: one attempt too many. *)
IsOver(attempts) == attempts > MaxAttempts

IsFinal(attempts) == attempts >= MaxAttempts

(* mark_retry: attempts is one more than when the row was claimed.  Short  *)
(* of the last attempt the status is left as it is.                        *)
MarkRetry(t) ==
    /\ task[t].pc = "mark" /\ ~task[t].ok
    /\ LET i == task[t].id
           n == task[t].attempts + 1
       IN row' = Write(i, IF IsFinal(n) THEN Row("failed", n, row[i].due, FALSE)
                          ELSE Row(row[i].status, n, FALSE, FALSE))
    /\ task' = [task EXCEPT ![t] = Done("count")]
    /\ UNCHANGED <<sub, draining, redrive, pruning, faults, history>>

(* A success resets the counter. *)
RecordSuccess(t) ==
    /\ task[t].pc = "succeeded"
    /\ sub' = WriteSub([sub EXCEPT !.failures = 0, !.last = "recent"])
    /\ task' = [task EXCEPT ![t] = NoTask]
    /\ UNCHANGED <<row, draining, redrive, pruning, faults, history>>

(* A failure counts in deliver_with_shutdown ... *)
CountFailure(t) ==
    /\ task[t].pc = "count"
    /\ sub' = WriteSub([sub EXCEPT !.failures = OneMore(@)])
    /\ task' = [task EXCEPT ![t] = Done("check")]
    /\ UNCHANGED <<row, draining, redrive, pruning, faults, history>>

(* ... and again in check_and_auto_disable, which decides on the values    *)
(* its UPDATE returns.                                                     *)
CheckAutoDisable(t) ==
    /\ task[t].pc = "check"
    /\ sub' = WriteSub([sub EXCEPT !.failures = OneMore(@),
                                   !.last = IF @ = "never" THEN "recent" ELSE @])
    /\ LET disable == sub.exists /\ sub'.failures >= FailureThreshold /\ sub'.last = "old"
       IN task' = [task EXCEPT ![t] = IF disable THEN Done("disable") ELSE NoTask]
    /\ UNCHANGED <<row, draining, redrive, pruning, faults, history>>

(* The disabling UPDATE, in a statement of its own. *)
AutoDisable(t) ==
    /\ task[t].pc \in {"badSecret", "disable"}
    /\ sub' = Disabled
    /\ task' = [task EXCEPT ![t] = NoTask]
    /\ UNCHANGED <<row, draining, redrive, pruning, faults, history>>

(* The task's next statement fails: `let _ =` drops the error. *)
StatementFails(t) ==
    /\ faults < MaxFaults
    /\ faults' = faults + 1
    /\ \/ /\ task[t].pc = "unreadable"
          /\ task' = [task EXCEPT ![t] = Done("badSecret")]
       \/ /\ task[t].pc = "disable410"
          /\ task' = [task EXCEPT ![t].pc = "mark"]
       \/ /\ task[t].pc = "mark"
          /\ task' = [task EXCEPT ![t] = Done(IF task[t].ok THEN "succeeded" ELSE "count")]
       \/ /\ task[t].pc = "count"
          /\ task' = [task EXCEPT ![t] = Done("check")]
       \/ /\ task[t].pc \in {"succeeded", "check", "badSecret", "disable"}
          /\ task' = [task EXCEPT ![t] = NoTask]
    /\ UNCHANGED <<row, sub, draining, redrive, pruning, history>>

(* The process dies, or fetch_due fails and its `?` drops the futures: the *)
(* claims stay leased until the lease runs out.                            *)
Crash(w) ==
    /\ faults < MaxFaults
    /\ \E t \in TasksOf(w) : task[t].pc # "free"
    /\ faults' = faults + 1
    /\ task' = [t \in Tasks |-> IF WorkerOf[t] = w THEN NoTask ELSE task[t]]
    /\ draining' = draining \ {w}
    /\ UNCHANGED <<row, sub, redrive, pruning, history>>

-----------------------------------------------------------------------------
(* Routes of the API, and the pruner *)

(* update_webhook with active = false ... *)
SwitchOff ==
    /\ sub.exists
    /\ sub' = [sub EXCEPT !.active = FALSE]
    /\ UNCHANGED <<row, task, draining, redrive, pruning, faults, history>>

(* ... and with active = true, or reenable_webhook. *)
SwitchOn ==
    /\ sub.exists
    /\ sub' = [sub EXCEPT !.active = TRUE, !.disabled = FALSE, !.failures = 0]
    /\ UNCHANGED <<row, task, draining, redrive, pruning, faults, history>>

(* delete_webhook; the deliveries go with the subscription, those the      *)
(* pruner has selected too.                                                *)
Delete ==
    /\ sub.exists
    /\ sub' = [sub EXCEPT !.exists = FALSE, !.active = FALSE]
    /\ row' = [i \in Deliveries |-> IF row[i].status = "none" THEN row[i]
                                    ELSE Row("gone", 0, FALSE, FALSE)]
    /\ pruning' = {}
    /\ UNCHANGED <<task, draining, redrive, faults, history>>

(* redrive_webhook looks at the subscription first ... *)
RedriveCheck ==
    /\ ~redrive
    /\ sub.active /\ ~sub.disabled
    /\ redrive' = TRUE
    /\ UNCHANGED <<row, sub, task, draining, pruning, faults, history>>

(* Mutant of Redrivable: whatever is settled is driven again. *)
AnySettled(i) == row[i].status \in {"failed", "delivered"}

Redrivable(i) == row[i].status = "failed"

(* ... and resets failed deliveries, as far as `since` and `max` reach. *)
RedriveReset ==
    /\ redrive
    /\ redrive' = FALSE
    /\ \E S \in SUBSET {i \in Deliveries : Redrivable(i)} :
        /\ row' = [i \in Deliveries |->
                    IF i \in S THEN Row("pending", 0, FALSE, row[i].leased) ELSE row[i]]
        /\ posts' = [i \in Deliveries |-> IF i \in S THEN 0 ELSE posts[i]]
    /\ UNCHANGED <<sub, task, draining, pruning, faults, acked, late>>

Prunable(i) == row[i].status \in {"delivered", "failed"}

(* prune_webhook_deliveries: one DELETE ... WHERE id IN (SELECT ...).  The *)
(* subquery selects a batch of old rows that are not pending ...           *)
PruneSelect ==
    /\ pruning = {}
    /\ pruning' \in SUBSET {i \in Deliveries : Prunable(i)}
    /\ pruning' # {}
    /\ UNCHANGED <<row, sub, task, draining, redrive, faults, history>>

(* ... and the DELETE, at READ COMMITTED, takes each of them as it is now: *)
(* also one that has been redriven meanwhile.                              *)
PruneDelete ==
    /\ pruning # {}
    /\ row' = [i \in Deliveries |-> IF i \in pruning THEN Row("gone", 0, FALSE, FALSE)
                                    ELSE row[i]]
    /\ pruning' = {}
    /\ UNCHANGED <<sub, task, draining, redrive, faults, history>>

-----------------------------------------------------------------------------
TaskStep(t) ==
    \/ Undecryptable(t) \/ SourcePruned(t)
    \/ \E answer \in {"2xx", "cut", "410", "other"} : Send(t, answer)
    \/ Disable410(t) \/ MarkDelivered(t) \/ MarkRetry(t)
    \/ RecordSuccess(t) \/ CountFailure(t) \/ CheckAutoDisable(t) \/ AutoDisable(t)

ClaimRow(i) == \E t \in Tasks, pc \in {"claimed", "unreadable"} : Claim(t, i, pc)

RowStep(i) == Enqueue(i) \/ BackoffElapses(i) \/ LeaseRunsOut(i) \/ ClaimRow(i)

WorkerStep(w) == StopClaiming(w) \/ Drained(w)

Next ==
    \/ \E i \in Deliveries : RowStep(i)
    \/ \E t \in Tasks : TaskStep(t) \/ StatementFails(t)
    \/ \E w \in Workers : WorkerStep(w) \/ Crash(w)
    \/ DayPasses \/ SwitchOff \/ SwitchOn \/ Delete
    \/ RedriveCheck \/ RedriveReset \/ PruneSelect \/ PruneDelete

Spec == Init /\ [][Next]_vars

(***************************************************************************)
(* Fairness: requests time out and statements return, so a worker gets on  *)
(* with its tasks and its loop comes round; backoff and leases run out;    *)
(* the loop claims oldest next_attempt_at first, so a row that is          *)
(* claimable again and again is claimed.                                   *)
(***************************************************************************)
Fairness ==
    /\ \A w \in Workers : WF_vars(WorkerStep(w) \/ \E t \in TasksOf(w) : TaskStep(t))
    /\ \A i \in Deliveries :
        /\ WF_vars(BackoffElapses(i)) /\ WF_vars(LeaseRunsOut(i))
        /\ SF_vars(ClaimRow(i))

FairSpec == Spec /\ Fairness

-----------------------------------------------------------------------------
DonePcs == {"free", "badSecret", "succeeded", "count", "check", "disable"}

(* The type of the state. *)
TypeOK ==
    /\ row \in [Deliveries -> [status : Statuses, attempts : Nat, due : BOOLEAN,
                               leased : BOOLEAN]]
    /\ sub \in [exists : BOOLEAN, active : BOOLEAN, disabled : BOOLEAN,
                failures : 0..FailureThreshold, last : {"never", "recent", "old"}]
    /\ task \in [Tasks -> [pc : Holding, id : Deliveries, attempts : Nat, ok : BOOLEAN]
                            \cup {Done(pc) : pc \in DonePcs}]
    /\ draining \subseteq Workers
    /\ redrive \in BOOLEAN
    /\ pruning \subseteq Deliveries
    /\ faults \in Nat
    /\ acked \subseteq Deliveries
    /\ posts \in [Deliveries -> Nat]
    /\ late \subseteq Deliveries

(* A delivery is with two tasks at once, and may be sent twice at once,    *)
(* only if its lease ran out under a task: claims are exclusive across     *)
(* crashes, lost updates, redrives, deletion and retries.                  *)
ClaimsExclusive ==
    \A t, u \in Tasks : \A i \in Deliveries :
        t # u /\ Holds(t, i) /\ Holds(u, i) => i \in late

(* The attempts of a delivery that is (re)driven stay within MAX_ATTEMPTS, *)
(* but for those a crash or a lost update kept from being counted.         *)
AttemptsBounded ==
    \A i \in Deliveries \ late : posts[i] <= MaxAttempts + faults

(* Every pending delivery is settled: delivered, given up, or removed,     *)
(* although workers crash, leases run out and updates overwrite each other. *)
DeliveryResolves ==
    \A i \in Deliveries : (row[i].status = "pending") ~> (row[i].status # "pending")

(* A delivery whose lease runs out under a task leaves the queue's         *)
(* promise.  The queue counts a row as removed once the pruner has         *)
(* selected it: a redrive after that comes too late.                       *)
status == [i \in Deliveries |-> IF i \in late THEN "late"
                               ELSE IF i \in pruning THEN "gone" ELSE row[i].status]
Queue == INSTANCE DeliveryQueue WITH
    Deliveries <- Deliveries, status <- status, acked <- acked

(* fetch_due, the sends and the mark_* updates, with redrive, prune and    *)
(* delete beside them, implement the state diagram of docs/WEBHOOKS.md.    *)
QueueSpec == Queue!Spec
=============================================================================
