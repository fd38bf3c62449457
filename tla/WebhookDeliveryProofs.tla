----------------------- MODULE WebhookDeliveryProofs ------------------------
(***************************************************************************)
(* Theorems about WebhookDelivery, for any number of deliveries, tasks and *)
(* workers, any attempt limit and any number of faults.                    *)
(***************************************************************************)
EXTENDS WebhookDelivery, TLAPS

(* The row of a held delivery is leased, unless it was deleted. *)
HeldInv ==
    \A t \in Tasks, i \in Deliveries : Holds(t, i) /\ i \notin late =>
        row[i].status = "gone" \/ (row[i].status = "pending" /\ row[i].leased)

(* A task about to mark a delivery as delivered has seen a 2xx. *)
AckInv ==
    \A t \in Tasks : task[t].ok => task[t].pc = "mark" /\ task[t].id \in acked

(* No lease is left on a row that is gone. *)
GoneInv == \A i \in Deliveries : row[i].status = "gone" => ~row[i].leased

(* What the pruner has selected has been enqueued. *)
PrunedInv == \A i \in pruning : row[i].status # "none"

QueueInv == TypeOK /\ HeldInv /\ ClaimsExclusive /\ AckInv /\ GoneInv /\ PrunedInv

(* The task has made its attempt and not recorded it. *)
Sent(t) == task[t].pc \in {"disable410", "mark"}

(* The attempts made for a delivery are accounted for, but for the lost    *)
(* ones: by what its holder has read, plus the holder's own attempt, and   *)
(* by the row while nobody has an attempt to record.                       *)
Counted(i) ==
    i \notin late =>
        /\ posts[i] <= MaxAttempts + faults
        /\ row[i].status = "none" => posts[i] = 0
        /\ \A t \in Tasks : Holds(t, i) =>
            /\ task[t].attempts < MaxAttempts
            /\ posts[i] <= task[t].attempts + faults + (IF Sent(t) THEN 1 ELSE 0)
            /\ row[i].status = "pending" => row[i].attempts = task[t].attempts
        /\ row[i].status = "pending" =>
            /\ row[i].attempts < MaxAttempts
            /\ (\A t \in Tasks : Holds(t, i) => ~Sent(t)) =>
                posts[i] <= row[i].attempts + faults

CountInv == \A i \in Deliveries : Counted(i)

-----------------------------------------------------------------------------
(* Types *)

HeldTask == [pc : Holding, id : Deliveries, attempts : Nat, ok : BOOLEAN]
RowType == [status : Statuses, attempts : Nat, due : BOOLEAN, leased : BOOLEAN]

(* A task in one of the holding steps is about a delivery. *)
LEMMA HolderTyped ==
    ASSUME TypeOK, NEW t \in Tasks, task[t].pc \in Holding
    PROVE  task[t] \in HeldTask
BY DEF TypeOK, HeldTask, Holding, Done, DonePcs, NoTask

(* A task that is done with its row holds nothing and remembers nothing. *)
LEMMA DoneTyped ==
    ASSUME NEW pc \in DonePcs
    PROVE  /\ Done(pc) \in {Done(p) : p \in DonePcs}
           /\ Done(pc).pc = pc
           /\ ~Done(pc).ok
           /\ pc \notin Holding
BY DEF Done, NoTask, DonePcs, Holding

LEMMA NoTaskDone == NoTask = Done("free") /\ "free" \in DonePcs
BY DEF Done, NoTask, DonePcs

(* An UPDATE by id keeps the table's type. *)
LEMMA WriteTyped ==
    ASSUME row \in [Deliveries -> RowType], NEW i \in Deliveries, NEW r \in RowType
    PROVE  Write(i, r) \in [Deliveries -> RowType]
BY DEF Write

LEMMA MarkFailedTyped ==
    ASSUME row \in [Deliveries -> RowType], NEW i \in Deliveries
    PROVE  MarkFailed(i) \in [Deliveries -> RowType]
<1>1. [row[i] EXCEPT !.status = "failed", !.leased = FALSE] \in RowType
    BY DEF RowType, Statuses
<1> QED
    BY <1>1, WriteTyped DEF MarkFailed

(* The parts of TypeOK an action changes are typed by the lemmas above. *)
LEMMA TypeStep ==
    ASSUME TypeOK, [Next]_vars
    PROVE  TypeOK'
<1> USE DeliveryAssumption
<1> DEFINE DoneTask == {Done(pc) : pc \in DonePcs}
<1>r. row \in [Deliveries -> RowType]
    BY DEF TypeOK, RowType
<1>t. task \in [Tasks -> HeldTask \cup DoneTask]
    BY DEF TypeOK, HeldTask
<1>s. sub \in [exists : BOOLEAN, active : BOOLEAN, disabled : BOOLEAN,
               failures : 0..FailureThreshold, last : {"never", "recent", "old"}]
    BY DEF TypeOK
<1>m. \A n \in 0..FailureThreshold : OneMore(n) \in 0..FailureThreshold
    BY DEF OneMore
<1>z. 0 \in 0..FailureThreshold
    BY DeliveryAssumption
<1>d. \A pc \in DonePcs : Done(pc) \in DoneTask
    BY DoneTyped
<1>f. NoTask \in DoneTask
    BY NoTaskDone, <1>d
<1>n. \A st \in Statuses, n \in Nat, due, leased \in BOOLEAN : Row(st, n, due, leased) \in RowType
    BY DEF Row, RowType
<1>1. ASSUME NEW i \in Deliveries, Enqueue(i)  PROVE TypeOK'
    BY <1>1, <1>r, <1>n DEF Enqueue, TypeOK, RowType, Statuses, history
<1>2. ASSUME NEW i \in Deliveries, BackoffElapses(i)  PROVE TypeOK'
    BY <1>2 DEF BackoffElapses, TypeOK, history
<1>3. ASSUME NEW i \in Deliveries, LeaseRunsOut(i)  PROVE TypeOK'
    <2>1. posts' \in [Deliveries -> Nat]
        BY <1>3 DEF LeaseRunsOut, TypeOK
    <2> QED
        BY <1>3, <2>1 DEF LeaseRunsOut, TypeOK
<1>4. CASE DayPasses
    BY <1>4 DEF DayPasses, TypeOK, history
<1>5. ASSUME NEW i \in Deliveries, ClaimRow(i)  PROVE TypeOK'
    <2>1. PICK t \in Tasks, pc \in {"claimed", "unreadable"} : Claim(t, i, pc)
        BY <1>5 DEF ClaimRow
    <2>2. [pc |-> pc, id |-> i, attempts |-> row[i].attempts, ok |-> FALSE] \in HeldTask
        BY <1>r DEF HeldTask, Holding, RowType
    <2>3. task' \in [Tasks -> HeldTask \cup DoneTask]
        BY <2>1, <2>2, <1>t DEF Claim
    <2>4. row' \in [Deliveries -> RowType]
        BY <2>1, <1>r DEF Claim, RowType
    <2> QED
        BY <2>1, <2>3, <2>4 DEF Claim, TypeOK, HeldTask, RowType, history
<1>6. ASSUME NEW t \in Tasks, Undecryptable(t)  PROVE TypeOK'
    <2>1. task[t].id \in Deliveries
        BY <1>6, HolderTyped DEF Undecryptable, Holding, HeldTask
    <2>2. row' \in [Deliveries -> RowType]
        BY <2>1, <1>6, <1>r, MarkFailedTyped DEF Undecryptable
    <2>3. task' \in [Tasks -> HeldTask \cup DoneTask]
        BY <1>6, <1>t, <1>d DEF Undecryptable, DonePcs
    <2> QED
        BY <1>6, <2>2, <2>3 DEF Undecryptable, TypeOK, HeldTask, RowType, history
<1>7. ASSUME NEW t \in Tasks, SourcePruned(t)  PROVE TypeOK'
    <2>1. task[t].id \in Deliveries
        BY <1>7, HolderTyped DEF SourcePruned, Holding, HeldTask
    <2>2. row' \in [Deliveries -> RowType]
        BY <2>1, <1>7, <1>r, MarkFailedTyped DEF SourcePruned
    <2>3. task' \in [Tasks -> HeldTask \cup DoneTask]
        BY <1>7, <1>t, <1>f DEF SourcePruned
    <2> QED
        BY <1>7, <2>2, <2>3 DEF SourcePruned, TypeOK, HeldTask, RowType, history
<1>8. ASSUME NEW t \in Tasks, NEW answer, Send(t, answer)  PROVE TypeOK'
    <2>1. task[t] \in HeldTask
        BY <1>8, HolderTyped DEF Send, Holding
    <2>2. [task[t] EXCEPT !.pc = IF answer = "410" THEN "disable410" ELSE "mark",
                          !.ok = (answer = "2xx")] \in HeldTask
        BY <2>1 DEF HeldTask, Holding
    <2>3. task' = [task EXCEPT ![t] =
                    [task[t] EXCEPT !.pc = IF answer = "410" THEN "disable410" ELSE "mark",
                                    !.ok = (answer = "2xx")]]
        BY <1>8, <1>t DEF Send
    <2>4. task' \in [Tasks -> HeldTask \cup DoneTask]
        BY <2>2, <2>3, <1>t
    <2>5. acked' \subseteq Deliveries /\ posts' \in [Deliveries -> Nat]
        BY <1>8, <2>1 DEF Send, TypeOK, HeldTask
    <2> QED
        BY <1>8, <2>4, <2>5 DEF Send, TypeOK, HeldTask
<1>9. ASSUME NEW t \in Tasks, Disable410(t)  PROVE TypeOK'
    <2>1. [task[t] EXCEPT !.pc = "mark"] \in HeldTask
        BY <1>9, HolderTyped DEF Disable410, Holding, HeldTask
    <2>2. task' \in [Tasks -> HeldTask \cup DoneTask]
        BY <1>9, <2>1, <1>t DEF Disable410
    <2> QED
        BY <1>9, <2>2, <1>s DEF Disable410, Disabled, WriteSub, TypeOK, HeldTask, history
<1>10. ASSUME NEW t \in Tasks, MarkDelivered(t)  PROVE TypeOK'
    <2>1. task[t].id \in Deliveries
        BY <1>10, HolderTyped DEF MarkDelivered, Holding, HeldTask
    <2>2. row[task[t].id] \in RowType
        BY <2>1, <1>r
    <2>. row[task[t].id].attempts + 1 \in Nat /\ row[task[t].id].due \in BOOLEAN
        BY <2>2 DEF RowType
    <2>3. Row("delivered", row[task[t].id].attempts + 1, row[task[t].id].due, FALSE) \in RowType
        BY <1>n DEF Statuses
    <2>4. row' \in [Deliveries -> RowType]
        BY <1>10, <2>1, <2>3, <1>r, WriteTyped DEF MarkDelivered
    <2>5. task' \in [Tasks -> HeldTask \cup DoneTask]
        BY <1>10, <1>t, <1>d DEF MarkDelivered, DonePcs
    <2> QED
        BY <1>10, <2>4, <2>5 DEF MarkDelivered, TypeOK, HeldTask, RowType, history
<1>11. ASSUME NEW t \in Tasks, MarkRetry(t)  PROVE TypeOK'
    <2>1. task[t] \in HeldTask
        BY <1>11, HolderTyped DEF MarkRetry, Holding
    <2>2. task[t].id \in Deliveries /\ task[t].attempts + 1 \in Nat
        BY <2>1 DEF HeldTask
    <2>3. row[task[t].id] \in RowType
        BY <2>2, <1>r
    <2>4. Row("failed", task[t].attempts + 1, row[task[t].id].due, FALSE) \in RowType
        BY <2>2, <2>3, <1>n DEF Statuses, RowType
    <2>5. Row(row[task[t].id].status, task[t].attempts + 1, FALSE, FALSE) \in RowType
        BY <2>2, <2>3, <1>n DEF RowType
    <2>6. row' \in [Deliveries -> RowType]
        BY <1>11, <2>2, <2>4, <2>5, <1>r, WriteTyped DEF MarkRetry
    <2>7. task' \in [Tasks -> HeldTask \cup DoneTask]
        BY <1>11, <1>t, <1>d DEF MarkRetry, DonePcs
    <2> QED
        BY <1>11, <2>6, <2>7 DEF MarkRetry, TypeOK, HeldTask, RowType, history
<1>12. ASSUME NEW t \in Tasks, RecordSuccess(t)  PROVE TypeOK'
    <2>1. task' \in [Tasks -> HeldTask \cup DoneTask]
        BY <1>12, <1>t, <1>f DEF RecordSuccess
    <2>2. sub' \in [exists : BOOLEAN, active : BOOLEAN, disabled : BOOLEAN,
                    failures : 0..FailureThreshold, last : {"never", "recent", "old"}]
        BY <1>12, <1>s, <1>z DEF RecordSuccess, WriteSub
    <2> QED
        BY <1>12, <2>1, <2>2 DEF RecordSuccess, TypeOK, HeldTask, history
<1>13. ASSUME NEW t \in Tasks, CountFailure(t)  PROVE TypeOK'
    <2>1. task' \in [Tasks -> HeldTask \cup DoneTask]
        BY <1>13, <1>t, <1>d DEF CountFailure, DonePcs
    <2> QED
        BY <1>13, <2>1, <1>s, <1>m DEF CountFailure, WriteSub, TypeOK, HeldTask, history
<1>14. ASSUME NEW t \in Tasks, CheckAutoDisable(t)  PROVE TypeOK'
    <2>1. task' \in [Tasks -> HeldTask \cup DoneTask]
        BY <1>14, <1>t, <1>d, <1>f DEF CheckAutoDisable, DonePcs
    <2> QED
        BY <1>14, <2>1, <1>s, <1>m DEF CheckAutoDisable, WriteSub, TypeOK, HeldTask, history
<1>15. ASSUME NEW t \in Tasks, AutoDisable(t)  PROVE TypeOK'
    BY <1>15, <1>t, <1>f, <1>s DEF AutoDisable, Disabled, WriteSub, TypeOK, HeldTask, history
<1>16. ASSUME NEW t \in Tasks, StatementFails(t)  PROVE TypeOK'
    <2>1. task[t].pc = "disable410" => [task[t] EXCEPT !.pc = "mark"] \in HeldTask
        BY HolderTyped DEF Holding, HeldTask
    <2>2. task' \in [Tasks -> HeldTask \cup DoneTask]
        BY <1>16, <2>1, <1>t, <1>d, <1>f DEF StatementFails, DonePcs
    <2> QED
        BY <1>16, <2>2 DEF StatementFails, TypeOK, HeldTask, history
<1>17. ASSUME NEW w \in Workers, WorkerStep(w)  PROVE TypeOK'
    BY <1>17 DEF WorkerStep, StopClaiming, Drained, TypeOK, history
<1>18. ASSUME NEW w \in Workers, Crash(w)  PROVE TypeOK'
    <2>1. task' \in [Tasks -> HeldTask \cup DoneTask]
        BY <1>18, <1>t, <1>f DEF Crash
    <2> QED
        BY <1>18, <2>1 DEF Crash, TypeOK, HeldTask, history
<1>19. CASE SwitchOff \/ SwitchOn
    <2>1. sub' \in [exists : BOOLEAN, active : BOOLEAN, disabled : BOOLEAN,
                    failures : 0..FailureThreshold, last : {"never", "recent", "old"}]
        BY <1>19, <1>s, <1>z DEF SwitchOff, SwitchOn
    <2> QED
        BY <1>19, <2>1 DEF SwitchOff, SwitchOn, TypeOK, history
<1>20. CASE Delete
    <2>1. row' \in [Deliveries -> RowType]
        BY <1>20, <1>r, <1>n DEF Delete, Statuses
    <2> QED
        BY <1>20, <2>1, <1>s DEF Delete, TypeOK, RowType, history
<1>21. CASE RedriveCheck
    BY <1>21 DEF RedriveCheck, TypeOK, history
<1>22. CASE RedriveReset
    <2>1. \A i \in Deliveries : row[i] \in RowType /\ row[i].leased \in BOOLEAN
        BY <1>r DEF RowType
    <2>. \A i \in Deliveries : Row("pending", 0, FALSE, row[i].leased) \in RowType
        BY <2>1, <1>n DEF Statuses
    <2>2. row' \in [Deliveries -> RowType]
        BY <1>22, <2>1 DEF RedriveReset
    <2>3. posts' \in [Deliveries -> Nat]
        BY <1>22 DEF RedriveReset, TypeOK
    <2> QED
        BY <1>22, <2>2, <2>3 DEF RedriveReset, TypeOK, RowType
<1>23. CASE PruneSelect \/ PruneDelete
    <2>1. row' \in [Deliveries -> RowType]
        BY <1>23, <1>r, <1>n DEF PruneSelect, PruneDelete, Statuses
    <2> QED
        BY <1>23, <2>1 DEF PruneSelect, PruneDelete, TypeOK, RowType, history
<1>24. CASE UNCHANGED vars
    BY <1>24 DEF vars, TypeOK
<1> QED
    BY <1>1, <1>2, <1>3, <1>4, <1>5, <1>6, <1>7, <1>8, <1>9, <1>10, <1>11, <1>12, <1>13,
       <1>14, <1>15, <1>16, <1>17, <1>18, <1>19, <1>20, <1>21, <1>22, <1>23, <1>24
       DEF Next, RowStep, TaskStep

LEMMA TypeInit == Init => TypeOK
<1> SUFFICES ASSUME Init PROVE TypeOK
    OBVIOUS
<1>1. NoTask \in {Done(pc) : pc \in DonePcs}
    BY NoTaskDone
<1>2. 0 \in 0..FailureThreshold
    BY DeliveryAssumption
<1> QED
    BY <1>1, <1>2 DEF Init, TypeOK, Row, Statuses

(* The state of the delivery service keeps its type: the statuses a row    *)
(* takes, the counters' range, what a task may remember.                   *)
THEOREM TypeCorrect == Spec => []TypeOK
<1>1. TypeOK /\ [Next]_vars => TypeOK'
    BY TypeStep
<1> QED
    BY <1>1, TypeInit, PTL DEF Spec

-----------------------------------------------------------------------------
(* Exclusive claims *)

(* A task that is done with its row frees it and disturbs no other claim. *)
LEMMA Released ==
    ASSUME TypeOK, NEW t \in Tasks, NEW pc \in DonePcs,
           task' = [task EXCEPT ![t] = Done(pc)], late' = late, acked' = acked
    PROVE  /\ \A u \in Tasks, i \in Deliveries : Holds(u, i)' <=> u # t /\ Holds(u, i)
           /\ AckInv => AckInv'
           /\ ClaimsExclusive => ClaimsExclusive'
<1>1. \A u \in Tasks : task'[u] = IF u = t THEN Done(pc) ELSE task[u]
    BY DEF TypeOK
<1>2. Done(pc).pc = pc /\ ~Done(pc).ok /\ pc \notin Holding
    BY DoneTyped
<1>3. \A u \in Tasks, i \in Deliveries : Holds(u, i)' <=> u # t /\ Holds(u, i)
    BY <1>1, <1>2 DEF Holds
<1> QED
    BY <1>1, <1>2, <1>3 DEF AckInv, ClaimsExclusive

(* Steps that leave the tasks alone. *)
LEMMA Untouched ==
    ASSUME task' = task, late \subseteq late', acked' = acked
    PROVE  /\ \A u \in Tasks, i \in Deliveries : Holds(u, i)' <=> Holds(u, i)
           /\ AckInv => AckInv'
           /\ ClaimsExclusive => ClaimsExclusive'
BY DEF Holds, AckInv, ClaimsExclusive

(* A write to the row of a task that lets go of it: nobody else holds the  *)
(* row, or it is late.                                                     *)
LEMMA ReleasedRow ==
    ASSUME QueueInv, NEW t \in Tasks, NEW pc \in DonePcs, Holds(t, task[t].id),
           task' = [task EXCEPT ![t] = Done(pc)], late' = late, acked' = acked,
           \A j \in Deliveries : j # task[t].id => row'[j] = row[j]
    PROVE  HeldInv' /\ ClaimsExclusive' /\ AckInv'
<1>1. ClaimsExclusive' /\ AckInv'
    BY Released DEF QueueInv
<1>2. SUFFICES ASSUME NEW u \in Tasks, NEW i \in Deliveries, Holds(u, i)', i \notin late'
               PROVE  (row[i].status = "gone" \/ (row[i].status = "pending" /\ row[i].leased))'
    BY <1>1 DEF HeldInv
<1>3. u # t /\ Holds(u, i) /\ i \notin late
    BY <1>2, Released DEF QueueInv
<1>4. i # task[t].id
    BY <1>3 DEF QueueInv, ClaimsExclusive
<1> QED
    BY <1>3, <1>4 DEF QueueInv, HeldInv

LEMMA WriteOthers ==
    ASSUME TypeOK, NEW i, NEW r, row' = Write(i, r)
    PROVE  \A j \in Deliveries : j # i => row'[j] = row[j]
BY DEF Write, TypeOK

LEMMA WrittenRow ==
    ASSUME TypeOK, GoneInv, NEW i \in Deliveries, NEW r, ~r.leased, row' = Write(i, r)
    PROVE  GoneInv'
BY DEF Write, TypeOK, GoneInv

LEMMA GoneStep ==
    ASSUME TypeOK, GoneInv, [Next]_vars
    PROVE  GoneInv'
<1>g. \A t \in Tasks : task[t].pc \in Holding =>
            task[t].id \in Deliveries /\ row[task[t].id] \in RowType
    BY HolderTyped DEF HeldTask, TypeOK, RowType
<1>1. ASSUME NEW i \in Deliveries, RowStep(i)  PROVE GoneInv'
    BY <1>1 DEF RowStep, Enqueue, BackoffElapses, LeaseRunsOut, ClaimRow, Claim, Claimable,
       Row, TypeOK, GoneInv
<1>2. ASSUME NEW t \in Tasks, Undecryptable(t) \/ SourcePruned(t)  PROVE GoneInv'
    <2>1. task[t].id \in Deliveries /\ row[task[t].id] \in RowType
        BY <1>2, <1>g DEF Undecryptable, SourcePruned, Holding
    <2>2. ~[row[task[t].id] EXCEPT !.status = "failed", !.leased = FALSE].leased
        BY <2>1 DEF RowType
    <2> QED
        BY <1>2, <2>1, <2>2, WrittenRow DEF Undecryptable, SourcePruned, MarkFailed
<1>3. ASSUME NEW t \in Tasks, MarkDelivered(t)  PROVE GoneInv'
    <2>1. task[t].id \in Deliveries
        BY <1>3, <1>g DEF MarkDelivered, Holding
    <2> QED
        BY <1>3, <2>1, WrittenRow DEF MarkDelivered, Row
<1>4. ASSUME NEW t \in Tasks, MarkRetry(t)  PROVE GoneInv'
    <2>1. task[t].id \in Deliveries
        BY <1>4, <1>g DEF MarkRetry, Holding
    <2> QED
        BY <1>4, <2>1, WrittenRow DEF MarkRetry, Row
<1>5. CASE row' = row
    BY <1>5 DEF GoneInv
<1>6. CASE Delete \/ RedriveReset \/ PruneSelect \/ PruneDelete
    BY <1>6 DEF Delete, RedriveReset, PruneSelect, PruneDelete, Row, GoneInv
<1>7. ASSUME NEW t \in Tasks,
             \/ (\E answer \in {"2xx", "cut", "410", "other"} : Send(t, answer))
             \/ Disable410(t) \/ RecordSuccess(t) \/ CountFailure(t) \/ CheckAutoDisable(t)
             \/ AutoDisable(t) \/ StatementFails(t)
      PROVE  row' = row
    BY <1>7 DEF Send, Disable410, RecordSuccess, CountFailure, CheckAutoDisable, AutoDisable,
       StatementFails
<1>8. ASSUME NEW w \in Workers, WorkerStep(w) \/ Crash(w)  PROVE row' = row
    BY <1>8 DEF WorkerStep, StopClaiming, Drained, Crash
<1>9. ASSUME DayPasses \/ SwitchOff \/ SwitchOn \/ RedriveCheck \/ UNCHANGED vars
      PROVE  row' = row
    BY <1>9 DEF DayPasses, SwitchOff, SwitchOn, RedriveCheck, vars
<1> QED
    BY <1>1, <1>2, <1>3, <1>4, <1>5, <1>6, <1>7, <1>8, <1>9 DEF Next, TaskStep

(* A row that has been enqueued stays one: what the pruner has selected    *)
(* was.                                                                    *)
LEMMA PrunedStep ==
    ASSUME TypeOK, PrunedInv, [Next]_vars
    PROVE  PrunedInv'
<1>w. ASSUME NEW i \in Deliveries, NEW r, row' = Write(i, r),
             r.status \in {"failed", "delivered", row[i].status}, pruning' = pruning
      PROVE  PrunedInv'
    BY <1>w DEF Write, TypeOK, PrunedInv
<1>g. \A t \in Tasks : task[t].pc \in Holding =>
            task[t].id \in Deliveries /\ row[task[t].id] \in RowType
    BY HolderTyped DEF HeldTask, TypeOK, RowType
<1>1. ASSUME NEW i \in Deliveries, RowStep(i)  PROVE PrunedInv'
    BY <1>1 DEF RowStep, Enqueue, BackoffElapses, LeaseRunsOut, ClaimRow, Claim, Row, TypeOK,
       PrunedInv
<1>2. ASSUME NEW t \in Tasks, Undecryptable(t) \/ SourcePruned(t)  PROVE PrunedInv'
    <2>1. task[t].id \in Deliveries /\ row[task[t].id] \in RowType
        BY <1>2, <1>g DEF Undecryptable, SourcePruned, Holding
    <2>2. [row[task[t].id] EXCEPT !.status = "failed", !.leased = FALSE].status = "failed"
        BY <2>1 DEF RowType
    <2> QED
        BY <1>2, <2>1, <2>2, <1>w DEF Undecryptable, SourcePruned, MarkFailed
<1>3. ASSUME NEW t \in Tasks, MarkDelivered(t)  PROVE PrunedInv'
    <2>1. task[t].id \in Deliveries
        BY <1>3, <1>g DEF MarkDelivered, Holding
    <2> QED
        BY <1>3, <2>1, <1>w DEF MarkDelivered, Row
<1>4. ASSUME NEW t \in Tasks, MarkRetry(t)  PROVE PrunedInv'
    <2>1. task[t].id \in Deliveries
        BY <1>4, <1>g DEF MarkRetry, Holding
    <2> QED
        BY <1>4, <2>1, <1>w DEF MarkRetry, Row
<1>5. CASE row' = row /\ pruning' = pruning
    BY <1>5 DEF PrunedInv
<1>6. CASE Delete \/ PruneDelete
    BY <1>6 DEF Delete, PruneDelete, PrunedInv
<1>10. CASE RedriveReset
    <2>1. \A i \in Deliveries : row'[i] = row[i] \/ row'[i].status = "pending"
        BY <1>10 DEF RedriveReset, Row
    <2>2. pruning' = pruning /\ pruning \subseteq Deliveries
        BY <1>10 DEF RedriveReset, TypeOK
    <2> QED
        BY <2>1, <2>2 DEF PrunedInv
<1>11. CASE PruneSelect
    BY <1>11 DEF PruneSelect, Prunable, PrunedInv
<1>7. ASSUME NEW t \in Tasks,
             \/ (\E answer \in {"2xx", "cut", "410", "other"} : Send(t, answer))
             \/ Disable410(t) \/ RecordSuccess(t) \/ CountFailure(t) \/ CheckAutoDisable(t)
             \/ AutoDisable(t) \/ StatementFails(t)
      PROVE  row' = row /\ pruning' = pruning
    BY <1>7 DEF Send, Disable410, RecordSuccess, CountFailure, CheckAutoDisable, AutoDisable,
       StatementFails
<1>8. ASSUME NEW w \in Workers, WorkerStep(w) \/ Crash(w)
      PROVE  row' = row /\ pruning' = pruning
    BY <1>8 DEF WorkerStep, StopClaiming, Drained, Crash
<1>9. ASSUME DayPasses \/ SwitchOff \/ SwitchOn \/ RedriveCheck \/ UNCHANGED vars
      PROVE  row' = row /\ pruning' = pruning
    BY <1>9 DEF DayPasses, SwitchOff, SwitchOn, RedriveCheck, vars
<1> QED
    BY <1>1, <1>2, <1>3, <1>4, <1>5, <1>6, <1>7, <1>8, <1>9, <1>10, <1>11
       DEF Next, TaskStep

(* The invariant behind exclusive claims is preserved by every step. *)
LEMMA QueueStep ==
    ASSUME QueueInv, [Next]_vars
    PROVE  QueueInv'
<1>t. TypeOK' /\ GoneInv' /\ PrunedInv'
    BY TypeStep, GoneStep, PrunedStep DEF QueueInv
<1>o. TypeOK /\ HeldInv /\ ClaimsExclusive /\ AckInv
    BY DEF QueueInv
<1> SUFFICES HeldInv' /\ ClaimsExclusive' /\ AckInv'
    BY <1>t DEF QueueInv
<1>1. ASSUME NEW i \in Deliveries, Enqueue(i)
      PROVE  HeldInv' /\ ClaimsExclusive' /\ AckInv'
    BY <1>1, <1>o, Untouched DEF Enqueue, HeldInv, TypeOK, history, Row
<1>2. ASSUME NEW i \in Deliveries, BackoffElapses(i)
      PROVE  HeldInv' /\ ClaimsExclusive' /\ AckInv'
    BY <1>2, <1>o, Untouched DEF BackoffElapses, HeldInv, TypeOK, history
<1>3. ASSUME NEW i \in Deliveries, LeaseRunsOut(i)
      PROVE  HeldInv' /\ ClaimsExclusive' /\ AckInv'
    <2>1. late \subseteq late' /\ task' = task /\ acked' = acked
        BY <1>3 DEF LeaseRunsOut
    <2>2. \A t \in Tasks : Holds(t, i) => i \in late'
        BY <1>3 DEF LeaseRunsOut
    <2>3. \A j \in Deliveries : j # i => row'[j] = row[j]
        BY <1>3, <1>o DEF LeaseRunsOut, TypeOK
    <2> QED
        BY <2>1, <2>2, <2>3, <1>o, Untouched DEF HeldInv
<1>4. CASE DayPasses \/ SwitchOff \/ SwitchOn \/ RedriveCheck
    BY <1>4, <1>o, Untouched DEF DayPasses, SwitchOff, SwitchOn, RedriveCheck, HeldInv, history
<1>5. ASSUME NEW i \in Deliveries, ClaimRow(i)
      PROVE  HeldInv' /\ ClaimsExclusive' /\ AckInv'
    <2>1. PICK t \in Tasks, pc \in {"claimed", "unreadable"} : Claim(t, i, pc)
        BY <1>5 DEF ClaimRow
    <2>2. \A u \in Tasks : ~(Holds(u, i) /\ i \notin late)
        BY <2>1, <1>o DEF Claim, Claimable, HeldInv
    <2>3. /\ \A u \in Tasks : u # t => task'[u] = task[u]
          /\ task'[t].id = i /\ ~task'[t].ok
        BY <2>1, <1>o DEF Claim, TypeOK
    <2>4. \A u \in Tasks, j \in Deliveries : Holds(u, j)' => Holds(u, j) \/ (u = t /\ j = i)
        BY <2>3 DEF Holds
    <2>5. /\ \A j \in Deliveries : j # i => row'[j] = row[j]
          /\ row'[i].status = "pending" /\ row'[i].leased
          /\ late' = late /\ acked' = acked
        BY <2>1, <1>o DEF Claim, Claimable, TypeOK, history
    <2>6. HeldInv'
        BY <2>4, <2>5, <1>o DEF HeldInv
    <2>7. ClaimsExclusive'
        BY <2>2, <2>4, <2>5, <1>o DEF ClaimsExclusive
    <2>8. AckInv'
        BY <2>3, <2>5, <1>o DEF AckInv
    <2> QED
        BY <2>6, <2>7, <2>8
<1>6. ASSUME NEW t \in Tasks, Undecryptable(t)
      PROVE  HeldInv' /\ ClaimsExclusive' /\ AckInv'
    BY <1>6, <1>o, WriteOthers, ReleasedRow
       DEF Undecryptable, MarkFailed, Holds, Holding, DonePcs, history
<1>7. ASSUME NEW t \in Tasks, SourcePruned(t)
      PROVE  HeldInv' /\ ClaimsExclusive' /\ AckInv'
    BY <1>7, <1>o, NoTaskDone, WriteOthers, ReleasedRow
       DEF SourcePruned, MarkFailed, Holds, Holding, history
<1>8. ASSUME NEW t \in Tasks, NEW answer, Send(t, answer)
      PROVE  HeldInv' /\ ClaimsExclusive' /\ AckInv'
    <2>1. task[t] \in HeldTask
        BY <1>8, <1>o, HolderTyped DEF Send, Holding
    <2>2. /\ \A u \in Tasks : u # t => task'[u] = task[u]
          /\ task'[t].id = task[t].id
          /\ task'[t].ok => answer = "2xx" /\ task'[t].pc = "mark"
        BY <1>8, <1>o, <2>1 DEF Send, TypeOK, HeldTask
    <2>3. acked \subseteq acked' /\ (answer = "2xx" => task[t].id \in acked')
        BY <1>8 DEF Send
    <2>4. \A u \in Tasks, j \in Deliveries : Holds(u, j)' => Holds(u, j)
        BY <1>8, <2>2 DEF Holds, Holding, Send
    <2>5. row' = row /\ late' = late
        BY <1>8 DEF Send
    <2>6. AckInv'
        BY <2>2, <2>3, <1>o DEF AckInv
    <2> QED
        BY <2>4, <2>5, <2>6, <1>o DEF HeldInv, ClaimsExclusive
<1>9. ASSUME NEW t \in Tasks, Disable410(t)
      PROVE  HeldInv' /\ ClaimsExclusive' /\ AckInv'
    <2>1. task[t] \in HeldTask
        BY <1>9, <1>o, HolderTyped DEF Disable410, Holding
    <2>2. /\ \A u \in Tasks : u # t => task'[u] = task[u]
          /\ task'[t].id = task[t].id /\ task'[t].ok = task[t].ok /\ task'[t].pc = "mark"
        BY <1>9, <1>o, <2>1 DEF Disable410, TypeOK, HeldTask
    <2>3. \A u \in Tasks, j \in Deliveries : Holds(u, j)' => Holds(u, j)
        BY <1>9, <2>2 DEF Holds, Holding, Disable410
    <2>4. row' = row /\ late' = late /\ acked' = acked
        BY <1>9 DEF Disable410, history
    <2> QED
        BY <2>2, <2>3, <2>4, <1>o DEF HeldInv, ClaimsExclusive, AckInv
<1>10. ASSUME NEW t \in Tasks, MarkDelivered(t)
       PROVE  HeldInv' /\ ClaimsExclusive' /\ AckInv'
    BY <1>10, <1>o, WriteOthers, ReleasedRow
       DEF MarkDelivered, Holds, Holding, DonePcs, history
<1>11. ASSUME NEW t \in Tasks, MarkRetry(t)
       PROVE  HeldInv' /\ ClaimsExclusive' /\ AckInv'
    BY <1>11, <1>o, WriteOthers, ReleasedRow
       DEF MarkRetry, Holds, Holding, DonePcs, history
<1>12. ASSUME NEW t \in Tasks, NEW pc \in DonePcs, task' = [task EXCEPT ![t] = Done(pc)],
              row' = row, UNCHANGED history
       PROVE  HeldInv' /\ ClaimsExclusive' /\ AckInv'
    BY <1>12, <1>o, Released DEF HeldInv, history
<1>13. ASSUME NEW t \in Tasks,
              RecordSuccess(t) \/ CountFailure(t) \/ CheckAutoDisable(t) \/ AutoDisable(t)
       PROVE  HeldInv' /\ ClaimsExclusive' /\ AckInv'
    <2>1. \E pc \in DonePcs : task' = [task EXCEPT ![t] = Done(pc)]
        BY <1>13, NoTaskDone
           DEF RecordSuccess, CountFailure, CheckAutoDisable, AutoDisable, DonePcs
    <2>2. row' = row /\ UNCHANGED history
        BY <1>13 DEF RecordSuccess, CountFailure, CheckAutoDisable, AutoDisable
    <2> QED
        BY <2>1, <2>2, <1>12
<1>14. ASSUME NEW t \in Tasks, StatementFails(t)
       PROVE  HeldInv' /\ ClaimsExclusive' /\ AckInv'
    <2>1. row' = row /\ UNCHANGED history
        BY <1>14 DEF StatementFails
    <2>2. CASE task[t].pc = "disable410"
        <3>1. task[t] \in HeldTask
            BY <2>2, <1>o, HolderTyped DEF Holding
        <3>2. task' = [task EXCEPT ![t].pc = "mark"]
            BY <1>14, <2>2 DEF StatementFails
        <3>3. /\ \A u \in Tasks : u # t => task'[u] = task[u]
              /\ task'[t].id = task[t].id /\ task'[t].ok = task[t].ok /\ task'[t].pc = "mark"
            BY <3>1, <3>2, <1>o DEF TypeOK, HeldTask
        <3>4. \A u \in Tasks, j \in Deliveries : Holds(u, j)' => Holds(u, j)
            BY <3>3, <2>2 DEF Holds, Holding
        <3> QED
            BY <2>1, <3>3, <3>4, <1>o DEF HeldInv, ClaimsExclusive, AckInv, history
    <2>3. CASE task[t].pc # "disable410"
        <3>1. \E pc \in DonePcs : task' = [task EXCEPT ![t] = Done(pc)]
            BY <1>14, <2>3, NoTaskDone DEF StatementFails, DonePcs
        <3> QED
            BY <3>1, <2>1, <1>12
    <2> QED
        BY <2>2, <2>3
<1>15. ASSUME NEW w \in Workers, WorkerStep(w)
       PROVE  HeldInv' /\ ClaimsExclusive' /\ AckInv'
    BY <1>15, <1>o, Untouched DEF WorkerStep, StopClaiming, Drained, HeldInv, history
<1>16. ASSUME NEW w \in Workers, Crash(w)
       PROVE  HeldInv' /\ ClaimsExclusive' /\ AckInv'
    <2>1. \A u \in Tasks : task'[u] = task[u] \/ task'[u] = NoTask
        BY <1>16 DEF Crash
    <2>2. NoTask.pc \notin Holding /\ ~NoTask.ok
        BY DEF NoTask, Holding
    <2>3. \A u \in Tasks, j \in Deliveries : Holds(u, j)' => Holds(u, j)
        BY <2>1, <2>2 DEF Holds
    <2>4. row' = row /\ late' = late /\ acked' = acked
        BY <1>16 DEF Crash, history
    <2> QED
        BY <2>1, <2>2, <2>3, <2>4, <1>o DEF HeldInv, ClaimsExclusive, AckInv
<1>17. CASE Delete
    <2>1. \A i \in Deliveries : row'[i].status = "gone" \/ row'[i] = row[i]
        BY <1>17 DEF Delete, Row
    <2>2. task' = task /\ late' = late /\ acked' = acked
        BY <1>17 DEF Delete, history
    <2> QED
        BY <2>1, <2>2, <1>o, Untouched DEF HeldInv
<1>18. CASE RedriveReset
    <2>1. \A i \in Deliveries : row[i].status # "failed" => row'[i] = row[i]
        BY <1>18 DEF RedriveReset, Redrivable
    <2>2. task' = task /\ late' = late /\ acked' = acked
        BY <1>18 DEF RedriveReset
    <2> QED
        BY <2>1, <2>2, <1>o, Untouched DEF HeldInv
<1>19. CASE PruneSelect \/ PruneDelete
    <2>1. \A i \in Deliveries : row'[i].status = "gone" \/ row'[i] = row[i]
        BY <1>19 DEF PruneSelect, PruneDelete, Row
    <2>2. task' = task /\ late' = late /\ acked' = acked
        BY <1>19 DEF PruneSelect, PruneDelete, history
    <2> QED
        BY <2>1, <2>2, <1>o, Untouched DEF HeldInv
<1>20. CASE UNCHANGED vars
    BY <1>20, <1>o, Untouched DEF vars, HeldInv
<1> QED
    BY <1>1, <1>2, <1>3, <1>4, <1>5, <1>6, <1>7, <1>8, <1>9, <1>10, <1>11, <1>13, <1>14,
       <1>15, <1>16, <1>17, <1>18, <1>19, <1>20
       DEF Next, RowStep, TaskStep

LEMMA QueueInit == Init => QueueInv
<1> SUFFICES ASSUME Init PROVE QueueInv
    OBVIOUS
<1>1. \A t \in Tasks : task[t].pc \notin Holding /\ ~task[t].ok
    BY DEF Init, NoTask, Holding
<1> QED
    BY <1>1, TypeInit DEF QueueInv, HeldInv, ClaimsExclusive, AckInv, GoneInv, PrunedInv, Holds,
       Init, Row

LEMMA QueueInvHolds == Spec => []QueueInv
<1>1. QueueInv /\ [Next]_vars => QueueInv'
    BY QueueStep
<1> QED
    BY <1>1, QueueInit, PTL DEF Spec

(* Two tasks of fetch_due's claims never hold one delivery at a time,      *)
(* unless its lease ran out under the first of them.                       *)
THEOREM ClaimsExclusiveHolds == Spec => []ClaimsExclusive
<1>1. QueueInv => ClaimsExclusive
    BY DEF QueueInv
<1> QED
    BY <1>1, QueueInvHolds, PTL

-----------------------------------------------------------------------------
(* Implementing DeliveryQueue *)

qvars == <<status, acked>>

(* A write to a row some task holds moves the abstract queue as it moves   *)
(* the row, and not at all when the row is late or gone.                   *)
LEMMA WriteStatus ==
    ASSUME QueueInv, NEW t \in Tasks, NEW i \in Deliveries, Holds(t, i),
           NEW r, row' = Write(i, r), late' = late, pruning' = pruning
    PROVE  \/ status' = status
           \/ /\ status[i] = "pending"
              /\ status' = [status EXCEPT ![i] = r.status]
<1>1. CASE row[i].status = "gone"
    BY <1>1 DEF Write, status
<1>2. CASE i \in late \cup pruning
    <2>1. \A j \in Deliveries : j # i => row'[j] = row[j]
        BY WriteOthers DEF QueueInv
    <2> QED
        BY <1>2, <2>1 DEF status
<1>3. CASE row[i].status # "gone" /\ i \notin late /\ i \notin pruning
    <2>1. row[i].status = "pending"
        BY <1>3 DEF QueueInv, HeldInv
    <2>2. \A j \in Deliveries : row'[j] = IF j = i THEN r ELSE row[j]
        BY <1>3 DEF Write, QueueInv, TypeOK
    <2>3. status[i] = "pending"
        BY <1>3, <2>1 DEF status
    <2>4. status' = [status EXCEPT ![i] = r.status]
        BY <1>3, <2>2 DEF status
    <2> QED
        BY <2>3, <2>4
<1> QED
    BY <1>1, <1>2, <1>3

LEMMA RefinesStep ==
    ASSUME QueueInv, [Next]_vars
    PROVE  [Queue!Next]_qvars
<1>o. TypeOK /\ HeldInv /\ AckInv /\ PrunedInv
    BY DEF QueueInv
<1>g. ASSUME NEW t \in Tasks, task[t].pc \in Holding
      PROVE  /\ task[t].id \in Deliveries /\ Holds(t, task[t].id)
             /\ status[task[t].id] \in {"pending", "gone", "late"}
    <2>1. task[t].id \in Deliveries
        BY <1>g, <1>o, HolderTyped DEF HeldTask
    <2>2. Holds(t, task[t].id)
        BY <1>g DEF Holds
    <2> QED
        BY <2>1, <2>2, <1>o DEF HeldInv, status
<1>p. ASSUME row' = row, late' = late, pruning' = pruning  PROVE status' = status
    BY <1>p DEF status
<1>1. ASSUME NEW i \in Deliveries, Enqueue(i)  PROVE [Queue!Next]_qvars
    <2>1. acked' = acked /\ late' = late /\ pruning' = pruning /\ i \notin pruning
        BY <1>1, <1>o DEF Enqueue, history, PrunedInv
    <2>2. \A j \in Deliveries : row'[j] = IF j = i THEN Row("pending", 0, TRUE, FALSE) ELSE row[j]
        BY <1>1, <1>o DEF Enqueue, TypeOK
    <2>3. CASE i \in late
        <3>1. status' = status
            BY <2>1, <2>2, <2>3 DEF status
        <3> QED
            BY <3>1, <2>1 DEF qvars
    <2>4. CASE i \notin late
        <3>. row[i].status = "none" /\ Row("pending", 0, TRUE, FALSE).status = "pending"
            BY <1>1 DEF Enqueue, Row
        <3>1. status[i] = "none" /\ status' = [status EXCEPT ![i] = "pending"]
            BY <2>1, <2>2, <2>4 DEF status
        <3>2. Queue!Accept(i)
            BY <3>1, <2>1 DEF Queue!Accept
        <3> QED
            BY <3>2 DEF Queue!Next
    <2> QED
        BY <2>3, <2>4
<1>2. ASSUME NEW i \in Deliveries, BackoffElapses(i)  PROVE [Queue!Next]_qvars
    <2>1. \A j \in Deliveries : row'[j].status = row[j].status
        BY <1>2, <1>o DEF BackoffElapses, TypeOK
    <2>2. acked' = acked /\ late' = late /\ pruning' = pruning
        BY <1>2 DEF BackoffElapses, history
    <2> QED
        BY <2>1, <2>2 DEF status, qvars
<1>3. ASSUME NEW i \in Deliveries, LeaseRunsOut(i)  PROVE [Queue!Next]_qvars
    <2>1. \A j \in Deliveries : row'[j].status = row[j].status
        BY <1>3, <1>o DEF LeaseRunsOut, TypeOK
    <2>2. acked' = acked /\ pruning' = pruning
        BY <1>3 DEF LeaseRunsOut
    <2>3. CASE late' = late
        BY <2>1, <2>2, <2>3 DEF status, qvars
    <2>4. CASE late' # late
        <3>1. late' = late \cup {i} /\ i \notin late /\ \E t \in Tasks : Holds(t, i)
            BY <1>3, <2>4 DEF LeaseRunsOut
        <3>2. row[i].status = "gone" => ~row[i].leased
            BY DEF QueueInv, GoneInv
        <3>3. row[i].status = "pending"
            BY <1>3, <3>1, <3>2, <1>o DEF HeldInv, LeaseRunsOut
        <3>4. status[i] \in {"pending", "gone"}
            BY <3>1, <3>3 DEF status
        <3>5. status' = [status EXCEPT ![i] = "late"]
            BY <2>1, <2>2, <3>1 DEF status
        <3>6. Queue!Lapse(i)
            BY <3>4, <3>5, <2>2 DEF Queue!Lapse
        <3> QED
            BY <3>6 DEF Queue!Next
    <2> QED
        BY <2>3, <2>4
<1>4. CASE DayPasses \/ SwitchOff \/ SwitchOn \/ RedriveCheck
    BY <1>4, <1>p DEF DayPasses, SwitchOff, SwitchOn, RedriveCheck, history, qvars
<1>5. ASSUME NEW i \in Deliveries, ClaimRow(i)  PROVE [Queue!Next]_qvars
    <2>1. \A j \in Deliveries : row'[j].status = row[j].status
        BY <1>5, <1>o DEF ClaimRow, Claim, TypeOK
    <2>2. acked' = acked /\ late' = late /\ pruning' = pruning
        BY <1>5 DEF ClaimRow, Claim, history
    <2> QED
        BY <2>1, <2>2 DEF status, qvars
<1>6. ASSUME NEW t \in Tasks, NEW r, task[t].pc \in Holding, row' = Write(task[t].id, r),
             r.status = "failed" \/ r.status = row[task[t].id].status,
             late' = late, pruning' = pruning, acked' = acked
      PROVE  [Queue!Next]_qvars
    <2>. DEFINE i == task[t].id
    <2>1. i \in Deliveries /\ Holds(t, i)
        BY <1>6, <1>g
    <2>2. \/ status' = status
          \/ status[i] = "pending" /\ status' = [status EXCEPT ![i] = r.status]
        BY <1>6, <2>1, WriteStatus
    <2>3. CASE status' = status
        BY <2>3, <1>6 DEF qvars
    <2>4. CASE status[i] = "pending" /\ status' = [status EXCEPT ![i] = "failed"]
        BY <2>4, <2>1, <1>6 DEF Queue!Next, Queue!GiveUp
    <2>5. CASE status[i] = "pending" /\ status' = [status EXCEPT ![i] = row[i].status]
        <3>1. row[i].status = "pending"
            BY <2>1, <2>5 DEF status
        <3>2. status' = status
            BY <3>1, <2>5, <2>1 DEF status
        <3> QED
            BY <3>2, <1>6 DEF qvars
    <2> QED
        BY <2>2, <2>3, <2>4, <2>5, <1>6
<1>7. ASSUME NEW t \in Tasks, Undecryptable(t) \/ SourcePruned(t)  PROVE [Queue!Next]_qvars
    <2>1. task[t].pc \in Holding
        BY <1>7 DEF Undecryptable, SourcePruned, Holding
    <2>2. row[task[t].id] \in RowType
        BY <2>1, <1>g, <1>o DEF TypeOK, RowType
    <2>3. [row[task[t].id] EXCEPT !.status = "failed", !.leased = FALSE].status = "failed"
        BY <2>2 DEF RowType
    <2> QED
        BY <1>6, <1>7, <2>1, <2>3 DEF Undecryptable, SourcePruned, MarkFailed, history
<1>8. ASSUME NEW t \in Tasks, NEW answer, Send(t, answer)  PROVE [Queue!Next]_qvars
    <2>1. status' = status
        BY <1>8, <1>p DEF Send
    <2>2. task[t].id \in Deliveries /\ status[task[t].id] \in {"pending", "gone", "late"}
        BY <1>8, <1>g DEF Send, Holding
    <2>3. acked' = acked \/ acked' = acked \cup {task[t].id}
        BY <1>8 DEF Send
    <2> QED
        BY <2>1, <2>2, <2>3 DEF Queue!Next, Queue!Acknowledge, qvars
<1>9. ASSUME NEW t \in Tasks,
             \/ Disable410(t) \/ RecordSuccess(t) \/ CountFailure(t) \/ CheckAutoDisable(t)
             \/ AutoDisable(t) \/ StatementFails(t)
      PROVE  [Queue!Next]_qvars
    BY <1>9, <1>p DEF Disable410, RecordSuccess, CountFailure, CheckAutoDisable, AutoDisable,
       StatementFails, history, qvars
<1>10. ASSUME NEW t \in Tasks, MarkDelivered(t)  PROVE [Queue!Next]_qvars
    <2>. DEFINE i == task[t].id
                r == Row("delivered", row[i].attempts + 1, row[i].due, FALSE)
    <2>1. i \in Deliveries /\ Holds(t, i)
        BY <1>10, <1>g DEF MarkDelivered, Holding
    <2>2. i \in acked
        BY <1>10, <1>o DEF MarkDelivered, AckInv
    <2>3. r.status = "delivered"
        BY DEF Row
    <2>4. row' = Write(i, r) /\ late' = late /\ pruning' = pruning /\ acked' = acked
        BY <1>10 DEF MarkDelivered, history
    <2>. HIDE DEF r
    <2>5. \/ status' = status
          \/ status[i] = "pending" /\ status' = [status EXCEPT ![i] = "delivered"]
        BY <2>1, <2>3, <2>4, WriteStatus
    <2> QED
        BY <2>1, <2>2, <2>4, <2>5 DEF Queue!Next, Queue!Deliver, qvars
<1>11. ASSUME NEW t \in Tasks, MarkRetry(t)  PROVE [Queue!Next]_qvars
    <2>. DEFINE i == task[t].id
                n == task[t].attempts + 1
                r == IF IsFinal(n) THEN Row("failed", n, row[i].due, FALSE)
                     ELSE Row(row[i].status, n, FALSE, FALSE)
    <2>1. r.status = "failed" \/ r.status = row[i].status
        BY DEF Row
    <2>2. /\ row' = Write(i, r) /\ late' = late /\ pruning' = pruning /\ acked' = acked
          /\ task[t].pc \in Holding
        BY <1>11 DEF MarkRetry, Holding, history
    <2>. HIDE DEF r
    <2> QED
        BY <2>1, <2>2, <1>6
<1>12. ASSUME NEW w \in Workers, WorkerStep(w) \/ Crash(w)  PROVE [Queue!Next]_qvars
    BY <1>12, <1>p DEF WorkerStep, StopClaiming, Drained, Crash, history, qvars
<1>13. CASE Delete
    <2>1. acked' = acked /\ late' = late /\ pruning' = {}
        BY <1>13 DEF Delete, history
    <2>2. \A j \in Deliveries :
            row'[j].status = IF row[j].status = "none" THEN "none" ELSE "gone"
        BY <1>13 DEF Delete, Row
    <2>3. \A j \in Deliveries : row[j].status # "late"
        BY <1>o DEF TypeOK, Statuses
    <2>4. status' = [j \in Deliveries |->
                        IF status[j] \in {"none", "late"} THEN status[j] ELSE "gone"]
        BY <2>1, <2>2, <2>3, <1>o DEF status, PrunedInv
    <2> QED
        BY <2>1, <2>4 DEF Queue!Next, Queue!DropAll
<1>14. CASE RedriveReset
    <2>1. PICK S \in SUBSET {i \in Deliveries : Redrivable(i)} :
            row' = [i \in Deliveries |->
                    IF i \in S THEN Row("pending", 0, FALSE, row[i].leased) ELSE row[i]]
        BY <1>14 DEF RedriveReset
    <2>. DEFINE T == S \ (late \cup pruning)
    <2>2. acked' = acked /\ late' = late /\ pruning' = pruning
        BY <1>14 DEF RedriveReset
    <2>3. status' = [i \in Deliveries |-> IF i \in T THEN "pending" ELSE status[i]]
        BY <2>1, <2>2 DEF status, Row
    <2>4. \A i \in T : status[i] = "failed"
        BY <2>1 DEF Redrivable, status
    <2>5. T \in SUBSET Deliveries
        BY <2>1
    <2>. HIDE DEF T
    <2> QED
        BY <2>2, <2>3, <2>4, <2>5 DEF Queue!Next, Queue!Redrive
<1>15. CASE PruneSelect
    <2>1. /\ acked' = acked /\ late' = late /\ row' = row /\ pruning = {}
          /\ pruning' \in SUBSET {i \in Deliveries : Prunable(i)}
        BY <1>15 DEF PruneSelect, history
    <2>. DEFINE T == pruning' \ late
    <2>2. status' = [i \in Deliveries |-> IF i \in T THEN "gone" ELSE status[i]]
        BY <2>1 DEF status
    <2>3. \A i \in T : status[i] \in {"delivered", "failed"}
        BY <2>1 DEF Prunable, status
    <2>4. T \in SUBSET Deliveries
        BY <2>1
    <2>. HIDE DEF T
    <2> QED
        BY <2>1, <2>2, <2>3, <2>4 DEF Queue!Next, Queue!Remove
<1>17. CASE PruneDelete
    <2>1. /\ acked' = acked /\ late' = late /\ pruning' = {}
          /\ \A i \in Deliveries : i \in pruning => row'[i].status = "gone"
          /\ \A i \in Deliveries : i \notin pruning => row'[i] = row[i]
        BY <1>17 DEF PruneDelete, Row, history
    <2>2. status' = status
        BY <2>1 DEF status
    <2> QED
        BY <2>1, <2>2 DEF qvars
<1>16. CASE UNCHANGED vars
    BY <1>16, <1>p DEF vars, qvars
<1> QED
    BY <1>1, <1>2, <1>3, <1>4, <1>5, <1>7, <1>8, <1>9, <1>10, <1>11, <1>12, <1>13, <1>14,
       <1>15, <1>16, <1>17
       DEF Next, RowStep, TaskStep

(* The delivery service (claim, send, mark, crash, redrive, prune, delete) *)
(* implements DeliveryQueue: for a delivery whose lease never ran out      *)
(* under a task, delivered means acknowledged, a settled delivery is       *)
(* reopened by a redrive of a failed one only, and nothing pending is      *)
(* dropped but with its subscription, or when it was redriven after the    *)
(* pruner had selected it.                                                 *)
THEOREM ImplementsQueue == Spec => QueueSpec
<1>1. Init => Queue!Init
    BY DEF Init, Queue!Init, status, Row
<1>2. QueueInv /\ [Next]_vars => [Queue!Next]_<<status, acked>>
    BY RefinesStep DEF qvars
<1> QED
    BY <1>1, <1>2, QueueInvHolds, PTL DEF Spec, QueueSpec, Queue!Spec

-----------------------------------------------------------------------------
(* Attempts *)

(* A step that leaves the row's counter, the attempts and the holders of a *)
(* delivery alone keeps it counted.                                        *)
LEMMA CountedFrame ==
    ASSUME TypeOK, TypeOK', NEW i \in Deliveries, Counted(i), late \subseteq late',
           row'[i].status = row[i].status, row'[i].attempts = row[i].attempts,
           posts'[i] = posts[i], faults <= faults',
           \A t \in Tasks : task'[t] = task[t] \/ (~Holds(t, i) /\ ~Holds(t, i)')
    PROVE  Counted(i)'
<1> SUFFICES ASSUME i \notin late'
             PROVE  Counted(i)'
    BY DEF Counted
<1>1. /\ posts[i] \in Nat /\ faults \in Nat /\ faults' \in Nat /\ row[i].attempts \in Nat
      /\ MaxAttempts \in Nat
    BY DeliveryAssumption DEF TypeOK
<1>2. \A t \in Tasks : Holds(t, i) => task[t].attempts \in Nat
    BY HolderTyped DEF Holds, HeldTask
<1>3. \A t \in Tasks : Holds(t, i)' => task'[t] = task[t] /\ Holds(t, i) /\ (Sent(t)' <=> Sent(t))
    BY DEF Holds, Sent
<1>4. \A t \in Tasks : Holds(t, i) => Holds(t, i)'
    BY DEF Holds
<1>5. posts'[i] <= MaxAttempts + faults' /\ (row'[i].status = "none" => posts'[i] = 0)
    BY <1>1 DEF Counted
<1>6. ASSUME NEW t \in Tasks, Holds(t, i)'
      PROVE  /\ task'[t].attempts < MaxAttempts
             /\ posts'[i] <= task'[t].attempts + faults' + (IF Sent(t)' THEN 1 ELSE 0)
             /\ row'[i].status = "pending" => row'[i].attempts = task'[t].attempts
    BY <1>1, <1>2, <1>3, <1>6 DEF Counted
<1>7. row'[i].status = "pending" =>
        /\ row'[i].attempts < MaxAttempts
        /\ (\A t \in Tasks : Holds(t, i)' => ~Sent(t)') => posts'[i] <= row'[i].attempts + faults'
    BY <1>1, <1>3, <1>4 DEF Counted
<1> QED
    BY <1>5, <1>6, <1>7 DEF Counted

(* A delivery nobody holds and that is not pending needs no account. *)
LEMMA CountedSettled ==
    ASSUME TypeOK, TypeOK', NEW i \in Deliveries, Counted(i), late' = late, posts' = posts,
           faults' = faults, row'[i].status \notin {"none", "pending"},
           \A t \in Tasks : ~Holds(t, i)' \/ i \in late
    PROVE  Counted(i)'
BY DEF Counted

LEMMA CountStep ==
    ASSUME QueueInv, CountInv, [Next]_vars
    PROVE  CountInv'
<1>t. TypeOK /\ TypeOK'
    BY TypeStep DEF QueueInv
<1>q. HeldInv /\ ClaimsExclusive
    BY DEF QueueInv
<1> SUFFICES ASSUME NEW j \in Deliveries  PROVE Counted(j)'
    BY DEF CountInv
<1>c. Counted(j)
    BY DEF CountInv
<1>a. /\ posts[j] \in Nat /\ faults \in Nat /\ row[j].attempts \in Nat
      /\ MaxAttempts \in Nat \ {0}
    BY <1>t, DeliveryAssumption DEF TypeOK
<1>h. \A t \in Tasks : task[t].pc \in Holding =>
        task[t].id \in Deliveries /\ task[t].attempts \in Nat /\ Holds(t, task[t].id)
    BY <1>t, HolderTyped DEF HeldTask, Holds
<1>z. /\ \A t \in Tasks, pc \in DonePcs : task'[t] = Done(pc) => ~Holds(t, j)'
      /\ \A t \in Tasks : task'[t] = NoTask => ~Holds(t, j)'
    BY DoneTyped, NoTaskDone DEF Holds
<1>u. ASSUME NEW i, NEW r, row' = Write(i, r), j # i
      PROVE  row'[j] = row[j]
    BY <1>u, <1>t, WriteOthers
<1>1. ASSUME NEW i \in Deliveries, Enqueue(i)  PROVE Counted(j)'
    <2>1. task' = task /\ posts' = posts /\ late' = late /\ faults' = faults
        BY <1>1 DEF Enqueue, history
    <2>2. \A k \in Deliveries : row'[k] = IF k = i THEN Row("pending", 0, TRUE, FALSE) ELSE row[k]
        BY <1>1, <1>t DEF Enqueue, TypeOK
    <2>3. CASE j # i
        <3>1. row'[j] = row[j]
            BY <2>2, <2>3
        <3>2. faults <= faults'
            BY <2>1, <1>a
        <3> QED
            BY <2>1, <3>1, <3>2, <1>t, <1>c, CountedFrame
    <2>4. CASE j = i
        <3>1. row[j].status = "none" /\ row'[j].status = "pending" /\ row'[j].attempts = 0
            BY <1>1, <2>2, <2>4 DEF Enqueue, Row
        <3>2. \A t \in Tasks : Holds(t, j) => j \in late
            BY <3>1, <1>q DEF HeldInv
        <3>3. \A t \in Tasks : Holds(t, j)' => Holds(t, j)
            BY <2>1 DEF Holds
        <3> QED
            BY <3>1, <3>2, <3>3, <2>1, <1>c, <1>a DEF Counted
    <2> QED
        BY <2>3, <2>4
<1>2. ASSUME NEW i \in Deliveries, BackoffElapses(i) \/ LeaseRunsOut(i)  PROVE Counted(j)'
    <2>1. /\ task' = task /\ late \subseteq late' /\ faults' = faults
          /\ j \in late' \/ posts'[j] = posts[j]
        BY <1>2, <1>t DEF BackoffElapses, LeaseRunsOut, history, TypeOK
    <2>2. row'[j].status = row[j].status /\ row'[j].attempts = row[j].attempts
        BY <1>2, <1>t DEF BackoffElapses, LeaseRunsOut, TypeOK
    <2>3. CASE j \in late'
        BY <2>3 DEF Counted
    <2>4. CASE posts'[j] = posts[j]
        BY <2>1, <2>2, <2>4, <1>t, <1>c, <1>a, CountedFrame
    <2> QED
        BY <2>1, <2>3, <2>4
<1>3. CASE DayPasses \/ SwitchOff \/ SwitchOn \/ RedriveCheck \/ UNCHANGED vars
    <2>1. task' = task /\ posts' = posts /\ late' = late /\ faults' = faults /\ row' = row
        BY <1>3 DEF DayPasses, SwitchOff, SwitchOn, RedriveCheck, history, vars
    <2> QED
        BY <2>1, <1>t, <1>c, <1>a, CountedFrame
<1>4. ASSUME NEW i \in Deliveries, ClaimRow(i)  PROVE Counted(j)'
    <2>1. PICK t \in Tasks, pc \in {"claimed", "unreadable"} : Claim(t, i, pc)
        BY <1>4 DEF ClaimRow
    <2>2. /\ posts' = posts /\ late' = late /\ faults' = faults
          /\ \A u \in Tasks : u # t => task'[u] = task[u]
          /\ task'[t] = [pc |-> pc, id |-> i, attempts |-> row[i].attempts, ok |-> FALSE]
        BY <2>1, <1>t DEF Claim, TypeOK, history
    <2>3. row'[j].status = row[j].status /\ row'[j].attempts = row[j].attempts
        BY <2>1, <1>t DEF Claim, TypeOK
    <2>4. ~Holds(t, j)
        BY <2>1 DEF Claim, Holds, Holding
    <2>5. CASE j # i
        <3>1. ~Holds(t, j)'
            BY <2>2, <2>5 DEF Holds
        <3> QED
            BY <2>2, <2>3, <2>4, <3>1, <1>t, <1>c, <1>a, CountedFrame
    <2>6. CASE j = i
        <3>1. row[j].status = "pending" /\ ~row[j].leased
            BY <2>1, <2>6 DEF Claim, Claimable
        <3>2. \A u \in Tasks : Holds(u, j) => j \in late
            BY <3>1, <1>q DEF HeldInv
        <3>3. \A u \in Tasks : Holds(u, j)' => u = t \/ Holds(u, j)
            BY <2>2 DEF Holds
        <3>4. ~Sent(t)' /\ task'[t].attempts = row[j].attempts
            BY <2>2, <2>6 DEF Sent
        <3> QED
            BY <3>1, <3>2, <3>3, <3>4, <2>2, <2>3, <1>c, <1>a DEF Counted
    <2> QED
        BY <2>5, <2>6
(* Another holder of the row a task lets go of is late. *)
<1>x. ASSUME NEW t \in Tasks, task[t].pc \in Holding, NEW pc \in DonePcs,
             task' = [task EXCEPT ![t] = Done(pc)], j = task[t].id
      PROVE  \A u \in Tasks : Holds(u, j)' => j \in late
    <2>1. \A u \in Tasks : task'[u] = IF u = t THEN Done(pc) ELSE task[u]
        BY <1>x, <1>t DEF TypeOK
    <2>2. \A u \in Tasks : Holds(u, j)' => u # t /\ Holds(u, j)
        BY <2>1, <1>z DEF Holds
    <2> QED
        BY <2>2, <1>x, <1>h, <1>q DEF ClaimsExclusive
(* ... and other rows are not touched. *)
<1>y. ASSUME NEW t \in Tasks, task[t].pc \in Holding, NEW pc \in DonePcs,
             task' = [task EXCEPT ![t] = Done(pc)], j # task[t].id, row'[j] = row[j],
             posts' = posts, late' = late, faults <= faults'
      PROVE  Counted(j)'
    <2>1. \A u \in Tasks : task'[u] = IF u = t THEN Done(pc) ELSE task[u]
        BY <1>y, <1>t DEF TypeOK
    <2>2. ~Holds(t, j) /\ ~Holds(t, j)'
        BY <1>y, <2>1, <1>z DEF Holds
    <2> QED
        BY <1>y, <2>1, <2>2, <1>t, <1>c, CountedFrame
<1>5. ASSUME NEW t \in Tasks, NEW pc \in DonePcs, NEW r, task[t].pc \in Holding,
             task' = [task EXCEPT ![t] = Done(pc)], row' = Write(task[t].id, r),
             r.status \notin {"none", "pending"}, UNCHANGED history, faults' = faults
      PROVE  Counted(j)'
    <2>1. CASE j # task[t].id
        <3>1. row'[j] = row[j] /\ faults <= faults'
            BY <1>5, <2>1, <1>u, <1>a
        <3> QED
            BY <1>5, <2>1, <3>1, <1>y DEF history
    <2>2. CASE j = task[t].id
        <3>1. row'[j].status \notin {"none", "pending"}
            BY <1>5, <2>2, <1>t DEF Write, TypeOK
        <3> QED
            BY <1>5, <2>2, <3>1, <1>x, <1>t, <1>c, CountedSettled DEF history
    <2> QED
        BY <2>1, <2>2
<1>6. ASSUME NEW t \in Tasks, Undecryptable(t) \/ SourcePruned(t)  PROVE Counted(j)'
    <2>1. task[t].pc \in Holding /\ \E pc \in DonePcs : task' = [task EXCEPT ![t] = Done(pc)]
        BY <1>6, NoTaskDone DEF Undecryptable, SourcePruned, Holding, DonePcs
    <2>2. row[task[t].id] \in RowType
        BY <2>1, <1>h, <1>t DEF TypeOK, RowType
    <2>3. [row[task[t].id] EXCEPT !.status = "failed", !.leased = FALSE].status
            \notin {"none", "pending"}
        BY <2>2 DEF RowType
    <2>4. /\ row' = Write(task[t].id, [row[task[t].id] EXCEPT !.status = "failed", !.leased = FALSE])
          /\ UNCHANGED history /\ faults' = faults
        BY <1>6 DEF Undecryptable, SourcePruned, MarkFailed
    <2> QED
        BY <2>1, <2>3, <2>4, <1>5
<1>7. ASSUME NEW t \in Tasks, MarkDelivered(t)  PROVE Counted(j)'
    <2>. DEFINE r == Row("delivered", row[task[t].id].attempts + 1, row[task[t].id].due, FALSE)
    <2>1. r.status \notin {"none", "pending"}
        BY DEF Row
    <2>2. /\ row' = Write(task[t].id, r) /\ UNCHANGED history /\ faults' = faults
          /\ task[t].pc \in Holding /\ task' = [task EXCEPT ![t] = Done("succeeded")]
          /\ "succeeded" \in DonePcs
        BY <1>7 DEF MarkDelivered, Holding, DonePcs
    <2>. HIDE DEF r
    <2> QED
        BY <2>1, <2>2, <1>5
<1>8. ASSUME NEW t \in Tasks, MarkRetry(t)  PROVE Counted(j)'
    <2>. DEFINE n == task[t].attempts + 1
                r == IF IsFinal(n) THEN Row("failed", n, row[task[t].id].due, FALSE)
                     ELSE Row(row[task[t].id].status, n, FALSE, FALSE)
    <2>1. /\ row' = Write(task[t].id, r) /\ UNCHANGED history /\ faults' = faults
          /\ task[t].pc \in Holding /\ task' = [task EXCEPT ![t] = Done("count")]
          /\ "count" \in DonePcs /\ Sent(t)
        BY <1>8 DEF MarkRetry, Holding, DonePcs, Sent
    <2>2. CASE j # task[t].id
        <3>1. row'[j] = row[j]
            BY <2>1, <2>2, <1>u
        <3>2. faults <= faults'
            BY <2>1, <1>a
        <3> QED
            BY <2>1, <2>2, <3>1, <3>2, <1>y DEF history
    <2>3. CASE j = task[t].id
        <3>. SUFFICES ASSUME j \notin late  PROVE Counted(j)'
            BY <2>1 DEF Counted, history
        <3>1. Holds(t, j) /\ task[t].attempts \in Nat
            BY <2>1, <2>3, <1>h
        <3>2. \A u \in Tasks : ~Holds(u, j)'
            BY <2>1, <2>3, <1>x
        <3>3. posts[j] <= n + faults
            BY <3>1, <2>1, <1>c, <1>a DEF Counted
        <3>4. CASE row[j].status = "gone" \/ IsFinal(n)
            <4>1. row'[j].status \notin {"none", "pending"}
                BY <3>4, <2>1, <2>3, <1>t DEF Write, Row, TypeOK
            <4> QED
                BY <4>1, <2>1, <3>2, <1>t, <1>c, CountedSettled DEF history
        <3>5. CASE row[j].status # "gone" /\ ~IsFinal(n)
            <4>1. row[j].status = "pending"
                BY <3>1, <3>5, <1>q DEF HeldInv
            <4>2. row'[j].attempts = n /\ row'[j].status = "pending"
                BY <3>5, <4>1, <2>1, <2>3, <1>t DEF Write, Row, TypeOK
            <4>3. n < MaxAttempts
                BY <3>1, <3>5, <1>a DEF IsFinal
            <4>4. posts' = posts /\ faults' = faults /\ posts[j] <= MaxAttempts + faults
                BY <2>1, <1>c DEF history, Counted
            <4> QED
                BY <3>2, <3>3, <4>2, <4>3, <4>4 DEF Counted
        <3> QED
            BY <3>4, <3>5
    <2> QED
        BY <2>2, <2>3
<1>9. ASSUME NEW t \in Tasks, NEW answer, Send(t, answer)  PROVE Counted(j)'
    <2>1. /\ row' = row /\ late' = late /\ faults' = faults
          /\ task[t].pc = "claimed" /\ task[t].pc \in Holding
        BY <1>9 DEF Send, Holding
    <2>2. task[t] \in HeldTask
        BY <2>1, <1>t, HolderTyped
    <2>3. /\ \A u \in Tasks : u # t => task'[u] = task[u]
          /\ task'[t].id = task[t].id /\ task'[t].attempts = task[t].attempts
          /\ Sent(t)' /\ ~Sent(t)
        BY <1>9, <2>2, <1>t DEF Send, TypeOK, HeldTask, Sent
    <2>4. CASE j # task[t].id
        <3>1. ~Holds(t, j) /\ ~Holds(t, j)'
            BY <2>3, <2>4 DEF Holds
        <3>2. posts'[j] = posts[j]
            BY <1>9, <2>4, <1>t DEF Send, TypeOK
        <3> QED
            BY <2>1, <2>3, <3>1, <3>2, <1>t, <1>c, <1>a, CountedFrame
    <2>5. CASE j = task[t].id
        <3>. SUFFICES ASSUME j \notin late  PROVE Counted(j)'
            BY <2>1 DEF Counted
        <3>1. Holds(t, j) /\ task[t].attempts \in Nat /\ task[t].attempts < MaxAttempts
            BY <2>1, <2>5, <1>h, <1>c DEF Counted
        <3>2. posts'[j] = posts[j] + 1
            BY <1>9, <2>5, <1>t DEF Send, TypeOK
        <3>3. posts[j] <= task[t].attempts + faults
            BY <3>1, <2>3, <1>c, <1>a DEF Counted
        <3>4. row[j].status # "none"
            BY <3>1, <1>q DEF HeldInv
        <3>5. \A u \in Tasks : Holds(u, j)' => u = t
            BY <2>3, <3>1, <1>q DEF Holds, ClaimsExclusive
        <3>6. Holds(t, j)'
            BY <1>9, <2>3, <2>5, <2>2, <1>t DEF Holds, Holding, Send, TypeOK, HeldTask
        <3>7. row[j].status = "pending" => row[j].attempts = task[t].attempts
            BY <3>1, <1>c DEF Counted
        <3> QED
            BY <3>1, <3>2, <3>3, <3>4, <3>5, <3>6, <3>7, <2>1, <2>3, <1>a DEF Counted
    <2> QED
        BY <2>4, <2>5
<1>10. ASSUME NEW t \in Tasks, task[t].pc = "disable410", task' = [task EXCEPT ![t].pc = "mark"],
              row' = row, UNCHANGED history, faults <= faults', faults' \in Nat
       PROVE  Counted(j)'
    <2>1. task[t] \in HeldTask
        BY <1>10, <1>t, HolderTyped DEF Holding
    <2>2. \A u \in Tasks : u # t => task'[u] = task[u]
        BY <1>10, <1>t DEF TypeOK
    <2>3. task'[t].id = task[t].id /\ task'[t].attempts = task[t].attempts /\ task'[t].pc = "mark"
        BY <1>10, <2>1, <1>t DEF TypeOK, HeldTask
    <2>4. \A u \in Tasks : /\ Holds(u, j)' <=> Holds(u, j)
                          /\ Sent(u)' <=> Sent(u)
                          /\ task'[u].attempts = task[u].attempts
        BY <1>10, <2>2, <2>3 DEF Holds, Holding, Sent
    <2>5. \A u \in Tasks : Holds(u, j) => task[u].attempts \in Nat
        BY <1>t, HolderTyped DEF Holds, HeldTask
    <2>6. posts' = posts /\ late' = late
        BY <1>10 DEF history
    <2> QED
        <3>. SUFFICES ASSUME j \notin late  PROVE Counted(j)'
            BY <2>6 DEF Counted
        <3>1. posts'[j] <= MaxAttempts + faults' /\ (row'[j].status = "none" => posts'[j] = 0)
            BY <1>10, <2>6, <1>c, <1>a DEF Counted
        <3>2. ASSUME NEW u \in Tasks, Holds(u, j)'
              PROVE  /\ task'[u].attempts < MaxAttempts
                     /\ posts'[j] <= task'[u].attempts + faults' + (IF Sent(u)' THEN 1 ELSE 0)
                     /\ row'[j].status = "pending" => row'[j].attempts = task'[u].attempts
            <4>1. Holds(u, j) /\ (Sent(u)' <=> Sent(u)) /\ task'[u].attempts = task[u].attempts
                BY <1>10, <3>2, <2>2, <2>3 DEF Holds, Holding, Sent
            <4>2. task[u].attempts \in Nat
                BY <4>1, <2>5
            <4>3. /\ task[u].attempts < MaxAttempts
                  /\ posts[j] <= task[u].attempts + faults + (IF Sent(u) THEN 1 ELSE 0)
                  /\ row[j].status = "pending" => row[j].attempts = task[u].attempts
                BY <4>1, <1>c DEF Counted
            <4> QED
                BY <1>10, <4>1, <4>2, <4>3, <2>6, <1>a
        <3>3. row'[j].status = "pending" =>
                /\ row'[j].attempts < MaxAttempts
                /\ (\A u \in Tasks : Holds(u, j)' => ~Sent(u)') =>
                    posts'[j] <= row'[j].attempts + faults'
            BY <1>10, <2>4, <2>6, <1>c, <1>a DEF Counted
        <3> QED
            BY <3>1, <3>2, <3>3, <2>6 DEF Counted
<1>11. ASSUME NEW t \in Tasks, task[t].pc \notin Holding, NEW pc \in DonePcs,
              task' = [task EXCEPT ![t] = Done(pc)], row' = row, UNCHANGED history,
              faults <= faults'
       PROVE  Counted(j)'
    <2>1. \A u \in Tasks : task'[u] = IF u = t THEN Done(pc) ELSE task[u]
        BY <1>11, <1>t DEF TypeOK
    <2>2. ~Holds(t, j) /\ ~Holds(t, j)'
        BY <1>11, <2>1, <1>z DEF Holds
    <2> QED
        BY <1>11, <2>1, <2>2, <1>t, <1>c, CountedFrame DEF history
<1>12. ASSUME NEW t \in Tasks,
              \/ Disable410(t) \/ RecordSuccess(t) \/ CountFailure(t) \/ CheckAutoDisable(t)
              \/ AutoDisable(t)
       PROVE  Counted(j)'
    <2>1. row' = row /\ UNCHANGED history /\ faults <= faults' /\ faults' \in Nat
        BY <1>12, <1>a
           DEF Disable410, RecordSuccess, CountFailure, CheckAutoDisable, AutoDisable
    <2>2. CASE Disable410(t)
        BY <2>1, <2>2, <1>10 DEF Disable410
    <2>3. CASE ~Disable410(t)
        <3>1. task[t].pc \notin Holding /\ \E pc \in DonePcs : task' = [task EXCEPT ![t] = Done(pc)]
            BY <1>12, <2>3, NoTaskDone
               DEF RecordSuccess, CountFailure, CheckAutoDisable, AutoDisable, DonePcs, Holding
        <3> QED
            BY <3>1, <2>1, <1>11
    <2> QED
        BY <2>2, <2>3
(* A task that is gone has left at most one attempt unrecorded, and the    *)
(* fault that took it is counted.                                          *)
<1>13. ASSUME NEW t \in Tasks, Holds(t, j), j \notin late, row' = row, posts' = posts,
              late' = late, faults' = faults + 1, \A u \in Tasks : ~Holds(u, j)'
       PROVE  Counted(j)'
    <2>1. task[t].attempts \in Nat
        BY <1>13, <1>h DEF Holds
    <2>2. row[j].status = "pending" => posts[j] <= row[j].attempts + faults + 1
        BY <1>13, <2>1, <1>c, <1>a DEF Counted
    <2>3. row[j].status # "none"
        BY <1>13, <1>q DEF HeldInv
    <2> QED
        BY <1>13, <2>2, <2>3, <1>c, <1>a DEF Counted
<1>14. ASSUME NEW t \in Tasks, StatementFails(t)  PROVE Counted(j)'
    <2>1. row' = row /\ UNCHANGED history /\ faults' = faults + 1
        BY <1>14 DEF StatementFails
    <2>2. faults <= faults' /\ faults' \in Nat
        BY <2>1, <1>a
    <2>3. CASE task[t].pc = "disable410"
        <3>1. task' = [task EXCEPT ![t].pc = "mark"]
            BY <1>14, <2>3 DEF StatementFails
        <3> QED
            BY <3>1, <2>1, <2>2, <2>3, <1>10
    <2>4. CASE task[t].pc # "disable410"
        <3>1. PICK pc \in DonePcs : task' = [task EXCEPT ![t] = Done(pc)]
            BY <1>14, <2>4, NoTaskDone DEF StatementFails, DonePcs
        <3>2. CASE task[t].pc \notin Holding
            BY <3>1, <3>2, <2>1, <2>2, <1>11
        <3>3. CASE task[t].pc \in Holding /\ j # task[t].id
            BY <3>1, <3>3, <2>1, <2>2, <1>y DEF history
        <3>4. CASE task[t].pc \in Holding /\ j = task[t].id
            <4>1. j \in late => Counted(j)'
                BY <2>1 DEF Counted, history
            <4>2. j \notin late => Counted(j)'
                BY <3>1, <3>4, <2>1, <1>h, <1>x, <1>13 DEF history
            <4> QED
                BY <4>1, <4>2
        <3> QED
            BY <3>2, <3>3, <3>4
    <2> QED
        BY <2>3, <2>4
<1>15. ASSUME NEW w \in Workers, WorkerStep(w)  PROVE Counted(j)'
    <2>1. task' = task /\ posts' = posts /\ late' = late /\ faults' = faults /\ row' = row
        BY <1>15 DEF WorkerStep, StopClaiming, Drained, history
    <2> QED
        BY <2>1, <1>t, <1>c, <1>a, CountedFrame
<1>16. ASSUME NEW w \in Workers, Crash(w)  PROVE Counted(j)'
    <2>1. row' = row /\ posts' = posts /\ late' = late /\ faults' = faults + 1
        BY <1>16 DEF Crash, history
    <2>2. \A u \in Tasks : task'[u] = IF WorkerOf[u] = w THEN NoTask ELSE task[u]
        BY <1>16 DEF Crash
    <2>3. faults <= faults'
        BY <2>1, <1>a
    <2>4. CASE j \in late
        BY <2>1, <2>4 DEF Counted
    <2>5. CASE \A t \in Tasks : Holds(t, j) => WorkerOf[t] # w
        <3>1. \A t \in Tasks : task'[t] = task[t] \/ (~Holds(t, j) /\ ~Holds(t, j)')
            BY <2>2, <2>5, <1>z
        <3> QED
            BY <2>1, <2>3, <3>1, <1>t, <1>c, CountedFrame
    <2>6. ASSUME j \notin late, NEW t \in Tasks, Holds(t, j), WorkerOf[t] = w
          PROVE  Counted(j)'
        <3>1. \A u \in Tasks : Holds(u, j)' => u # t /\ Holds(u, j)
            BY <2>2, <2>6, <1>z DEF Holds
        <3>2. \A u \in Tasks : ~Holds(u, j)'
            BY <3>1, <2>6, <1>q DEF ClaimsExclusive
        <3> QED
            BY <2>1, <2>6, <3>2, <1>13
    <2> QED
        BY <2>4, <2>5, <2>6
<1>17. CASE Delete \/ PruneSelect \/ PruneDelete
    <2>1. task' = task /\ posts' = posts /\ late' = late /\ faults' = faults
        BY <1>17 DEF Delete, PruneSelect, PruneDelete, history
    <2>2. row'[j] = row[j] \/ row'[j].status = "gone"
        BY <1>17 DEF Delete, PruneSelect, PruneDelete, Row
    <2>3. CASE row'[j] = row[j]
        BY <2>1, <2>3, <1>t, <1>c, <1>a, CountedFrame
    <2>4. CASE row'[j].status = "gone"
        BY <2>1, <2>4, <1>c DEF Counted, Holds, Sent
    <2> QED
        BY <2>2, <2>3, <2>4
<1>18. CASE RedriveReset
    <2>1. task' = task /\ late' = late /\ faults' = faults
        BY <1>18 DEF RedriveReset
    <2>2. \/ row'[j] = row[j] /\ posts'[j] = posts[j]
          \/ /\ row[j].status = "failed" /\ posts'[j] = 0
             /\ row'[j].status = "pending" /\ row'[j].attempts = 0
        BY <1>18 DEF RedriveReset, Redrivable, Row
    <2>3. CASE row'[j] = row[j] /\ posts'[j] = posts[j]
        BY <2>1, <2>3, <1>t, <1>c, <1>a, CountedFrame
    <2>4. CASE /\ row[j].status = "failed" /\ posts'[j] = 0
               /\ row'[j].status = "pending" /\ row'[j].attempts = 0
        <3>1. \A t \in Tasks : Holds(t, j)' => j \in late
            BY <2>1, <2>4, <1>q DEF HeldInv, Holds
        <3> QED
            BY <3>1, <2>1, <2>4, <1>a DEF Counted
    <2> QED
        BY <2>2, <2>3, <2>4
<1> QED
    BY <1>1, <1>2, <1>3, <1>4, <1>6, <1>7, <1>8, <1>9, <1>12, <1>14, <1>15, <1>16, <1>17,
       <1>18
       DEF Next, RowStep, TaskStep

(* mark_retry's counter bounds the attempts of a delivery: between two     *)
(* redrives at most MAX_ATTEMPTS, and one more for each crash or failed    *)
(* statement, as long as its lease does not run out under a task.          *)
THEOREM AttemptsBoundedHolds == Spec => []AttemptsBounded
<1>1. Init => CountInv
    <2>1. ASSUME Init  PROVE \A t \in Tasks, i \in Deliveries : ~Holds(t, i)
        BY <2>1 DEF Init, NoTask, Holds, Holding
    <2>2. ASSUME Init, NEW i \in Deliveries
          PROVE  posts[i] = 0 /\ faults = 0 /\ row[i].status = "none"
        BY <2>2 DEF Init, Row
    <2>3. ASSUME Init, NEW i \in Deliveries  PROVE Counted(i)
        BY <2>1, <2>2, <2>3, DeliveryAssumption DEF Counted
    <2> QED
        BY <2>3 DEF CountInv
<1>2. QueueInv /\ CountInv /\ [Next]_vars => CountInv'
    BY CountStep
<1>3. CountInv => AttemptsBounded
    BY DEF CountInv, Counted, AttemptsBounded
<1> QED
    BY <1>1, <1>2, <1>3, QueueInvHolds, PTL DEF Spec
=============================================================================
