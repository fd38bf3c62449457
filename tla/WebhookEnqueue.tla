--------------------------- MODULE WebhookEnqueue ---------------------------
(***************************************************************************)
(* How the webhook dispatcher turns new rows into deliveries               *)
(* (dispatcher.rs: enqueue_events, enqueue_upgrades), with the writers of  *)
(* those rows and the subscription routes of the API it races with.        *)
(*                                                                         *)
(* The two streams run the same algorithm over an id column Postgres       *)
(* allocates at INSERT and publishes at COMMIT: events.seq for "event"     *)
(* subscriptions, contract_spec_versions.id for "upgrade" ones.  A pass    *)
(* reads the stream's watermark, reads the largest visible id, and in one  *)
(* transaction inserts the deliveries of a window and moves the watermark; *)
(* enqueue runs the event pass, then the upgrade pass, every tick.  Its    *)
(* third pass, enqueue_backfill, selects the subscriptions whose           *)
(* backfill_seq is set: no statement of the program ever sets it, so the   *)
(* pass finds none and is not a step here.                                 *)
(*                                                                         *)
(* Which rows a subscription's contract, name and JSON filters select is   *)
(* abstracted to the set Matches[s] of row ids.                            *)
(***************************************************************************)
EXTENDS Integers, FiniteSets

CONSTANTS
    Writers,      \* database sessions inserting rows
    Dispatchers,  \* webhook service replicas
    Subs,         \* subscriptions that may be created
    Kind,         \* the stream each subscription watches
    Matches,      \* the row ids each subscription's filters select
    Baseline,     \* ids of first interface versions, which are not upgrades
    Batch,        \* ids one pass moves the watermark at most
    MaxId         \* bound: rows per stream

Streams == {"event", "upgrade"}

ASSUME EnqueueAssumption ==
    /\ Kind \in [Subs -> Streams]
    /\ Matches \in [Subs -> SUBSET (1..MaxId)]
    /\ Baseline \in [Streams -> SUBSET (1..MaxId)]
    /\ Batch \in Nat \ {0}
    /\ MaxId \in Nat

VARIABLES
    row,        \* row[k][i]: the state of id i of stream k
    nextId,     \* each stream's id sequence
    writing,    \* the row each writer's open transaction has inserted
    mark,       \* webhook_state: last_seq and last_upgrade_id
    disp,       \* each replica's enqueue pass
    sub,        \* webhook_subscriptions
    delivery,   \* webhook_deliveries, as (subscription, row id) pairs
    owed        \* history: rows committed while a subscription was active

enqueueVars == <<row, nextId, writing, mark, disp, sub, delivery, owed>>

Ids == 1..MaxId
NoRow == [stream |-> "none", id |-> 0]
Pass(where, k, last, upper) ==
    [pc |-> where, stream |-> k, last |-> last, upper |-> upper]
Between(k) == Pass("idle", k, 0, 0)
NoSub == [state |-> "none", starting |-> 0]

EnqueueInit ==
    /\ row = [k \in Streams |-> [i \in Ids |-> "free"]]
    /\ nextId = [k \in Streams |-> 1]
    /\ writing = [w \in Writers |-> NoRow]
    /\ mark = [k \in Streams |-> 0]
    /\ disp = [d \in Dispatchers |-> Between("event")]
    /\ sub = [s \in Subs |-> NoSub]
    /\ delivery = {}
    /\ owed = [s \in Subs |-> {}]

(* SELECT COALESCE(max(id), 0): m is the largest committed id of stream k. *)
IsMaxId(k, m) ==
    /\ m # 0 => row[k][m] = "committed"
    /\ \A i \in Ids : row[k][i] = "committed" => i <= m

-----------------------------------------------------------------------------
(* Writers: the indexer's processes *)

(* INSERT: nextval allocates the id at once. *)
InsertRow(w, k) ==
    /\ writing[w] = NoRow
    /\ nextId[k] <= MaxId
    /\ row' = [row EXCEPT ![k][nextId[k]] = "open"]
    /\ writing' = [writing EXCEPT ![w] = [stream |-> k, id |-> nextId[k]]]
    /\ nextId' = [nextId EXCEPT ![k] = @ + 1]
    /\ UNCHANGED <<mark, disp, sub, delivery, owed>>

(* COMMIT: only now do other sessions see the row. *)
CommitRow(w) ==
    /\ writing[w] # NoRow
    /\ LET k == writing[w].stream
           i == writing[w].id
       IN /\ row' = [row EXCEPT ![k][i] = "committed"]
          /\ owed' = [s \in Subs |->
                        IF /\ Kind[s] = k /\ sub[s].state = "active"
                           /\ i \in Matches[s] \ Baseline[k]
                        THEN owed[s] \cup {i} ELSE owed[s]]
    /\ writing' = [writing EXCEPT ![w] = NoRow]
    /\ UNCHANGED <<nextId, mark, disp, sub, delivery>>

(* ROLLBACK, or ON CONFLICT DO NOTHING: the id is burnt. *)
AbortRow(w) ==
    /\ writing[w] # NoRow
    /\ row' = [row EXCEPT ![writing[w].stream][writing[w].id] = "aborted"]
    /\ writing' = [writing EXCEPT ![w] = NoRow]
    /\ UNCHANGED <<nextId, mark, disp, sub, delivery, owed>>

-----------------------------------------------------------------------------
(* Subscription routes of the API *)

(* create_webhook with `since`: the largest seq now, whatever the kind of  *)
(* the subscription ...                                                    *)
ReadStartingSeq(s) ==
    /\ sub[s] = NoSub
    /\ \E m \in 0..MaxId :
        /\ IsMaxId("event", m)
        /\ sub' = [sub EXCEPT ![s] = [state |-> "creating", starting |-> m]]
    /\ UNCHANGED <<row, nextId, writing, mark, disp, delivery, owed>>

(* ... and the INSERT, which stores starting_seq but not backfill_seq,     *)
(* comes after.  Without `since` starting_seq is 0.                        *)
CreateWebhook(s) ==
    /\ sub[s].state \in {"none", "creating"}
    /\ sub' = [sub EXCEPT ![s].state = "active"]
    /\ UNCHANGED <<row, nextId, writing, mark, disp, delivery, owed>>

(* update_webhook with active = false, or an automatic disable. *)
Deactivate(s) ==
    /\ sub[s].state = "active"
    /\ sub' = [sub EXCEPT ![s].state = "inactive"]
    /\ owed' = [owed EXCEPT ![s] = {}]
    /\ UNCHANGED <<row, nextId, writing, mark, disp, delivery>>

(* update_webhook with active = true, or the re-enable route. *)
Reactivate(s) ==
    /\ sub[s].state = "inactive"
    /\ sub' = [sub EXCEPT ![s].state = "active"]
    /\ UNCHANGED <<row, nextId, writing, mark, disp, delivery, owed>>

(* delete_webhook: the deliveries go with the subscription. *)
DeleteWebhook(s) ==
    /\ sub[s].state \in {"active", "inactive"}
    /\ sub' = [sub EXCEPT ![s].state = "deleted"]
    /\ owed' = [owed EXCEPT ![s] = {}]
    /\ delivery' = {x \in delivery : x.sub # s}
    /\ UNCHANGED <<row, nextId, writing, mark, disp>>

-----------------------------------------------------------------------------
(* enqueue on replica d: a pass over each stream in turn *)

(* The watermark is read (and its row created) outside the transaction. *)
ReadWatermark(d) ==
    /\ disp[d].pc = "idle"
    /\ disp' = [disp EXCEPT ![d] = Pass("max", @.stream, mark[@.stream], 0)]
    /\ UNCHANGED <<row, nextId, writing, mark, sub, delivery, owed>>

(* After the event pass comes the upgrade pass; after that, the next tick. *)
AfterPass(k) == Between(IF k = "event" THEN "upgrade" ELSE "event")

(* The largest id is read outside it too; the window is Batch ids of it. *)
AddsToMax(last, max) == max + Batch   \* mutant: the bound is added, not taken
WindowEnd(last, max) == IF last + Batch <= max THEN last + Batch ELSE max
ReadMaxId(d) ==
    /\ disp[d].pc = "max"
    /\ \E m \in 0..MaxId :
        /\ IsMaxId(disp[d].stream, m)
        /\ disp' = [disp EXCEPT ![d] =
                IF m <= @.last THEN AfterPass(@.stream)
                ELSE Pass("commit", @.stream, @.last, WindowEnd(@.last, m))]
    /\ UNCHANGED <<row, nextId, writing, mark, sub, delivery, owed>>

(* Mutant of Selected: the last row of the window is left out. *)
SelectedBelow(s, i, k, last, upper) ==
    /\ sub[s].state = "active"
    /\ Kind[s] = k
    /\ row[k][i] = "committed"
    /\ i \in Matches[s] \ Baseline[k]
    /\ i > last /\ i < upper
    /\ k = "event" => i > sub[s].starting

(* The rows of the window every active subscription is given.  Only the    *)
(* event pass looks at starting_seq.                                       *)
Selected(s, i, k, last, upper) ==
    /\ sub[s].state = "active"
    /\ Kind[s] = k
    /\ row[k][i] = "committed"
    /\ i \in Matches[s] \ Baseline[k]
    /\ i > last /\ i <= upper
    /\ k = "event" => i > sub[s].starting

(* Mutants of NewMark: the wrong column, and a watermark that waits for    *)
(* the id at the end of the window.                                        *)
MarksEvents(k, upper) == [mark EXCEPT !["event"] = upper]
StopsAtGap(k, upper) ==
    [mark EXCEPT ![k] = IF row[k][upper] = "committed" THEN upper ELSE @]

(* UPDATE webhook_state, unconditionally. *)
NewMark(k, upper) == [mark EXCEPT ![k] = upper]

(* One transaction: INSERT ... ON CONFLICT DO NOTHING, then the watermark, *)
(* set whatever its value is by now.                                       *)
CommitBatch(d) ==
    /\ disp[d].pc = "commit"
    /\ LET k == disp[d].stream IN
        /\ delivery' = delivery \cup
            {x \in [sub : Subs, id : Ids] :
                Selected(x.sub, x.id, k, disp[d].last, disp[d].upper)}
        /\ mark' = NewMark(k, disp[d].upper)
        /\ disp' = [disp EXCEPT ![d] = AfterPass(k)]
    /\ UNCHANGED <<row, nextId, writing, sub, owed>>

(* A database error or a crash: nothing of the pass is kept, the passes    *)
(* after it are not run, and the next tick begins with the events.         *)
PassFails(d) ==
    /\ disp[d] # Between("event")
    /\ disp' = [disp EXCEPT ![d] = Between("event")]
    /\ UNCHANGED <<row, nextId, writing, mark, sub, delivery, owed>>

-----------------------------------------------------------------------------
WriterStep(w) == CommitRow(w) \/ AbortRow(w) \/ \E k \in Streams : InsertRow(w, k)

SubStep(s) ==
    \/ ReadStartingSeq(s) \/ CreateWebhook(s)
    \/ Deactivate(s) \/ Reactivate(s) \/ DeleteWebhook(s)

PassStep(d) == ReadWatermark(d) \/ ReadMaxId(d) \/ CommitBatch(d)

EnqueueNext ==
    \/ \E w \in Writers : WriterStep(w)
    \/ \E s \in Subs : SubStep(s)
    \/ \E d \in Dispatchers : PassStep(d) \/ PassFails(d)

EnqueueSpec == EnqueueInit /\ [][EnqueueNext]_enqueueVars

(* A pass cut short, as opposed to one that ends in the same state. *)
PassCutShort(d) == PassFails(d) /\ ~PassStep(d)

(* The service loop runs a pass over both streams every tick, for ever;    *)
(* database outages end.                                                   *)
EnqueueFairness ==
    \A d \in Dispatchers :
        /\ WF_enqueueVars(PassStep(d))
        /\ <>[][~PassCutShort(d)]_enqueueVars

EnqueueFairSpec == EnqueueSpec /\ EnqueueFairness

-----------------------------------------------------------------------------
EnqueueTypeOK ==
    /\ row \in [Streams -> [Ids -> {"free", "open", "committed", "aborted"}]]
    /\ nextId \in [Streams -> 1..(MaxId + 1)]
    /\ writing \in [Writers -> [stream : Streams, id : Ids] \cup {NoRow}]
    /\ mark \in [Streams -> 0..MaxId]
    /\ disp \in [Dispatchers ->
            [pc : {"idle", "max", "commit"}, stream : Streams,
             last : 0..MaxId, upper : 0..MaxId]]
    /\ sub \in [Subs -> [state : {"none", "creating", "active", "inactive", "deleted"},
                         starting : 0..MaxId]]
    /\ delivery \subseteq [sub : Subs, id : Ids]
    /\ owed \in [Subs -> SUBSET Ids]

(* No row is skipped: a row the watermark has passed, committed while a    *)
(* matching subscription was active, has its delivery as long as the       *)
(* subscription stays active, whatever the replicas' stale reads, failed   *)
(* passes and concurrent subscription changes.                             *)
NothingSkipped ==
    \A s \in Subs : \A i \in owed[s] :
        i <= mark[Kind[s]] => [sub |-> s, id |-> i] \in delivery

(* "Each watermark only ever moves forward" (ARCHITECTURE.md). *)
WatermarkOnlyForward == [][\A k \in Streams : mark'[k] >= mark[k]]_mark

(* Every row owed to a subscription gets a delivery, unless the            *)
(* subscription is switched off: ids burnt by an aborted insert and        *)
(* version-1 rows never wedge a stream.                                    *)
EventuallyEnqueued ==
    \A s \in Subs : \A i \in Ids :
        (i \in owed[s]) ~> ([sub |-> s, id |-> i] \in delivery \/ i \notin owed[s])
=============================================================================
