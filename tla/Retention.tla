----------------------------- MODULE Retention ------------------------------
(***************************************************************************)
(* Retention (indexer/retention.rs): after a poll cycle the indexer deletes *)
(* history older than the window, table by table and batch by batch, while *)
(* the webhook service inserts, settles, redrives and prunes deliveries    *)
(* that refer to the same rows. One event and one interface version may    *)
(* appear in every ledger; rows[k] is the time series of one key of        *)
(* contract_state or contract_data.                                        *)
(***************************************************************************)
EXTENDS Naturals, FiniteSetsExt

CONSTANTS
    Keys,                   \* keys of contract_state and contract_data
    retention_ledgers,      \* the window; 0 keeps everything
    spec_version_retention, \* interface versions to keep; 0: no minimum
    BATCH, MAX_BATCHES,     \* rows per DELETE, DELETEs per table and pass
    MaxPolled, MaxEnqueued, MaxRedrives \* bounds: ledgers, deliveries, redrives

ASSUME RetentionAssumption ==
    /\ {retention_ledgers, spec_version_retention, MaxPolled,
        MaxEnqueued, MaxRedrives} \subseteq Nat
    /\ {BATCH, MAX_BATCHES} \subseteq Nat \ {0}

VARIABLES
    polled,       \* ledger the poll cycle reached
    events,       \* ledgers whose event is stored
    rows,         \* rows[k]: ledgers with a stored row of the key
    specVersions, \* stored interface versions, numbered by their ledger
    upTo,         \* upTo[t]: the last row of t the dispatcher has enqueued
    outbox,       \* outbox[t][l]: its delivery, "none", "pending" or "settled"
    stage,        \* the next statement of the pass
    batches,      \* DELETEs done on this table
    chosen,       \* rows the DELETE's subquery has selected
    cutoff,       \* of this pass
    pruning,      \* deliveries the webhook pruner's subquery has selected
    enqueued, redrives,
    raced         \* history: deliveries that became pending while selected

held == <<events, rows, specVersions>>
queue == <<upTo, outbox>>
pass == <<stage, batches, chosen, cutoff>>
counts == <<enqueued, redrives>>
retentionVars == <<polled, held, queue, pass, pruning, counts, raced>>

Heights == 1 .. MaxPolled
Sources == {"events", "versions"}

RetentionInit ==
    /\ polled = 0 /\ events = {} /\ specVersions = {}
    /\ rows = [k \in Keys |-> {}]
    /\ upTo = [t \in Sources |-> 0]
    /\ outbox = [t \in Sources |-> [l \in Heights |-> "none"]]
    /\ stage = "idle" /\ batches = 0 /\ chosen = {} /\ cutoff = 0
    /\ pruning = {} /\ enqueued = 0 /\ redrives = 0 /\ raced = {}

(* A poll cycle stores an event and, when the contract changed, a row of   *)
(* some keys and a version; an upgrade rewrites the instance entry.        *)
StoreLedger(changed, upgraded) ==
    /\ stage = "idle" /\ polled < MaxPolled
    /\ upgraded => changed = Keys
    /\ polled' = polled + 1
    /\ events' = events \cup {polled + 1}
    /\ rows' = [k \in Keys |-> IF k \in changed THEN rows[k] \cup {polled + 1}
                                                ELSE rows[k]]
    /\ specVersions' = specVersions \cup (IF upgraded THEN {polled + 1} ELSE {})
    /\ UNCHANGED <<queue, pass, pruning, counts, raced>>

-----------------------------------------------------------------------------
(* A delivery becomes pending, perhaps too late for a DELETE under way: of *)
(* its version, or of the delivery itself.                                 *)
NoteRace(t, l) ==
    raced' = IF \/ t = "versions" /\ l \in chosen /\ stage # "events"
                \/ <<t, l>> \in pruning
             THEN raced \cup {<<t, l>>} ELSE raced

(* The webhook service: rows are enqueued in order, and those that match   *)
(* no subscription passed over; the delivery is settled, and redriven.     *)
Stored(t) == IF t = "events" THEN events ELSE specVersions

Dispatch(t, l) ==
    /\ l \in Stored(t) /\ l > upTo[t]
    /\ enqueued < MaxEnqueued /\ enqueued' = enqueued + 1
    /\ upTo' = [upTo EXCEPT ![t] = l]
    /\ outbox' = [outbox EXCEPT ![t][l] = "pending"]
    /\ NoteRace(t, l)
    /\ UNCHANGED <<polled, held, pass, pruning, redrives>>

SetDelivery(t, l, from, to) ==
    /\ outbox[t][l] = from
    /\ outbox' = [outbox EXCEPT ![t][l] = to]
    /\ UNCHANGED <<polled, held, upTo, pass, pruning>>

Settle(t, l) ==
    SetDelivery(t, l, "pending", "settled") /\ UNCHANGED <<counts, raced>>

Redrive(t, l) ==
    /\ redrives < MaxRedrives /\ redrives' = redrives + 1
    /\ UNCHANGED enqueued
    /\ SetDelivery(t, l, "settled", "pending")
    /\ NoteRace(t, l)

(* prune_webhook_deliveries, under its advisory lock: one DELETE ... WHERE *)
(* id IN (SELECT ...).  The subquery selects settled rows; at READ         *)
(* COMMITTED the DELETE then takes a selected row whatever its status has  *)
(* become.                                                                 *)
PruneSelect ==
    /\ pruning = {}
    /\ pruning' \in SUBSET {d \in Sources \X Heights : outbox[d[1]][d[2]] = "settled"}
    /\ pruning' # {}
    /\ UNCHANGED <<polled, held, queue, pass, counts, raced>>

PruneDelete ==
    /\ pruning # {}
    /\ outbox' = [t \in Sources |->
                       [l \in Heights |-> IF <<t, l>> \in pruning THEN "none"
                                          ELSE outbox[t][l]]]
    /\ pruning' = {} /\ raced' = raced \ pruning
    /\ UNCHANGED <<polled, held, upTo, pass, counts>>

-----------------------------------------------------------------------------
(* poller::run calls prune after a cycle, at most every PRUNE_INTERVAL; a  *)
(* window that is off or longer than the chain's history deletes nothing.  *)
BeginPass ==
    /\ stage = "idle" /\ retention_ledgers > 0 /\ polled > retention_ledgers
    /\ cutoff' = polled - retention_ledgers
    /\ stage' = "events" /\ batches' = 0 /\ chosen' = {}
    /\ UNCHANGED <<polled, held, queue, pruning, counts, raced>>

(* The rows each DELETE may select.                                        *)
AllRows(t, S) == S
NoPending(t, S) == {l \in S : outbox[t][l] # "pending"}

BelowCutoff(S) == {l \in S : l < cutoff}
Superseded(S) == {l \in S : l < cutoff /\ l < Max(S)}

(* LIMIT n OFFSET 1 in descending order: the newest and n more are kept.   *)
KeptVersions(n) ==
    {v \in specVersions : Cardinality({w \in specVersions : w > v}) <= n}

BeyondMinimum == {v \in specVersions \ KeptVersions(spec_version_retention) :
                     v < cutoff}

Deletable ==
    CASE stage = "events"   -> NoPending("events", {l \in events : l < cutoff})
      [] stage = "versions" -> NoPending("versions", Superseded(specVersions))
      [] stage = "minimum"  -> NoPending("versions", BeyondMinimum)
      [] OTHER              -> {}

(* The subquery of one DELETE: ORDER BY ledger LIMIT BATCH for events, any *)
(* BATCH rows otherwise.                                                   *)
Oldest(S) == {l \in S : Cardinality({m \in S : m < l}) < BATCH}

Selections(S) ==
    IF stage = "events" THEN {Oldest(S)}
    ELSE {T \in SUBSET S : Cardinality(T) = IF Cardinality(S) < BATCH
                                            THEN Cardinality(S) ELSE BATCH}

Select ==
    /\ stage \in {"events", "versions", "minimum"} /\ chosen = {}
    /\ Deletable # {}
    /\ chosen' \in Selections(Deletable)
    /\ UNCHANGED <<polled, held, queue, stage, batches, cutoff, pruning, counts,
                   raced>>

(* The end of the pass on one table: spec_version_retention switches the   *)
(* last one on.                                                            *)
RowsOnly == IF stage = "events" THEN "rows" ELSE "idle"
AfterStage ==
    CASE stage = "events"   -> "rows"
      [] stage = "rows"     -> "versions"
      [] stage = "versions" -> IF spec_version_retention > 0 THEN "minimum" ELSE "idle"
      [] OTHER              -> "idle"

StartStage(to) ==
    /\ stage' = to /\ batches' = 0 /\ chosen' = {} /\ raced' = raced \cap pruning
    /\ cutoff' = IF to = "idle" THEN 0 ELSE cutoff

Advance == StartStage(AfterStage)

(* prune_batched ends on a short batch or at the ceiling.                  *)
EndsStage(n) == n < BATCH \/ batches + 1 = MAX_BATCHES

Continue(n) ==
    IF EndsStage(n) THEN Advance
    ELSE /\ batches' = batches + 1 /\ chosen' = {} /\ raced' = raced \cap pruning
         /\ UNCHANGED <<stage, cutoff>>

NothingToDelete ==
    /\ stage \in {"events", "versions", "minimum"} /\ chosen = {} /\ Deletable = {}
    /\ Advance
    /\ UNCHANGED <<polled, held, queue, pruning, counts>>

(* ON DELETE RESTRICT: one event with a delivery refuses the statement,    *)
(* prune returns the error and only prune_spec_versions still runs.        *)
Restricted == \E l \in chosen : outbox["events"][l] # "none"

AfterError == IF spec_version_retention > 0 THEN "minimum" ELSE "idle"

DeleteEvents ==
    /\ stage = "events" /\ chosen # {}
    /\ IF Restricted
       THEN StartStage(AfterError) /\ UNCHANGED events
       ELSE /\ events' = events \ chosen
            /\ Continue(Cardinality(chosen))
    /\ UNCHANGED <<polled, rows, specVersions, queue, pruning, counts>>

(* The versioned tables: each loses rows older than the window that a      *)
(* newer row of the same key supersedes.                                   *)
DeleteRows ==
    /\ stage = "rows"
    /\ LET old == UNION {{k} \X Superseded(rows[k]) : k \in Keys}
       IN  \E S \in SUBSET old :
              /\ S = old \/ Cardinality(S) = BATCH * MAX_BATCHES
              /\ rows' = [k \in Keys |-> {l \in rows[k] : <<k, l>> \notin S}]
    /\ Advance
    /\ UNCHANGED <<polled, events, specVersions, queue, pruning, counts>>

(* ON DELETE CASCADE: the deliveries of a deleted version go with it.      *)
DeleteVersions ==
    /\ stage \in {"versions", "minimum"} /\ chosen # {}
    /\ specVersions' = specVersions \ chosen
    /\ outbox' = [outbox EXCEPT !["versions"] =
                       [l \in Heights |-> IF l \in chosen THEN "none" ELSE @[l]]]
    /\ Continue(Cardinality(chosen))
    /\ UNCHANGED <<polled, events, rows, upTo, pruning, counts>>

PruneStep == Select \/ NothingToDelete \/ DeleteEvents \/ DeleteRows
                   \/ DeleteVersions

RetentionNext ==
    \/ \E changed \in SUBSET Keys, upgraded \in BOOLEAN :
          StoreLedger(changed, upgraded)
    \/ \E t \in Sources, l \in Heights :
          Dispatch(t, l) \/ Settle(t, l) \/ Redrive(t, l)
    \/ PruneSelect \/ PruneDelete
    \/ BeginPass \/ PruneStep

RetentionSpec == RetentionInit /\ [][RetentionNext]_retentionVars

(* The poller keeps cycling and the webhook service's pruner keeps running. *)
RetentionFairness ==
    /\ WF_retentionVars(BeginPass) /\ WF_retentionVars(PruneStep)
    /\ WF_retentionVars(PruneSelect) /\ WF_retentionVars(PruneDelete)

RetentionFairSpec == RetentionSpec /\ RetentionFairness

-----------------------------------------------------------------------------
RetentionTypeOK ==
    /\ polled \in 0 .. MaxPolled /\ cutoff \in 0 .. MaxPolled
    /\ events \subseteq Heights /\ specVersions \subseteq Heights
    /\ rows \in [Keys -> SUBSET Heights]
    /\ upTo \in [Sources -> 0 .. MaxPolled]
    /\ outbox \in [Sources -> [Heights -> {"none", "pending", "settled"}]]
    /\ stage \in {"idle", "events", "rows", "versions", "minimum"}
    /\ batches \in 0 .. MAX_BATCHES - 1
    /\ chosen \subseteq Heights
    /\ enqueued \in 0 .. MaxEnqueued /\ redrives \in 0 .. MaxRedrives
    /\ pruning \subseteq Sources \X Heights
    /\ raced \subseteq Sources \X Heights

(* No DELETE takes a delivery that is still owed, or the row it would      *)
(* send, however far outside the window and although deliveries are        *)
(* enqueued and redriven between a DELETE's subquery and the DELETE.  Only *)
(* a delivery that became pending in that gap is lost: with its version,   *)
(* whose foreign key cascades, or to the webhook pruner.                   *)
PendingKept ==
    [][\A l \in Heights :
          /\ outbox["events"][l] = "pending" => l \in events'
          /\ \A t \in Sources : outbox[t][l] = "pending" /\ <<t, l>> \notin raced
                 => outbox'[t][l] # "none" /\ l \in Stored(t)']_retentionVars

(* prune.rs:31, "`pending` rows are never touched": while the event or     *)
(* version is stored, its pending delivery is not removed.                 *)
PendingUntouched ==
    [][\A t \in Sources, l \in Heights :
          outbox[t][l] = "pending" /\ l \in Stored(t)'
              => outbox'[t][l] # "none"]_retentionVars

(* The newest row of a key and the newest version are current state, not   *)
(* history: no pass removes them, however old they are.                    *)
CurrentKept ==
    [][/\ \A k \in Keys : rows[k] # {} => Max(rows[k]) \in rows'[k]
       /\ specVersions # {} => Max(specVersions) \in specVersions']_retentionVars

(* Pruning ends: when the tip stays, everything older than the window goes *)
(* except current rows and rows with a pending delivery, although passes   *)
(* are bounded and RESTRICT refuses a whole batch for one settled delivery *)
(* until the webhook service has pruned it.                                *)
WindowHolds ==
    LET old(l) == l + retention_ledgers < polled
    IN  <>[](/\ \A l \in events : old(l) => outbox["events"][l] = "pending"
             /\ \A k \in Keys : \A l \in rows[k] : old(l) => l = Max(rows[k])
             /\ \A l \in specVersions : old(l) =>
                   l = Max(specVersions) \/ outbox["versions"][l] = "pending")
=============================================================================
