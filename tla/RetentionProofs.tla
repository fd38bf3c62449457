-------------------------- MODULE RetentionProofs ---------------------------
(***************************************************************************)
(* What TLAPS proves of Retention, for any window, batch size, number of   *)
(* keys and interleaving with the webhook service.                         *)
(***************************************************************************)
EXTENDS Retention, FiniteSetTheorems, TLAPS

-----------------------------------------------------------------------------
(* The newest of a set of ledgers *)

(* Every set of ledgers is finite. *)
LEMMA LedgerSets ==
    ASSUME NEW S \in SUBSET Heights
    PROVE  IsFiniteSet(S)
<1>1. IsFiniteSet(1..MaxPolled)
  BY RetentionAssumption, FS_Interval
<1> QED BY <1>1, FS_Subset DEF Heights

(* Max is the newest ledger of a set that is not empty: the least of the   *)
(* sets of ledgers from one of them on, by inclusion, starts at it.        *)
LEMMA MaxIsNewest ==
    ASSUME NEW S \in SUBSET Heights, S # {}
    PROVE  Max(S) \in S /\ \A l \in S : l <= Max(S)
<1> DEFINE From(x) == {y \in S : x <= y}
           T == {From(x) : x \in S}
<1>0. \A x \in S : x \in Int
  BY RetentionAssumption DEF Heights
<1>1. T \subseteq FiniteSubsetsOf(Heights) /\ T # {}
  BY LedgerSets DEF FiniteSubsetsOf
<1>2. IsWellFoundedOn(StrictSubsetOrdering(Heights), FiniteSubsetsOf(Heights))
  BY FS_StrictSubsetOrderingWellFounded
<1>3. PICK U \in T : \A V \in T : <<V, U>> \notin StrictSubsetOrdering(Heights)
  <2> HIDE DEF T
  <2> QED BY <1>1, <1>2, WFMin
<1>4. PICK x \in S : U = From(x)
  OBVIOUS
<1>5. \A y \in S : y <= x
  <2> SUFFICES ASSUME NEW y \in S, ~(y <= x) PROVE FALSE
    OBVIOUS
  <2>1. From(y) \subseteq From(x) /\ x \in From(x) /\ x \notin From(y)
    BY <1>0
  <2>2. From(y) \subseteq Heights /\ From(x) \subseteq Heights
    OBVIOUS
  <2>3. <<From(y), From(x)>> \in StrictSubsetOrdering(Heights)
    <3> HIDE DEF From
    <3> QED BY <2>1, <2>2 DEF StrictSubsetOrdering
  <2>4. From(y) \in T
    OBVIOUS
  <2> QED BY <1>3, <1>4, <2>3, <2>4
<1>6. \E z \in S : \A y \in S : z >= y
  BY <1>0, <1>5
<1>7. Max(S) \in S /\ \A y \in S : Max(S) >= y
  BY <1>6 DEF Max
<1> QED BY <1>0, <1>7

-----------------------------------------------------------------------------
(* Type correctness *)

Outcomes == {"none", "pending", "settled"}

(* What one UPDATE of a delivery leaves. *)
LEMMA DeliverySet ==
    ASSUME RetentionTypeOK, NEW t \in Sources, NEW l \in Heights, NEW x \in Outcomes,
           outbox' = [outbox EXCEPT ![t][l] = x]
    PROVE  /\ outbox' \in [Sources -> [Heights -> Outcomes]]
           /\ \A u \in Sources, m \in Heights :
                outbox'[u][m] = IF u = t /\ m = l THEN x ELSE outbox[u][m]
BY DEF RetentionTypeOK, Outcomes

(* The rows a DELETE has selected were deletable. *)
LEMMA SelectedAreDeletable ==
    ASSUME Select
    PROVE  chosen' \subseteq Deletable
BY DEF Select, Selections, Oldest

LEMMA DeletableRows ==
    ASSUME RetentionTypeOK
    PROVE  Deletable \subseteq Heights
<1>1. KeptVersions(spec_version_retention) \subseteq specVersions
  BY DEF KeptVersions
<1> QED BY DEF RetentionTypeOK, Deletable, NoPending, Superseded, BeyondMinimum

(* The end of a stage or of a batch. *)
LEMMA StageTypes ==
    ASSUME RetentionTypeOK, NEW n, Continue(n) \/ Advance \/ StartStage(AfterError)
    PROVE  /\ stage' \in {"idle", "events", "rows", "versions", "minimum"}
           /\ batches' \in 0 .. MAX_BATCHES - 1 /\ cutoff' \in 0 .. MaxPolled
           /\ chosen' = {} /\ raced' = raced \cap pruning
<1> USE RetentionAssumption
<1>1. \A to : StartStage(to) =>
        /\ stage' = to /\ batches' \in 0 .. MAX_BATCHES - 1 /\ cutoff' \in 0 .. MaxPolled
        /\ chosen' = {} /\ raced' = raced \cap pruning
  BY DEF StartStage, RetentionTypeOK
<1>2. /\ AfterStage \in {"idle", "events", "rows", "versions", "minimum"}
      /\ AfterError \in {"idle", "events", "rows", "versions", "minimum"}
  BY DEF AfterStage, AfterError
<1>3. CASE Advance \/ StartStage(AfterError)
  BY <1>1, <1>2, <1>3 DEF Advance
<1>4. CASE Continue(n) /\ ~EndsStage(n)
  <2>1. batches \in 0 .. MAX_BATCHES - 1 /\ batches + 1 # MAX_BATCHES
    BY <1>4 DEF RetentionTypeOK, EndsStage
  <2>2. batches' \in 0 .. MAX_BATCHES - 1
    BY <1>4, <2>1 DEF Continue
  <2> QED BY <1>4, <2>2 DEF Continue, RetentionTypeOK
<1> QED BY <1>3, <1>4 DEF Continue

LEMMA TypeWebhook ==
    ASSUME RetentionTypeOK, NEW t \in Sources, NEW l \in Heights,
           Dispatch(t, l) \/ Settle(t, l) \/ Redrive(t, l)
    PROVE  RetentionTypeOK'
<1> USE RetentionAssumption
<1>1. PICK x \in Outcomes : outbox' = [outbox EXCEPT ![t][l] = x]
  BY DEF Dispatch, Settle, Redrive, SetDelivery, Outcomes
<1>2. outbox' \in [Sources -> [Heights -> Outcomes]]
  BY <1>1, DeliverySet
<1>3. raced' \subseteq Sources \X Heights
  BY DEF Dispatch, Settle, Redrive, NoteRace, RetentionTypeOK
<1>4. UNCHANGED <<polled, held, pass, pruning>>
  BY DEF Dispatch, Settle, Redrive, SetDelivery
<1>5. /\ upTo' \in [Sources -> 0 .. MaxPolled]
      /\ enqueued' \in 0 .. MaxEnqueued /\ redrives' \in 0 .. MaxRedrives
  <2>1. CASE Dispatch(t, l)
    <3>1. l \in 0 .. MaxPolled
      BY DEF Heights
    <3> QED BY <2>1, <3>1 DEF Dispatch, RetentionTypeOK
  <2>2. CASE Redrive(t, l)
    BY <2>2 DEF Redrive, SetDelivery, RetentionTypeOK
  <2>3. CASE Settle(t, l)
    BY <2>3 DEF Settle, SetDelivery, counts, RetentionTypeOK
  <2> QED BY <2>1, <2>2, <2>3
<1> QED BY <1>2, <1>3, <1>4, <1>5 DEF RetentionTypeOK, held, pass, Outcomes

LEMMA TypePrune ==
    ASSUME RetentionTypeOK, PruneSelect \/ PruneDelete
    PROVE  RetentionTypeOK'
<1>1. CASE PruneSelect
  BY <1>1 DEF PruneSelect, RetentionTypeOK, held, queue, pass, counts
<1>2. CASE PruneDelete
  <2>1. outbox' \in [Sources -> [Heights -> Outcomes]]
    BY <1>2 DEF PruneDelete, RetentionTypeOK, Outcomes
  <2>2. /\ pruning' = {} /\ raced' \subseteq Sources \X Heights
        /\ UNCHANGED <<polled, held, upTo, pass, counts>>
    BY <1>2 DEF PruneDelete, RetentionTypeOK
  <2> QED BY <2>1, <2>2 DEF RetentionTypeOK, held, pass, counts, Outcomes
<1> QED BY <1>1, <1>2

LEMMA TypePass ==
    ASSUME RetentionTypeOK, BeginPass \/ PruneStep
    PROVE  RetentionTypeOK'
<1> USE RetentionAssumption
<1>1. CASE BeginPass
  <2>1. cutoff' \in 0 .. MaxPolled /\ 0 \in 0 .. MAX_BATCHES - 1
    BY <1>1 DEF BeginPass, RetentionTypeOK
  <2> QED BY <1>1, <2>1 DEF BeginPass, RetentionTypeOK, held, queue, counts
<1>2. CASE Select
  BY <1>2, SelectedAreDeletable, DeletableRows DEF Select, RetentionTypeOK, held, queue, counts
<1>3. CASE NothingToDelete
  BY <1>3, StageTypes DEF NothingToDelete, RetentionTypeOK, held, queue, counts
<1>4. CASE DeleteEvents
  <2>1. events' \subseteq Heights /\ UNCHANGED <<polled, rows, specVersions, queue, pruning, counts>>
    BY <1>4 DEF DeleteEvents, RetentionTypeOK
  <2>2. \E n : Continue(n) \/ StartStage(AfterError)
    BY <1>4 DEF DeleteEvents
  <2> QED BY <2>1, <2>2, StageTypes DEF RetentionTypeOK, queue, counts
<1>5. CASE DeleteRows
  <2>1. rows' \in [Keys -> SUBSET Heights]
    BY <1>5 DEF DeleteRows, RetentionTypeOK
  <2>2. Advance /\ UNCHANGED <<polled, events, specVersions, queue, pruning, counts>>
    BY <1>5 DEF DeleteRows
  <2> QED BY <2>1, <2>2, StageTypes DEF RetentionTypeOK, queue, counts
<1>6. CASE DeleteVersions
  <2>1. outbox' \in [Sources -> [Heights -> Outcomes]]
    BY <1>6 DEF DeleteVersions, RetentionTypeOK, Outcomes, Sources
  <2>2. /\ Continue(Cardinality(chosen))
        /\ UNCHANGED <<polled, events, rows, upTo, pruning, counts>>
    BY <1>6 DEF DeleteVersions
  <2>3. specVersions' \subseteq Heights
    BY <1>6 DEF DeleteVersions, RetentionTypeOK
  <2> QED BY <2>1, <2>2, <2>3, StageTypes DEF RetentionTypeOK, Outcomes, counts
<1> QED BY <1>1, <1>2, <1>3, <1>4, <1>5, <1>6 DEF PruneStep

LEMMA TypeStep ==
    ASSUME RetentionTypeOK, [RetentionNext]_retentionVars
    PROVE  RetentionTypeOK'
<1> USE RetentionAssumption
<1>1. ASSUME NEW changed \in SUBSET Keys, NEW upgraded \in BOOLEAN, StoreLedger(changed, upgraded)
      PROVE  RetentionTypeOK'
  <2>1. polled + 1 \in Heights /\ polled' = polled + 1 /\ polled' \in 0 .. MaxPolled
    BY <1>1 DEF StoreLedger, RetentionTypeOK, Heights
  <2>2. rows' \in [Keys -> SUBSET Heights]
    BY <1>1, <2>1 DEF StoreLedger, RetentionTypeOK
  <2>3. events' \subseteq Heights /\ specVersions' \subseteq Heights
    BY <1>1, <2>1 DEF StoreLedger, RetentionTypeOK
  <2>4. UNCHANGED <<queue, pass, pruning, counts, raced>>
    BY <1>1 DEF StoreLedger
  <2> QED BY <2>1, <2>2, <2>3, <2>4 DEF RetentionTypeOK, queue, pass, counts
<1>2. CASE UNCHANGED retentionVars
  BY <1>2 DEF retentionVars, held, queue, pass, counts, RetentionTypeOK
<1> QED BY <1>1, <1>2, TypeWebhook, TypePrune, TypePass DEF RetentionNext

LEMMA TypeInit == RetentionInit => RetentionTypeOK
BY RetentionAssumption DEF RetentionInit, RetentionTypeOK, Heights, Sources

(* The variables of retention keep their types: a pass stays within the    *)
(* ceiling of batches, and its cutoff is a ledger (prune_batched, prune).  *)
THEOREM RetentionTypeCorrect == RetentionSpec => []RetentionTypeOK
BY TypeInit, TypeStep, PTL DEF RetentionSpec

-----------------------------------------------------------------------------
(* What retention may never take *)

(***************************************************************************)
(* Between a DELETE's subquery and the DELETE the webhook service runs on. *)
(* OwedInv: a delivery refers to a stored row.  ChosenInv: a version that  *)
(* was selected is not the newest one, because no cycle stores versions    *)
(* while a pass runs; and a selected version owes a delivery only when the *)
(* delivery became pending after the selection.  PruningInv: so does a     *)
(* delivery the webhook pruner has selected.                               *)
(***************************************************************************)
OwedInv ==
    \A l \in Heights :
        /\ outbox["events"][l] # "none" => l \in events
        /\ outbox["versions"][l] # "none" => l \in specVersions

ChosenInv ==
    stage \in {"versions", "minimum"} =>
        \A l \in chosen :
            /\ \E w \in specVersions : w > l
            /\ outbox["versions"][l] = "pending" => <<"versions", l>> \in raced

PruningInv ==
    \A d \in pruning : outbox[d[1]][d[2]] = "pending" => d \in raced

KeptInv == RetentionTypeOK /\ OwedInv /\ ChosenInv /\ PruningInv

(* What a step of retention may not do, as in PendingKept and CurrentKept. *)
PendingStep ==
    \A l \in Heights :
        /\ outbox["events"][l] = "pending" => l \in events'
        /\ \A t \in Sources : outbox[t][l] = "pending" /\ <<t, l>> \notin raced
               => outbox'[t][l] # "none" /\ l \in Stored(t)'

CurrentStep ==
    /\ \A k \in Keys : rows[k] # {} => Max(rows[k]) \in rows'[k]
    /\ specVersions # {} => Max(specVersions) \in specVersions'

Good == KeptInv' /\ PendingStep /\ CurrentStep

(* A step that deletes nothing keeps what is current. *)
LEMMA GrowingKeepsCurrent ==
    ASSUME RetentionTypeOK, \A k \in Keys : rows[k] \subseteq rows'[k],
           specVersions \subseteq specVersions'
    PROVE  CurrentStep
<1>1. \A k \in Keys : rows[k] # {} => Max(rows[k]) \in rows[k]
  BY MaxIsNewest DEF RetentionTypeOK
<1>2. specVersions # {} => Max(specVersions) \in specVersions
  BY MaxIsNewest DEF RetentionTypeOK
<1> QED BY <1>1, <1>2 DEF CurrentStep

(* The rows a DELETE may select of the versions are superseded. *)
LEMMA DeletableVersions ==
    ASSUME RetentionTypeOK, stage \in {"versions", "minimum"}, NEW v \in Deletable
    PROVE  /\ v \in specVersions /\ \E w \in specVersions : w > v
           /\ outbox["versions"][v] # "pending"
<1> USE RetentionAssumption
<1>1. CASE stage = "versions"
  <2>1. v \in NoPending("versions", Superseded(specVersions))
    BY <1>1 DEF Deletable
  <2>2. v \in specVersions /\ v < Max(specVersions) /\ outbox["versions"][v] # "pending"
    BY <2>1 DEF NoPending, Superseded
  <2>3. Max(specVersions) \in specVersions
    BY <2>2, MaxIsNewest DEF RetentionTypeOK
  <2> QED BY <2>2, <2>3 DEF RetentionTypeOK, Heights
<1>2. CASE stage = "minimum"
  <2>1. v \in NoPending("versions", BeyondMinimum)
    BY <1>2 DEF Deletable
  <2>2. /\ v \in specVersions /\ outbox["versions"][v] # "pending"
        /\ ~(Cardinality({w \in specVersions : w > v}) <= spec_version_retention)
    BY <2>1 DEF NoPending, BeyondMinimum, KeptVersions
  <2>3. {w \in specVersions : w > v} # {}
    <3> SUFFICES ASSUME {w \in specVersions : w > v} = {} PROVE FALSE
      OBVIOUS
    <3>1. Cardinality({w \in specVersions : w > v}) = 0
      BY FS_EmptySet
    <3> QED BY <2>2, <3>1
  <2> QED BY <2>2, <2>3
<1> QED BY <1>1, <1>2

(* A poll cycle stores rows while no pass runs. *)
LEMMA StoreKeeps ==
    ASSUME KeptInv, NEW changed \in SUBSET Keys, NEW upgraded \in BOOLEAN,
           StoreLedger(changed, upgraded), RetentionTypeOK'
    PROVE  Good
<1>1. /\ events \subseteq events' /\ specVersions \subseteq specVersions'
      /\ \A k \in Keys : rows[k] \subseteq rows'[k]
      /\ outbox' = outbox /\ stage = "idle" /\ stage' = stage
      /\ pruning' = pruning /\ raced' = raced
  BY DEF StoreLedger, queue, pass
<1>2. OwedInv' /\ ChosenInv' /\ PruningInv'
  BY <1>1 DEF KeptInv, OwedInv, ChosenInv, PruningInv
<1>3. CurrentStep
  BY <1>1, GrowingKeepsCurrent DEF KeptInv
<1>4. PendingStep
  BY <1>1 DEF KeptInv, OwedInv, PendingStep, Stored, Sources
<1> QED BY <1>2, <1>3, <1>4 DEF Good, KeptInv

(* The webhook service makes deliveries of stored rows pending, and notes  *)
(* the race when a version was already selected.                           *)
LEMMA WebhookKeeps ==
    ASSUME KeptInv, NEW t \in Sources, NEW l \in Heights, RetentionTypeOK',
           Dispatch(t, l) \/ Settle(t, l) \/ Redrive(t, l)
    PROVE  Good
<1>0. /\ "events" \in Sources /\ "versions" \in Sources
      /\ t = "events" \/ t = "versions"
  BY DEF Sources
<1>1. PICK x \in Outcomes :
        /\ outbox' = [outbox EXCEPT ![t][l] = x]
        /\ x # "none" /\ l \in Stored(t)
        /\ x = "pending" => NoteRace(t, l)
        /\ x # "pending" => raced' = raced
  <2>1. CASE Dispatch(t, l)
    BY <2>1 DEF Dispatch, Outcomes
  <2>2. CASE Settle(t, l)
    BY <1>0, <2>2 DEF Settle, SetDelivery, Outcomes, KeptInv, OwedInv, Stored
  <2>3. CASE Redrive(t, l)
    BY <1>0, <2>3 DEF Redrive, SetDelivery, Outcomes, KeptInv, OwedInv, Stored
  <2> QED BY <2>1, <2>2, <2>3
<1>2. \A u \in Sources, m \in Heights :
        outbox'[u][m] = IF u = t /\ m = l THEN x ELSE outbox[u][m]
  BY <1>1, DeliverySet DEF KeptInv
<1>3. UNCHANGED <<events, rows, specVersions, stage, chosen, pruning>>
  BY DEF Dispatch, Settle, Redrive, SetDelivery, held, pass
<1>4. /\ raced \subseteq raced'
      /\ x = "pending" /\ t = "versions" /\ l \in chosen /\ stage # "events"
            => <<t, l>> \in raced'
      /\ x = "pending" /\ <<t, l>> \in pruning => <<t, l>> \in raced'
  BY <1>1 DEF NoteRace
<1>5. OwedInv'
  BY <1>0, <1>1, <1>2, <1>3 DEF KeptInv, OwedInv, Stored
<1>6. ChosenInv'
  <2> SUFFICES ASSUME stage' \in {"versions", "minimum"}, NEW m \in chosen'
               PROVE  /\ \E w \in specVersions' : w > m
                      /\ outbox'["versions"][m] = "pending"
                            => <<"versions", m>> \in raced'
    BY DEF ChosenInv
  <2>1. m \in chosen /\ m \in Heights /\ stage \in {"versions", "minimum"}
    BY <1>3 DEF KeptInv, RetentionTypeOK
  <2>2. /\ \E w \in specVersions : w > m
        /\ outbox["versions"][m] = "pending" => <<"versions", m>> \in raced
    BY <2>1 DEF KeptInv, ChosenInv
  <2> QED BY <1>0, <1>2, <1>3, <1>4, <2>1, <2>2
<1>7. PendingStep
  <2>1. \A u \in Sources : Stored(u)' = Stored(u)
    BY <1>3 DEF Stored
  <2>2. \A u \in Sources, m \in Heights : outbox[u][m] = "pending"
          => outbox'[u][m] # "none" /\ m \in Stored(u)
    BY <1>0, <1>1, <1>2 DEF KeptInv, OwedInv, Stored, Sources
  <2>3. \A m \in Heights : outbox["events"][m] = "pending" => m \in events'
    BY <1>0, <1>3, <2>2 DEF Stored
  <2> QED BY <2>1, <2>2, <2>3 DEF PendingStep
<1>8. CurrentStep
  BY <1>3, GrowingKeepsCurrent DEF KeptInv
<1>9. PruningInv'
  <2> SUFFICES ASSUME NEW d \in pruning', outbox'[d[1]][d[2]] = "pending"
               PROVE  d \in raced'
    BY DEF PruningInv
  <2>1. /\ d \in pruning /\ d[1] \in Sources /\ d[2] \in Heights
        /\ d = <<d[1], d[2]>>
    BY <1>3 DEF KeptInv, RetentionTypeOK
  <2>2. CASE d[1] = t /\ d[2] = l
    BY <1>2, <1>4, <2>1, <2>2
  <2>3. CASE ~(d[1] = t /\ d[2] = l)
    <3>1. outbox[d[1]][d[2]] = "pending"
      BY <1>2, <2>1, <2>3
    <3> QED BY <1>4, <2>1, <3>1 DEF KeptInv, PruningInv
  <2> QED BY <2>2, <2>3
<1> QED BY <1>5, <1>6, <1>7, <1>8, <1>9 DEF Good, KeptInv

(* The webhook pruner deletes what it selected: settled then, and pending  *)
(* now only if the race was noted.                                         *)
LEMMA PruneKeeps ==
    ASSUME KeptInv, RetentionTypeOK', PruneSelect \/ PruneDelete
    PROVE  Good
<1>1. UNCHANGED <<events, rows, specVersions, stage, chosen>>
  BY DEF PruneSelect, PruneDelete, held, pass
<1>2. CurrentStep
  BY <1>1, GrowingKeepsCurrent DEF KeptInv
<1>3. CASE PruneSelect
  <2>1. outbox' = outbox /\ raced' = raced
    BY <1>3 DEF PruneSelect, queue
  <2>2. PruningInv'
    BY <1>3, <2>1 DEF PruneSelect, PruningInv
  <2>3. OwedInv' /\ ChosenInv' /\ PendingStep
    BY <1>1, <2>1 DEF KeptInv, OwedInv, ChosenInv, PendingStep, Stored, Sources
  <2> QED BY <1>2, <2>2, <2>3 DEF Good, KeptInv
<1>4. CASE PruneDelete
  <2>1. \A t \in Sources, l \in Heights :
          outbox'[t][l] = IF <<t, l>> \in pruning THEN "none" ELSE outbox[t][l]
    BY <1>4 DEF PruneDelete
  <2>2. raced' = raced \ pruning /\ pruning' = {}
    BY <1>4 DEF PruneDelete
  <2>3. "events" \in Sources /\ "versions" \in Sources
    BY DEF Sources
  <2>4. OwedInv' /\ PruningInv'
    BY <1>1, <2>1, <2>2, <2>3 DEF KeptInv, OwedInv, PruningInv
  <2>5. ChosenInv'
    <3> SUFFICES ASSUME stage' \in {"versions", "minimum"}, NEW m \in chosen'
                 PROVE  /\ \E w \in specVersions' : w > m
                        /\ outbox'["versions"][m] = "pending"
                              => <<"versions", m>> \in raced'
      BY DEF ChosenInv
    <3>1. m \in chosen /\ m \in Heights
      BY <1>1 DEF KeptInv, RetentionTypeOK
    <3>2. /\ \E w \in specVersions : w > m
          /\ outbox["versions"][m] = "pending" => <<"versions", m>> \in raced
      BY <1>1, <3>1 DEF KeptInv, ChosenInv
    <3> QED BY <1>1, <2>1, <2>2, <2>3, <3>1, <3>2
  <2>6. PendingStep
    <3> SUFFICES ASSUME NEW l \in Heights
                 PROVE  /\ outbox["events"][l] = "pending" => l \in events'
                        /\ \A t \in Sources :
                              outbox[t][l] = "pending" /\ <<t, l>> \notin raced
                                => outbox'[t][l] # "none" /\ l \in Stored(t)'
      BY DEF PendingStep
    <3>1. \A t \in Sources : <<t, l>> \in pruning /\ outbox[t][l] = "pending"
            => <<t, l>> \in raced
      BY DEF KeptInv, PruningInv
    <3>2. \A t \in Sources : outbox[t][l] # "none" => l \in Stored(t)'
      BY <1>1 DEF KeptInv, OwedInv, Stored, Sources
    <3>3. outbox["events"][l] = "pending" => l \in events'
      BY <1>1 DEF KeptInv, OwedInv
    <3> QED BY <2>1, <3>1, <3>2, <3>3
  <2> QED BY <1>2, <2>4, <2>5, <2>6 DEF Good, KeptInv
<1> QED BY <1>3, <1>4

(* The steps of a pass. *)
LEMMA SelectKeeps ==
    ASSUME KeptInv, RetentionTypeOK', BeginPass \/ Select \/ NothingToDelete
    PROVE  Good
<1>1. UNCHANGED <<events, rows, specVersions, outbox, pruning>>
  BY DEF BeginPass, Select, NothingToDelete, held, queue
<1>2. OwedInv' /\ PendingStep
  BY <1>1 DEF KeptInv, OwedInv, PendingStep, Stored, Sources
<1>3. CurrentStep
  BY <1>1, GrowingKeepsCurrent DEF KeptInv
<1>4. ChosenInv'
  <2>1. CASE Select
    BY <1>1, <2>1, SelectedAreDeletable, DeletableVersions DEF Select, KeptInv, ChosenInv
  <2>2. CASE BeginPass \/ NothingToDelete
    <3>1. chosen' = {}
      BY <2>2 DEF BeginPass, NothingToDelete, Advance, StartStage
    <3> QED BY <3>1 DEF ChosenInv
  <2> QED BY <2>1, <2>2
<1>5. PruningInv'
  <2>1. raced \cap pruning \subseteq raced'
    BY DEF BeginPass, Select, NothingToDelete, Advance, StartStage
  <2> QED BY <1>1, <2>1 DEF KeptInv, PruningInv
<1> QED BY <1>2, <1>3, <1>4, <1>5 DEF Good, KeptInv

LEMMA DeleteEventsKeeps ==
    ASSUME KeptInv, RetentionTypeOK', DeleteEvents
    PROVE  Good
<1>1. UNCHANGED <<rows, specVersions, outbox, pruning>>
  BY DEF DeleteEvents, queue
<1>2. events' = events \/ (~Restricted /\ events' = events \ chosen)
  BY DEF DeleteEvents
<1>3. \A l \in Heights : outbox["events"][l] # "none" => l \in events'
  BY <1>2 DEF Restricted, KeptInv, OwedInv
<1>4. chosen' = {} /\ raced' = raced \cap pruning
  <2>1. \E n : Continue(n) \/ StartStage(AfterError)
    BY DEF DeleteEvents
  <2> QED BY <2>1, StageTypes DEF KeptInv
<1>5. OwedInv' /\ ChosenInv' /\ PruningInv' /\ PendingStep
  BY <1>1, <1>3, <1>4
     DEF KeptInv, OwedInv, ChosenInv, PruningInv, PendingStep, Stored, Sources
<1>6. CurrentStep
  BY <1>1, GrowingKeepsCurrent DEF KeptInv
<1> QED BY <1>5, <1>6 DEF Good, KeptInv

LEMMA DeleteRowsKeeps ==
    ASSUME KeptInv, RetentionTypeOK', DeleteRows
    PROVE  Good
<1>1. /\ UNCHANGED <<events, specVersions, outbox, pruning>>
      /\ chosen' = {} /\ raced' = raced \cap pruning
  BY DEF DeleteRows, queue, Advance, StartStage
<1>2. OwedInv' /\ ChosenInv' /\ PruningInv' /\ PendingStep
  BY <1>1 DEF KeptInv, OwedInv, ChosenInv, PruningInv, PendingStep, Stored, Sources
<1>3. ASSUME NEW k \in Keys, rows[k] # {} PROVE Max(rows[k]) \in rows'[k]
  <2>1. rows[k] \in SUBSET Heights
    BY DEF KeptInv, RetentionTypeOK
  <2>2. Max(rows[k]) \in rows[k]
    BY <1>3, <2>1, MaxIsNewest
  <2>3. Max(rows[k]) \in Nat
    BY <2>1, <2>2 DEF Heights
  <2> DEFINE old == UNION {{j} \X Superseded(rows[j]) : j \in Keys}
  <2>4. PICK S \in SUBSET old : rows' = [j \in Keys |-> {l \in rows[j] : <<j, l>> \notin S}]
    BY DEF DeleteRows
  <2>5. <<k, Max(rows[k])>> \notin old
    <3>1. Max(rows[k]) \notin Superseded(rows[k])
      BY <2>3 DEF Superseded
    <3> QED BY <3>1
  <2> QED BY <2>2, <2>4, <2>5
<1>4. specVersions # {} => Max(specVersions) \in specVersions'
  BY <1>1, MaxIsNewest DEF KeptInv, RetentionTypeOK
<1> QED BY <1>2, <1>3, <1>4 DEF Good, KeptInv, CurrentStep

LEMMA DeleteVersionsKeeps ==
    ASSUME KeptInv, RetentionTypeOK', DeleteVersions
    PROVE  Good
<1>1. /\ UNCHANGED <<events, rows, pruning>> /\ specVersions' = specVersions \ chosen
      /\ stage \in {"versions", "minimum"}
  BY DEF DeleteVersions
<1>2. /\ \A l \in Heights : outbox'["events"][l] = outbox["events"][l]
      /\ \A l \in Heights : outbox'["versions"][l] =
            IF l \in chosen THEN "none" ELSE outbox["versions"][l]
  BY DEF DeleteVersions, KeptInv, RetentionTypeOK, Sources
<1>3. chosen' = {} /\ raced' = raced \cap pruning
  BY StageTypes DEF DeleteVersions, KeptInv
<1>4. OwedInv' /\ ChosenInv' /\ PruningInv'
  <2>1. OwedInv' /\ ChosenInv'
    BY <1>1, <1>2, <1>3 DEF KeptInv, OwedInv, ChosenInv
  <2>2. \A d \in pruning : /\ d[1] \in Sources /\ d[2] \in Heights
                           /\ d[1] = "events" \/ d[1] = "versions"
    BY DEF KeptInv, RetentionTypeOK, Sources
  <2>3. \A d \in pruning :
          outbox'[d[1]][d[2]] = "pending" => outbox[d[1]][d[2]] = "pending"
    BY <1>2, <2>2
  <2>4. PruningInv'
    BY <1>1, <1>3, <2>3 DEF KeptInv, PruningInv
  <2> QED BY <2>1, <2>4
<1>5. PendingStep
  BY <1>1, <1>2 DEF KeptInv, OwedInv, ChosenInv, PendingStep, Stored, Sources
<1>6. ASSUME specVersions # {} PROVE Max(specVersions) \in specVersions'
  <2>1. Max(specVersions) \in specVersions /\ \A l \in specVersions : l <= Max(specVersions)
    BY <1>6, MaxIsNewest DEF KeptInv, RetentionTypeOK
  <2>2. \A l \in specVersions : l \in Nat
    BY DEF KeptInv, RetentionTypeOK, Heights
  <2>3. Max(specVersions) \notin chosen
    <3> SUFFICES ASSUME Max(specVersions) \in chosen PROVE FALSE
      OBVIOUS
    <3>1. PICK w \in specVersions : w > Max(specVersions)
      BY <1>1 DEF KeptInv, ChosenInv
    <3> QED BY <2>1, <2>2, <3>1
  <2> QED BY <1>1, <2>1, <2>3
<1>7. CurrentStep
  BY <1>1, <1>6, GrowingKeepsCurrent, MaxIsNewest DEF KeptInv, RetentionTypeOK, CurrentStep
<1> QED BY <1>4, <1>5, <1>7 DEF Good, KeptInv

LEMMA KeptStep ==
    ASSUME KeptInv, [RetentionNext]_retentionVars
    PROVE  KeptInv' /\ (retentionVars' = retentionVars \/ (PendingStep /\ CurrentStep))
<1>0. RetentionTypeOK'
  BY TypeStep DEF KeptInv
<1>1. CASE UNCHANGED retentionVars
  BY <1>1 DEF retentionVars, held, queue, pass, counts, KeptInv, RetentionTypeOK,
     OwedInv, ChosenInv, PruningInv
<1>2. CASE RetentionNext
  <2>1. Good
    BY <1>0, <1>2, StoreKeeps, WebhookKeeps, PruneKeeps, SelectKeeps, DeleteEventsKeeps,
       DeleteRowsKeeps, DeleteVersionsKeeps DEF RetentionNext, PruneStep
  <2> QED BY <2>1 DEF Good
<1> QED BY <1>1, <1>2

LEMMA KeptHolds == RetentionSpec => []KeptInv
<1>1. RetentionInit => KeptInv
  BY TypeInit DEF RetentionInit, KeptInv, OwedInv, ChosenInv, PruningInv, Sources
<1>2. KeptInv /\ [RetentionNext]_retentionVars => KeptInv'
  BY KeptStep
<1> QED BY <1>1, <1>2, PTL DEF RetentionSpec

(* No DELETE removes a pending delivery or the row it would send, however  *)
(* the statements of retention, the webhook pruner and the webhook service *)
(* interleave, except a delivery that became pending between the subquery  *)
(* and its DELETE: of its version, which cascades, or of the webhook       *)
(* pruner (prune_batched, prune_spec_versions, prune_webhook_deliveries).  *)
THEOREM PendingKeptHolds == RetentionSpec => PendingKept
<1>1. KeptInv /\ [RetentionNext]_retentionVars => [PendingStep]_retentionVars
  BY KeptStep
<1> QED BY <1>1, KeptHolds, PTL DEF RetentionSpec, PendingKept, PendingStep

(* No pass removes the newest row of a key or the newest interface         *)
(* version, for any window, minimum and batch size.                        *)
THEOREM CurrentKeptHolds == RetentionSpec => CurrentKept
<1>1. KeptInv /\ [RetentionNext]_retentionVars => [CurrentStep]_retentionVars
  BY KeptStep
<1> QED BY <1>1, KeptHolds, PTL DEF RetentionSpec, CurrentKept, CurrentStep
=============================================================================
