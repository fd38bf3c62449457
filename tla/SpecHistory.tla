----------------------------- MODULE SpecHistory ----------------------------
(***************************************************************************)
(* The interface of one contract as the indexer follows it                 *)
(* (indexer/specs.rs, indexer/state.rs): every indexer process has an      *)
(* in-memory spec cache; a load reads the deployed WASM, upserts           *)
(* contract_specs and appends to contract_spec_versions; the upgrade watch *)
(* and the state snapshots read the instance entry.  The API's refresh     *)
(* (routes/contracts.rs) mirrors a load, beside the indexer.               *)
(***************************************************************************)
EXTENDS Naturals, FiniteSets, Sequences

CONSTANTS
    Procs,       \* indexer processes: the live poller, a backfill command
    Apis,        \* API processes serving POST /contracts/:id/refresh
    Hashes,      \* WASM hashes the contract may run
    Partial,     \* hashes whose spec section decodes only in part
    Unparsable,  \* hashes without a usable spec
    None,        \* no hash
    MaxLedger,   \* bound: ledgers in which the contract changes
    MaxFaults,   \* bound: failed statements
    MaxRestarts   \* bound: restarts

ASSUME HashesAssumption ==
    /\ Partial \subseteq Hashes /\ Unparsable \subseteq Hashes
    /\ None \notin Hashes /\ None \notin Hashes \X Hashes
    /\ Procs \cap Apis = {}
    /\ MaxLedger \in Nat \ {0}

Loaders == Procs \cup Apis

VARIABLES
    wasm,     \* chain: the hash the contract runs
    earlier,  \* chain: hashes it ran before
    modified, \* chain: ledger at which the instance entry last changed
    cache,    \* cache[p]: the process's entry, see Entry
    step,     \* where the process is: see PcStates
    fetched,  \* fetched[p]: the hash load() works on
    tipRead,  \* tipRead[p]: length of the history record_version has read
    seen,     \* seen[p]: <<hash, ledger>> of the instance entry it has read
    specRow,  \* the hash in the contract_specs row
    versions, \* contract_spec_versions in order of version
    stateRows,\* ledgers with a contract_state row
    faults, restarts,
    disturbed \* history: a write failed or conflicted, or two loads overlapped

chain   == <<wasm, earlier, modified>>
procs   == <<cache, step, fetched, tipRead, seen>>
tables  == <<specRow, versions, stateRows>>
history == <<faults, restarts, disturbed>>
historyVars == <<chain, procs, tables, history>>

(* CachedSpec and the hash kept with it. "error" turns "due" with its TTL. *)
Absent == [kind |-> "absent", hash |-> None]
Entry(kind, hash) == [kind |-> kind, hash |-> hash]
Entries == [kind : {"absent", "spec", "nospec", "error", "due"},
            hash : Hashes \cup {None}]

HistoryInit ==
    /\ wasm \in Hashes /\ earlier = {} /\ modified = 1
    /\ cache = [p \in Procs |-> Absent]
    /\ step = [p \in Loaders |-> "idle"]
    /\ fetched = [p \in Loaders |-> None]
    /\ tipRead = [p \in Loaders |-> 0]
    /\ seen = [p \in Procs |-> <<None, 0>>]
    /\ specRow = None
    /\ versions = <<>> /\ stateRows = {}
    /\ faults = 0 /\ restarts = 0 /\ disturbed = FALSE

-----------------------------------------------------------------------------
(* The chain: the contract is upgraded, or its instance storage changes.   *)
Upgrade(h) ==
    /\ modified < MaxLedger /\ h # wasm
    /\ wasm' = h /\ earlier' = earlier \cup {wasm} /\ modified' = modified + 1
    /\ UNCHANGED <<procs, tables, history>>

StorageChanges ==
    /\ modified < MaxLedger
    /\ modified' = modified + 1
    /\ UNCHANGED <<wasm, earlier, procs, tables, history>>

Goto(p, to) == step' = [step EXCEPT ![p] = to]

Loading(p) == step[p] \in {"fetch", "persist", "tip", "append"}

(* A load begins; where it returns to shows in seen[p].                    *)
BeginLoad(p) ==
    /\ Goto(p, "fetch")
    /\ disturbed' = (disturbed \/ \E q \in Loaders \ {p} : Loading(q))
    /\ UNCHANGED <<chain, fetched, tipRead, tables, faults, restarts>>

(* SpecCache::get for an event: a miss or an expired error loads.          *)
NeedsLoad(p) == cache[p].kind \in {"absent", "due"}

Get(p) ==
    /\ step[p] = "idle" /\ NeedsLoad(p)
    /\ BeginLoad(p)
    /\ seen' = [seen EXCEPT ![p] = <<None, 0>>]
    /\ UNCHANGED cache

(* refresh_contract drops the API's caches (module ReadLayer) and loads.   *)
Refresh(a) ==
    /\ step[a] = "idle"
    /\ BeginLoad(a)
    /\ UNCHANGED <<cache, seen>>

(* FETCH_ERROR_TTL passes.                                                 *)
ErrorExpires(p) ==
    /\ cache[p].kind = "error"
    /\ cache' = [cache EXCEPT ![p].kind = "due"]
    /\ UNCHANGED <<chain, step, fetched, tipRead, seen, tables, history>>

(* get_contract_instance and its batch form: the executable, and the       *)
(* ledger in which the instance last changed.                              *)
InstanceEntry == <<wasm, modified>>

(* It is read for the upgrade watch or a state snapshot.                   *)
ReadInstance(p) ==
    /\ step[p] = "idle"
    /\ seen' = [seen EXCEPT ![p] = InstanceEntry]
    /\ Goto(p, "note")
    /\ UNCHANGED <<chain, cache, fetched, tipRead, tables, history>>

(* note_wasm_hash: a cached entry of another executable is dropped and     *)
(* read again; a contract that is not cached is left alone.                *)
NeverStale(p) == FALSE
IsStale(p) == cache[p].kind # "absent" /\ cache[p].hash # seen[p][1]

NoteWasmHash(p) ==
    /\ step[p] = "note"
    /\ IF IsStale(p)
       THEN /\ cache' = [cache EXCEPT ![p] = Absent]
            /\ BeginLoad(p)
       ELSE /\ Goto(p, "snapshot")
            /\ UNCHANGED <<chain, cache, fetched, tipRead, tables, history>>
    /\ UNCHANGED seen

(* What get() does with the result of load; then back to the caller.  A    *)
(* refresh has no cache to fill and answers its request.                   *)
Store(p, entry) ==
    /\ cache' = [q \in Procs |-> IF q = p THEN entry ELSE cache[q]]
    /\ Goto(p, IF p \in Apis \/ seen[p][1] = None THEN "idle" ELSE "snapshot")
    /\ fetched' = [fetched EXCEPT ![p] = None]

(* ContractSpec::from_wasm finds no usable spec section.                   *)
HasNoSpec(h) == h \in Unparsable

(* get_contract_wasm: an RPC error, no instance or code entry (archived,   *)
(* cached as a contract without a spec), or the current WASM, which may    *)
(* have no usable spec.                                                    *)
Fetch(p) ==
    /\ step[p] = "fetch"
    /\ \/ /\ faults < MaxFaults /\ faults' = faults + 1
          /\ \E kind \in {"error", "nospec"} : Store(p, Entry(kind, None))
       \/ /\ HasNoSpec(wasm)
          /\ Store(p, Entry("nospec", wasm))
          /\ UNCHANGED faults
       \/ /\ ~HasNoSpec(wasm)
          /\ fetched' = [fetched EXCEPT ![p] = wasm]
          /\ Goto(p, "persist")
          /\ UNCHANGED <<cache, faults>>
    /\ UNCHANGED <<chain, tipRead, seen, tables, restarts, disturbed>>

(* persist: the upsert of contract_specs.  The indexer only logs a failure *)
(* and still writes the history; a refresh ends with it.                   *)
Persist(p) ==
    /\ step[p] = "persist"
    /\ \/ /\ specRow' = fetched[p]
          /\ Goto(p, "tip")
          /\ UNCHANGED <<fetched, faults, disturbed>>
       \/ /\ faults < MaxFaults /\ faults' = faults + 1
          /\ disturbed' = TRUE
          /\ Goto(p, IF p \in Apis THEN "idle" ELSE "tip")
          /\ fetched' = IF p \in Apis THEN [fetched EXCEPT ![p] = None] ELSE fetched
          /\ UNCHANGED specRow
    /\ UNCHANGED <<chain, cache, tipRead, seen, versions, stateRows, restarts>>

(* record_version reads the newest version; the same hash ends it.         *)
SameAsTip(p) == versions # <<>> /\ versions[Len(versions)].hash = fetched[p]

ReadTip(p) ==
    /\ step[p] = "tip"
    /\ IF SameAsTip(p)
       THEN /\ Store(p, Entry("spec", fetched[p]))
            /\ UNCHANGED tipRead
       ELSE /\ tipRead' = [tipRead EXCEPT ![p] = Len(versions)]
            /\ Goto(p, "append")
            /\ UNCHANGED <<cache, fetched>>
    /\ UNCHANGED <<chain, seen, tables, history>>

(* Diffs are suppressed for an interface that decoded only in part.        *)
DiffOf(old, new) ==
    IF old = None \/ new \in Partial THEN None ELSE <<old, new>>

(* INSERT ... ON CONFLICT (contract_id, version) DO NOTHING.               *)
VersionAfter(p) ==
    LET old == IF tipRead[p] = 0 THEN None ELSE versions[tipRead[p]].hash
    IN  [hash |-> fetched[p], previous |-> old, diff |-> DiffOf(old, fetched[p])]

AppendsAnyway(p) == TRUE
Appends(p) == tipRead[p] = Len(versions)

AppendVersion(p) ==
    /\ step[p] = "append"
    /\ \/ /\ Appends(p)
          /\ versions' = Append(versions, VersionAfter(p))
          /\ UNCHANGED <<faults, disturbed>>
       \/ /\ ~Appends(p)
          /\ disturbed' = TRUE
          /\ UNCHANGED <<versions, faults>>
       \/ /\ faults < MaxFaults /\ faults' = faults + 1
          /\ disturbed' = TRUE
          /\ UNCHANGED versions
    /\ Store(p, Entry("spec", fetched[p]))
    /\ tipRead' = [tipRead EXCEPT ![p] = 0]
    /\ UNCHANGED <<chain, seen, specRow, stateRows, restarts>>

(* The rest of try_snapshot: change detection and the contract_state row.  *)
UnchangedIfAny(p) == stateRows # {}
Unchanged(p) ==
    seen[p][2] \in stateRows /\ \A l \in stateRows : l <= seen[p][2]

Snapshot(p) ==
    /\ step[p] = "snapshot"
    /\ \/ /\ stateRows' = stateRows \cup (IF Unchanged(p) THEN {} ELSE {seen[p][2]})
          /\ UNCHANGED faults
       \/ /\ ~Unchanged(p) /\ faults < MaxFaults
          /\ faults' = faults + 1
          /\ UNCHANGED stateRows
    /\ seen' = [seen EXCEPT ![p] = <<None, 0>>]
    /\ Goto(p, "idle")
    /\ UNCHANGED <<chain, cache, fetched, tipRead, specRow, versions,
                   restarts, disturbed>>

(* The process ends anywhere and starts with an empty cache; a refresh is  *)
(* dropped with its connection.                                            *)
EndProcess(p) ==
    /\ restarts < MaxRestarts /\ restarts' = restarts + 1
    /\ cache' = [q \in Procs |-> IF q = p THEN Absent ELSE cache[q]]
    /\ Goto(p, "idle")
    /\ fetched' = [fetched EXCEPT ![p] = None]
    /\ tipRead' = [tipRead EXCEPT ![p] = 0]
    /\ seen' = [q \in Procs |-> IF q = p THEN <<None, 0>> ELSE seen[q]]
    /\ UNCHANGED <<chain, tables, faults, disturbed>>

-----------------------------------------------------------------------------
LoadStep(p) == Fetch(p) \/ Persist(p) \/ ReadTip(p) \/ AppendVersion(p)
WatchStep(p) == NoteWasmHash(p) \/ Snapshot(p)

HistoryNext ==
    \/ \E h \in Hashes : Upgrade(h)
    \/ StorageChanges
    \/ \E p \in Procs :
          \/ Get(p) \/ ErrorExpires(p) \/ ReadInstance(p) \/ WatchStep(p)
    \/ \E a \in Apis : Refresh(a)
    \/ \E p \in Loaders : LoadStep(p) \/ EndProcess(p)

HistorySpec == HistoryInit /\ [][HistoryNext]_historyVars

(* A poll cycle and a request run on; events of the contract keep arriving *)
(* (Get), every cycle reads the instance, and TTLs pass.                   *)
HistoryFairness ==
    /\ \A p \in Loaders : WF_historyVars(LoadStep(p))
    /\ \A p \in Procs :
          /\ WF_historyVars(WatchStep(p)) /\ WF_historyVars(ErrorExpires(p))
          /\ SF_historyVars(Get(p)) /\ SF_historyVars(ReadInstance(p))

HistoryFairSpec == HistorySpec /\ HistoryFairness

-----------------------------------------------------------------------------
PcStates == {"idle", "note", "fetch", "persist", "tip", "append", "snapshot"}
Specs == Hashes \ Unparsable
Version == [hash : Specs, previous : Specs \cup {None},
            diff : {None} \cup (Specs \X Specs)]

HistoryTypeOK ==
    /\ wasm \in Hashes /\ earlier \subseteq Hashes /\ modified \in 1 .. MaxLedger
    /\ cache \in [Procs -> Entries] /\ step \in [Loaders -> PcStates]
    /\ fetched \in [Loaders -> Specs \cup {None}]
    /\ \A p \in Loaders : fetched[p] # None <=> step[p] \in {"persist", "tip", "append"}
    /\ tipRead \in [Loaders -> Nat]
    /\ seen \in [Procs -> (Hashes \cup {None}) \X Nat]
    /\ specRow \in Specs \cup {None}
    /\ versions \in Seq(Version)
    /\ stateRows \subseteq 1 .. MaxLedger

(* The history is one chain although processes append to it concurrently   *)
(* from stale reads: every version names the hash of the one before it as  *)
(* previous_wasm_hash, differs from it, and its diff is between the two:   *)
(* two complete interfaces have one, the first version and one that        *)
(* decoded only in part have none.  Of a complete interface after a        *)
(* partial one it says nothing (see the README).                           *)
LinkedHistory ==
    \A v \in 1 .. Len(versions) :
        LET old == IF v = 1 THEN None ELSE versions[v - 1].hash
        IN  /\ versions[v].previous = old
            /\ versions[v].hash # old
            /\ versions[v].diff # None => versions[v].diff = <<old, versions[v].hash>>
            /\ v = 1 \/ versions[v].hash \in Partial => versions[v].diff = None
            /\ v > 1 /\ {old, versions[v].hash} \cap Partial = {}
                   => versions[v].diff # None

(* The history heals itself across crashes, missed checks and RPC errors:  *)
(* its newest version and contract_specs name the executable the contract  *)
(* ends up with, unless a write failed, two loads overlapped, or the       *)
(* contract went back to an executable the poller still has cached while   *)
(* another process recorded the one in between.                            *)
HistoryCatchesUp ==
    <>[](\/ disturbed \/ wasm \in Unparsable \cup earlier
         \/ /\ versions # <<>> /\ versions[Len(versions)].hash = wasm
            /\ specRow = wasm)

(* The newest state snapshot becomes the contract's current state, although *)
(* snapshots fail and several processes write them.                        *)
StateCatchesUp == <>[](modified \in stateRows)
=============================================================================
