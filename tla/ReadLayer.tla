------------------------------ MODULE ReadLayer ------------------------------
(***************************************************************************)
(* The API's read layer for one contract: GET functions, POST call and     *)
(* POST simulate (routes/read.rs) over the in-memory interface cache       *)
(* (api/specs.rs) and the result cache of call (call_cache.rs), while the  *)
(* indexer and POST refresh (routes/contracts.rs) rewrite contract_specs.  *)
(* A spec section is identified by the hash of the WASM it came from, and  *)
(* fetched_at by a counter.  Cached results expire at any time after they  *)
(* are stored.                                                             *)
(***************************************************************************)
EXTENDS Naturals, FiniteSets

CONSTANTS
    Requests,     \* requests being served at once
    Hashes,       \* WASM hashes the contract may run
    Sources,      \* source_account of calls
    MAX_ENTRIES,  \* interfaces the cache holds (of all contracts)
    None,
    MaxWrites     \* bound: writes of the contract_specs row

ReadLayerAssumption ==
    /\ None \notin Hashes /\ Sources # {}
    /\ MAX_ENTRIES \in Nat \ {0} /\ MaxWrites \in Nat

VARIABLES
    row,        \* contract_specs: [hash, at], at = fetched_at
    written,    \* hashes the row has had
    rolledBack, \* whether an earlier hash came back
    spec,       \* the interface cache's entry: None or [hash, at, section]
    others,     \* entries of other contracts in the same map
    calls,      \* the result cache: a set of [hash, source, iface]
    req,        \* [Requests -> [pc, kind, source, hash, at, section, result]]
    seen,       \* [Requests -> sections the row has had since the request read it]
    refresh     \* POST refresh: "idle", "fetch" or "store"

tables == <<row, written, rolledBack>>
caches == <<spec, others, calls>>
vars == <<tables, caches, req, seen, refresh>>

(* "uncached" is a simulation, or a call of a function that does not look  *)
(* like a view by a caller who opted in (allow_mutating).                  *)
Kinds == {"functions", "call", "uncached"}
Idle  == [pc |-> "idle", kind |-> "call", source |-> CHOOSE s \in Sources : TRUE,
          hash |-> None, at |-> 0, section |-> None, result |-> None]

TypeOK ==
    /\ row \in [hash : Hashes, at : 0..MaxWrites]
    /\ spec = None \/ spec \in [hash : Hashes, at : 0..MaxWrites, section : Hashes]
    /\ others + (IF spec = None THEN 0 ELSE 1) <= MAX_ENTRIES
    /\ calls \subseteq [hash : Hashes, source : Sources, iface : Hashes]
    /\ \A c, d \in calls : c.hash = d.hash /\ c.source = d.source => c = d
    /\ \A r \in Requests : /\ req[r].pc \in {"idle", "check", "section", "have", "simulate", "done"}
                           /\ req[r].kind \in Kinds

Init ==
    /\ row \in [hash : Hashes, at : {0}] /\ written = {row.hash} /\ rolledBack = FALSE
    /\ spec = None /\ others = 0 /\ calls = {}
    /\ req = [r \in Requests |-> Idle]
    /\ seen = [r \in Requests |-> {}]
    /\ refresh = "idle"

-----------------------------------------------------------------------------
\* Writers of the contract_specs row.

Write(h) ==
    /\ row.at < MaxWrites
    /\ row' = [hash |-> h, at |-> row.at + 1]
    /\ written' = written \cup {h}
    /\ rolledBack' = (rolledBack \/ (h # row.hash /\ h \in written))
    /\ seen' = [r \in Requests |-> IF req[r].pc = "idle" THEN {} ELSE seen[r] \cup {h}]

(* SpecCache::persist of the indexer.                                      *)
IndexerWrites(h) ==
    /\ Write(h)
    /\ UNCHANGED <<caches, req, refresh>>

(* refresh_contract drops both caches, reads the WASM and upserts the row; *)
(* its history write is module SpecHistory.                                *)
RefreshBegins ==
    /\ refresh = "idle"
    /\ refresh' = "fetch"
    /\ spec' = None /\ calls' = {}
    /\ UNCHANGED <<tables, others, req, seen>>

RefreshStores(h) ==
    /\ refresh = "fetch"
    /\ refresh' = "idle"
    /\ Write(h)
    /\ UNCHANGED <<caches, req>>

(* The RPC fails, or the contract has no usable WASM.                      *)
RefreshFails ==
    /\ refresh = "fetch"
    /\ refresh' = "idle"
    /\ UNCHANGED <<tables, caches, req, seen>>

-----------------------------------------------------------------------------
\* The interface cache: SpecCache::current.

Goto(r, pc) == req' = [req EXCEPT ![r].pc = pc]

(* The request passes validate_call_request and reads hash and fetched_at. *)
Validate(r, kind, source) ==
    /\ req[r].pc = "idle"
    /\ req' = [req EXCEPT ![r] = [Idle EXCEPT !.pc = "check", !.kind = kind, !.source = source,
                                              !.hash = row.hash, !.at = row.at]]
    /\ seen' = [seen EXCEPT ![r] = {row.hash}]
    /\ UNCHANGED <<tables, caches, refresh>>

(* The entry is good if neither hash nor fetched_at has moved on.          *)
SameHash(r) == spec # None /\ spec.hash = req[r].hash
Hit(r) == spec # None /\ spec.hash = req[r].hash /\ spec.at >= req[r].at

CheckEntry(r) ==
    /\ req[r].pc = "check"
    /\ req' = IF Hit(r)
              THEN [req EXCEPT ![r].pc = "have", ![r].section = spec.section]
              ELSE [req EXCEPT ![r].pc = "section"]
    /\ UNCHANGED <<tables, caches, seen, refresh>>

(* The section is read in a query of its own, so it may be newer than the  *)
(* hash and the time it is cached under.  A full map is cleared first.     *)
Full == others + (IF spec = None THEN 0 ELSE 1) >= MAX_ENTRIES
ReadSection(r) ==
    /\ req[r].pc = "section"
    /\ req' = [req EXCEPT ![r].pc = "have", ![r].section = row.hash]
    /\ spec' = [hash |-> req[r].hash, at |-> req[r].at, section |-> row.hash]
    /\ others' = IF Full THEN 0 ELSE others
    /\ UNCHANGED <<tables, calls, seen, refresh>>

(* Another contract's interface enters the same map.                       *)
OtherContract ==
    /\ IF Full THEN spec' = None /\ others' = 1
               ELSE others' = others + 1 /\ UNCHANGED spec
    /\ UNCHANGED <<tables, calls, req, seen, refresh>>

-----------------------------------------------------------------------------
\* Calls and their cached results.

Finish(r) ==
    /\ req' = [req EXCEPT ![r] = Idle]
    /\ seen' = [seen EXCEPT ![r] = {}]

(* list_functions answers from the parse; and a call of a function that    *)
(* does not look like a view is refused.                                   *)
Answer(r) ==
    /\ req[r].pc = "have" /\ req[r].kind # "uncached"
    /\ Finish(r)
    /\ UNCHANGED <<tables, caches, refresh>>

(* make_key: the result's contract, function and args are this contract's  *)
(* one view here; source and WASM hash tell entries apart.                 *)
SameSource(r) == {c \in calls : c.source = req[r].source}
Cached(r) == {c \in calls : c.source = req[r].source /\ c.hash = req[r].hash}

ServeCached(r) ==
    /\ req[r].pc = "have" /\ req[r].kind = "call"
    /\ \E c \in Cached(r) : req' = [req EXCEPT ![r].pc = "done", ![r].result = c.iface]
    /\ UNCHANGED <<tables, caches, seen, refresh>>

(* Encode against the section and simulate.                                *)
StartSimulation(r) ==
    /\ req[r].pc = "have" /\ req[r].kind # "functions"
    /\ req[r].kind = "call" => Cached(r) = {}
    /\ Goto(r, "simulate")
    /\ UNCHANGED <<tables, caches, seen, refresh>>

(* The result of a call is stored; LruCache::put replaces the key's entry. *)
Simulated(r) ==
    /\ req[r].pc = "simulate"
    /\ req' = [req EXCEPT ![r].pc = "done", ![r].result = req[r].section]
    /\ calls' = IF req[r].kind = "call"
                THEN (calls \ Cached(r)) \cup
                       {[hash |-> req[r].hash, source |-> req[r].source, iface |-> req[r].section]}
                ELSE calls
    /\ UNCHANGED <<tables, spec, others, seen, refresh>>

(* Encoding, the transport or the contract fails: nothing is stored.       *)
SimulationFails(r) ==
    /\ req[r].pc = "simulate"
    /\ Finish(r)
    /\ UNCHANGED <<tables, caches, refresh>>

Respond(r) ==
    /\ req[r].pc = "done"
    /\ Finish(r)
    /\ UNCHANGED <<tables, caches, refresh>>

Expire ==
    /\ \E c \in calls : calls' = calls \ {c}
    /\ UNCHANGED <<tables, spec, others, req, seen, refresh>>

Next ==
    \/ \E h \in Hashes : IndexerWrites(h) \/ RefreshStores(h)
    \/ RefreshBegins \/ RefreshFails \/ OtherContract \/ Expire
    \/ \E r \in Requests :
          \/ \E kind \in Kinds, s \in Sources : Validate(r, kind, s)
          \/ CheckEntry(r) \/ ReadSection(r) \/ Answer(r) \/ ServeCached(r)
          \/ StartSimulation(r) \/ Simulated(r) \/ SimulationFails(r) \/ Respond(r)

Spec == Init /\ [][Next]_vars

-----------------------------------------------------------------------------
(* api/specs.rs: a request works with a section contract_specs has had     *)
(* since the request read the row, never with an older one, although the   *)
(* cached section may be newer than the hash it is filed under, and a hash *)
(* may come back.                                                          *)
SpecCurrent ==
    \A r \in Requests : req[r].section # None => req[r].section \in seen[r]

(* call_cache.rs: the same holds of the interface a served result was      *)
(* computed against, unless the contract went back to an earlier WASM.     *)
ResultCurrent ==
    \A r \in Requests : req[r].result # None /\ ~rolledBack => req[r].result \in seen[r]
=============================================================================
