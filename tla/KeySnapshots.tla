---------------------------- MODULE KeySnapshots ----------------------------
(***************************************************************************)
(* Per-key state (indexer/keys.rs, indexer/state.rs): the storage keys a   *)
(* cycle's events name are read in chunks with getLedgerEntries and each   *)
(* entry that changed becomes a row of contract_data. Endpoints may lag,   *)
(* leave entries out, and answer in any order.                             *)
(***************************************************************************)
EXTENDS Naturals, FiniteSets, Sequences, SequencesExt

CONSTANTS
    Addresses,       \* holder addresses
    Templates,       \* KEY_TEMPLATES: records [symbol, names, indices]
    BalanceSymbol,   \* balance_key_symbol
    TokenEvents,     \* events a cycle may meet: [name, topics]; a topic is a
                     \* record [nested, addrs]
    MAX_BATCH_KEYS,
    MaxLedger, MaxFaults \* bounds: ledgers in which entries change; faults

VARIABLES
    ledger,    \* the chain's ledger
    changes,   \* changes[k]: ledgers in which the entry of key k was written
    pc,        \* "idle", "fetch" or "write"
    todo,      \* keys left to fetch, in batch order
    chunk,     \* keys of the current call
    answers,   \* answers[j]: the ledger of chunk[j]'s entry and the key whose
               \* value it holds, or <<>> when it is absent
    rows,      \* contract_data: set of [key, ledger, value]
    faults

chain == <<ledger, changes>>
cycle == <<pc, todo, chunk, answers>>
vars == <<chain, cycle, rows, faults>>

-----------------------------------------------------------------------------
(* The keys an event names. HOLDER_EVENTS name their holders in any topic  *)
(* that is an address; a template takes the addresses at fixed positions,  *)
(* lists of them included, and every combination is a key.                 *)
HOLDER_EVENTS == {"transfer", "mint", "burn", "clawback"}

balance_key(a) == <<BalanceSymbol, <<a>>>>

holders_in_event(e) ==
    IF e.name \notin HOLDER_EVENTS THEN {}
    ELSE UNION {e.topics[j].addrs :
                   j \in {i \in DOMAIN e.topics : ~e.topics[i].nested}}

keys_from_event(t, e) ==
    IF e.name \notin t.names \/ \E j \in DOMAIN t.indices : t.indices[j] > Len(e.topics)
    THEN {}
    ELSE {<<t.symbol, p>> : p \in {q \in [DOMAIN t.indices -> Addresses] :
             \A j \in DOMAIN t.indices : q[j] \in e.topics[t.indices[j]].addrs}}

KeysOf(e) == {balance_key(a) : a \in holders_in_event(e)}
             \cup UNION {keys_from_event(t, e) : t \in Templates}

Keys == UNION {KeysOf(e) : e \in TokenEvents}

KeyAssumption ==
    /\ \A e \in TokenEvents : IsFiniteSet(KeysOf(e))
    /\ MAX_BATCH_KEYS \in Nat \ {0} /\ MaxLedger \in Nat \ {0} /\ MaxFaults \in Nat

Init ==
    /\ ledger = 1 /\ changes = [k \in Keys |-> {}]
    /\ pc = "idle" /\ todo = <<>> /\ chunk = <<>> /\ answers = <<>>
    /\ rows = {} /\ faults = 0

(* A transaction writes some of the entries.                               *)
Write(ks) ==
    /\ ledger < MaxLedger /\ ledger' = ledger + 1
    /\ changes' = [k \in Keys |-> IF k \in ks THEN changes[k] \cup {ledger + 1}
                                              ELSE changes[k]]
    /\ UNCHANGED <<cycle, rows, faults>>

(* A cycle meets an event; the keys go into the batch in any order (they   *)
(* come from hash maps).                                                   *)
Discover(e) ==
    /\ pc = "idle" /\ KeysOf(e) # {}
    /\ todo' \in SetToSeqs(KeysOf(e))
    /\ pc' = "fetch"
    /\ UNCHANGED <<chain, chunk, answers, rows, faults>>

(* An endpoint that is `at` some ledger knows the last change up to it.    *)
LastChange(k, at) ==
    LET known == {l \in changes[k] : l <= at}
    IN  CHOOSE l \in known : \A m \in known : m <= l

(* What an endpoint at ledger `at` answers: entries for the keys that      *)
(* exist, without the others, in any order.                                *)
Responses(keys, at) ==
    SetToSeqs({[key |-> k, ledger |-> LastChange(k, at), value |-> k] :
                  k \in {j \in ToSet(keys) : \E l \in changes[j] : l <= at}})

(* get_contract_data_batch: each returned entry goes to the position of    *)
(* its own key.                                                            *)
AlignByPosition(keys, response) ==
    [j \in DOMAIN keys |->
        IF j \in DOMAIN response THEN <<response[j].ledger, response[j].value>> ELSE <<>>]
Align(keys, response) ==
    [j \in DOMAIN keys |->
        LET hits == {i \in DOMAIN response : response[i].key = keys[j]}
        IN  IF hits = {} THEN <<>>
            ELSE LET i == CHOOSE h \in hits : TRUE
                 IN  <<response[i].ledger, response[i].value>>]

Take(n, s) == SubSeq(s, 1, IF n < Len(s) THEN n ELSE Len(s))

(* One chunk: a call that fails, or an entry that does not decode, skips   *)
(* it and the next chunk is read.                                          *)
Fetch ==
    /\ pc = "fetch" /\ todo # <<>>
    /\ LET keys == Take(MAX_BATCH_KEYS, todo)
           rest == SubSeq(todo, Len(keys) + 1, Len(todo))
       IN  \/ /\ todo' = rest /\ chunk' = keys
              /\ \E at \in 1 .. ledger : \E r \in Responses(keys, at) :
                     answers' = Align(keys, r)
              /\ pc' = "write" /\ UNCHANGED faults
           \/ /\ faults < MaxFaults /\ faults' = faults + 1
              /\ todo' = rest
              /\ UNCHANGED <<pc, chunk, answers>>
    /\ UNCHANGED <<chain, rows>>

(* try_write_snapshot_data: nothing for an absent entry or one whose       *)
(* newest row has its ledger; ON CONFLICT DO NOTHING otherwise.            *)
Newest(k) == LET ls == {r.ledger : r \in {s \in rows : s.key = k}}
             IN  IF ls = {} THEN 0 ELSE CHOOSE l \in ls : \A m \in ls : m <= l

Has(k, l) == \E r \in rows : r.key = k /\ r.ledger = l

WriteEntry ==
    /\ pc = "write" /\ chunk # <<>>
    /\ LET k == Head(chunk)
           a == Head(answers)
       IN  \/ /\ rows' = IF a = <<>> \/ Newest(k) = a[1] \/ Has(k, a[1]) THEN rows
                         ELSE rows \cup {[key |-> k, ledger |-> a[1], value |-> a[2]]}
              /\ UNCHANGED faults
           \/ /\ a # <<>> /\ faults < MaxFaults /\ faults' = faults + 1
              /\ UNCHANGED rows
    /\ chunk' = Tail(chunk) /\ answers' = Tail(answers)
    /\ UNCHANGED <<chain, pc, todo>>

EndChunk ==
    /\ pc = "write" /\ chunk = <<>>
    /\ pc' = "fetch"
    /\ UNCHANGED <<chain, todo, chunk, answers, rows, faults>>

EndBatch ==
    /\ pc = "fetch" /\ todo = <<>>
    /\ pc' = "idle"
    /\ UNCHANGED <<chain, todo, chunk, answers, rows, faults>>

Snapshot == Fetch \/ WriteEntry \/ EndChunk \/ EndBatch

Next ==
    \/ \E ks \in SUBSET Keys : ks # {} /\ Write(ks)
    \/ \E e \in TokenEvents : Discover(e)
    \/ Snapshot

Spec == Init /\ [][Next]_vars

-----------------------------------------------------------------------------
TypeOK ==
    /\ ledger \in 1 .. MaxLedger
    /\ changes \in [Keys -> SUBSET (1 .. MaxLedger)]
    /\ pc \in {"idle", "fetch", "write"}
    /\ todo \in Seq(Keys) /\ chunk \in Seq(Keys)
    /\ Len(answers) = Len(chunk) /\ Len(chunk) <= MAX_BATCH_KEYS
    /\ rows \subseteq [key : Keys, ledger : 1 .. MaxLedger, value : Keys]
    /\ faults \in 0 .. MaxFaults

(* The time series is true: a row holds the value its own key got in its   *)
(* ledger, although one call reads many keys and the answer leaves some    *)
(* out and is in another order, and a lagging endpoint answers late.       *)
RowsTrue ==
    /\ \A r \in rows : r.value = r.key /\ r.ledger \in changes[r.key]
    /\ \A r, s \in rows : r.key = s.key /\ r.ledger = s.ledger => r = s
=============================================================================
