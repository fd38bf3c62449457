----------------------------- MODULE SideProofs -----------------------------
(***************************************************************************)
(* Proofs about the parts beside the poller and the API.  The interface    *)
(* history (SpecHistory): type correctness, and that                       *)
(* contract_spec_versions is one linked chain, for any number of indexer   *)
(* and API processes that append to it from reads that may be stale.  The  *)
(* MCP server, deep backfill, key snapshots, interface diffs and event     *)
(* enrichment (SideParts): each has an inductive invariant of its own, for *)
(* any number of clients, calls, export lines, keys and upgrades, any      *)
(* interfaces and any limits.                                              *)
(***************************************************************************)
EXTENDS SpecHistory, SideParts, FiniteSetTheorems, SequenceTheorems, WellFoundedInduction, TLAPS

-----------------------------------------------------------------------------
(* What a process knows of the instance entry is one reading of the chain, *)
(* and a process that goes on to the snapshot has one.                     *)
SeenInv ==
    \A p \in Procs :
        /\ \/ seen[p] = <<None, 0>>
           \/ seen[p][1] \in Hashes /\ seen[p][2] \in 1 .. MaxLedger
        /\ step[p] \in {"note", "snapshot"} => seen[p][1] # None

(* The tip that record_version has read is still a version of the history, *)
(* and another executable than the one about to be appended: the history   *)
(* may have grown meanwhile, but nothing in it ever changes.               *)
TipReadInv ==
    \A p \in Loaders : step[p] = "append" =>
        /\ tipRead[p] <= Len(versions)
        /\ tipRead[p] > 0 => versions[tipRead[p]].hash # fetched[p]

Inv == HistoryTypeOK /\ SeenInv /\ TipReadInv /\ LinkedHistory

-----------------------------------------------------------------------------
(* The row record_version inserts is a version.                            *)
LEMMA VersionAfterType ==
    ASSUME Inv, NEW p \in Loaders, step[p] = "append"
    PROVE  VersionAfter(p) \in Version
  <1>1. fetched[p] \in Specs /\ fetched[p] # None
    BY DEF Inv, HistoryTypeOK
  <1>2. tipRead[p] # 0 => versions[tipRead[p]] \in Version
    BY DEF Inv, HistoryTypeOK, TipReadInv
  <1>3. tipRead[p] # 0 => versions[tipRead[p]].hash \in Specs
    BY <1>2 DEF Version
  <1>4. ASSUME NEW old \in Specs \cup {None}
        PROVE  DiffOf(old, fetched[p]) \in {None} \cup (Specs \X Specs)
    BY <1>1 DEF DiffOf
  <1>. QED
    BY <1>1, <1>3, <1>4 DEF VersionAfter, Version

(* A load that ends leaves a cache entry and no fetched hash.              *)
LEMMA StoreType ==
    ASSUME Inv, NEW p \in Loaders, NEW e \in Entries, Store(p, e)
    PROVE  /\ cache' \in [Procs -> Entries]
           /\ step' \in [Loaders -> PcStates]
           /\ fetched' \in [Loaders -> Specs \cup {None}]
           /\ \A q \in Loaders : fetched'[q] # None <=> step'[q] \in {"persist", "tip", "append"}
  <1>1. cache' \in [Procs -> Entries]
    BY DEF Inv, HistoryTypeOK, Store
  <1>2. step' \in [Loaders -> PcStates] /\ fetched' \in [Loaders -> Specs \cup {None}]
    BY DEF Inv, HistoryTypeOK, Store, Goto, PcStates
  <1>3. ASSUME NEW q \in Loaders
        PROVE  fetched'[q] # None <=> step'[q] \in {"persist", "tip", "append"}
    BY DEF Inv, HistoryTypeOK, Store, Goto
  <1>. QED
    BY <1>1, <1>2, <1>3

LEMMA TypeStep ==
    ASSUME Inv, [HistoryNext]_historyVars
    PROVE  HistoryTypeOK'
  <1>. USE HashesAssumption
  <1>1. CASE UNCHANGED historyVars
    BY <1>1 DEF Inv, HistoryTypeOK, historyVars, chain, procs, tables, history
  <1>2. ASSUME NEW h \in Hashes, Upgrade(h)
        PROVE  HistoryTypeOK'
    BY <1>2 DEF Inv, HistoryTypeOK, Upgrade, procs, tables, history
  <1>3. CASE StorageChanges
    BY <1>3 DEF Inv, HistoryTypeOK, StorageChanges, procs, tables, history
  <1>4. ASSUME NEW p \in Procs, Get(p)
        PROVE  HistoryTypeOK'
    BY <1>4 DEF Inv, HistoryTypeOK, Get, BeginLoad, Goto, PcStates, Loaders, chain, tables
  <1>5. ASSUME NEW p \in Procs, ErrorExpires(p)
        PROVE  HistoryTypeOK'
    <2>1. cache' \in [Procs -> Entries]
      BY <1>5 DEF Inv, HistoryTypeOK, ErrorExpires, Entries
    <2>. QED
      BY <1>5, <2>1 DEF Inv, HistoryTypeOK, ErrorExpires, chain, tables
  <1>6. ASSUME NEW p \in Procs, ReadInstance(p)
        PROVE  HistoryTypeOK'
    BY <1>6 DEF Inv, HistoryTypeOK, ReadInstance, InstanceEntry, Goto, PcStates, Loaders, chain, tables
  <1>7. ASSUME NEW p \in Procs, NoteWasmHash(p)
        PROVE  HistoryTypeOK'
    <2>1. CASE IsStale(p)
      <3>1. Absent \in Entries
        BY DEF Absent, Entries
      <3>2. cache' \in [Procs -> Entries]
        BY <1>7, <2>1, <3>1 DEF Inv, HistoryTypeOK, NoteWasmHash
      <3>3. /\ step' \in [Loaders -> PcStates]
            /\ fetched' = fetched
            /\ \A q \in Loaders :
                  fetched'[q] # None <=> step'[q] \in {"persist", "tip", "append"}
        BY <1>7, <2>1 DEF Inv, HistoryTypeOK, NoteWasmHash, BeginLoad, Goto, PcStates, Loaders
      <3>. QED
        BY <1>7, <2>1, <3>2, <3>3 DEF Inv, HistoryTypeOK, NoteWasmHash, BeginLoad, chain, tables
    <2>2. CASE ~IsStale(p)
      BY <1>7, <2>2 DEF Inv, HistoryTypeOK, NoteWasmHash, Goto, PcStates, Loaders, chain, tables
    <2>. QED
      BY <2>1, <2>2
  <1>8. ASSUME NEW p \in Procs, Snapshot(p)
        PROVE  HistoryTypeOK'
    <2>1. seen[p][2] \in 1 .. MaxLedger
      BY <1>8 DEF Snapshot, Inv, SeenInv
    <2>2. stateRows' \subseteq 1 .. MaxLedger
      BY <1>8, <2>1 DEF Snapshot, Inv, HistoryTypeOK
    <2>. QED
      BY <1>8, <2>2 DEF Inv, HistoryTypeOK, Snapshot, Goto, PcStates, Loaders, chain
  <1>9. ASSUME NEW a \in Apis, Refresh(a)
        PROVE  HistoryTypeOK'
    BY <1>9 DEF Inv, HistoryTypeOK, Refresh, BeginLoad, Goto, PcStates, Loaders, chain, tables
  <1>10. ASSUME NEW p \in Loaders, Fetch(p)
         PROVE  HistoryTypeOK'
    <2>1. ASSUME NEW e \in Entries, Store(p, e)
          PROVE  HistoryTypeOK'
      BY <1>10, <2>1, StoreType DEF Fetch, Inv, HistoryTypeOK, chain, tables
    <2>2. CASE fetched' = [fetched EXCEPT ![p] = wasm] /\ ~HasNoSpec(wasm)
               /\ Goto(p, "persist") /\ cache' = cache
      BY <1>10, <2>2 DEF Fetch, HasNoSpec, Specs, Goto, PcStates, Inv, HistoryTypeOK, chain, tables
    <2>3. /\ \A kind \in {"error", "nospec"} : Entry(kind, None) \in Entries
          /\ Entry("nospec", wasm) \in Entries
      BY DEF Entry, Entries, Inv, HistoryTypeOK
    <2>. QED
      BY <1>10, <2>1, <2>2, <2>3 DEF Fetch
  <1>11. ASSUME NEW p \in Loaders, Persist(p)
         PROVE  HistoryTypeOK'
    <2>1. /\ step' \in [Loaders -> PcStates]
          /\ fetched' \in [Loaders -> Specs \cup {None}]
      BY <1>11 DEF Persist, Goto, PcStates, Inv, HistoryTypeOK
    <2>2. specRow' \in Specs \cup {None}
      BY <1>11 DEF Persist, Inv, HistoryTypeOK
    <2>3. ASSUME NEW q \in Loaders
          PROVE  fetched'[q] # None <=> step'[q] \in {"persist", "tip", "append"}
      <3>1. CASE step' = [step EXCEPT ![p] = "tip"] /\ fetched' = fetched
        BY <1>11, <3>1 DEF Persist, Inv, HistoryTypeOK
      <3>2. CASE step' = [step EXCEPT ![p] = "idle"] /\ fetched' = [fetched EXCEPT ![p] = None]
        BY <1>11, <3>2 DEF Persist, Inv, HistoryTypeOK
      <3>. QED
        BY <1>11, <3>1, <3>2 DEF Persist, Goto
    <2>. QED
      BY <1>11, <2>1, <2>2, <2>3 DEF Persist, Inv, HistoryTypeOK, chain
  <1>12. ASSUME NEW p \in Loaders, ReadTip(p)
         PROVE  HistoryTypeOK'
    <2>1. CASE SameAsTip(p)
      <3>1. Entry("spec", fetched[p]) \in Entries
        BY DEF Entry, Entries, Inv, HistoryTypeOK, Specs
      <3>. QED
        BY <1>12, <2>1, <3>1, StoreType DEF ReadTip, Inv, HistoryTypeOK, chain, tables
    <2>2. CASE ~SameAsTip(p)
      <3>1. /\ step' \in [Loaders -> PcStates]
            /\ tipRead' \in [Loaders -> Nat]
        <4>1. Len(versions) \in Nat
          BY DEF Inv, HistoryTypeOK
        <4>2. /\ step' = [step EXCEPT ![p] = "append"]
              /\ tipRead' = [tipRead EXCEPT ![p] = Len(versions)]
          BY <1>12, <2>2 DEF ReadTip, Goto
        <4>. QED
          BY <4>1, <4>2 DEF PcStates, Inv, HistoryTypeOK
      <3>2. \A q \in Loaders : fetched'[q] # None <=> step'[q] \in {"persist", "tip", "append"}
        <4>1. step[p] = "tip" /\ fetched' = fetched /\ step' = [step EXCEPT ![p] = "append"]
          BY <1>12, <2>2 DEF ReadTip, Goto
        <4>. QED
          BY <4>1 DEF Inv, HistoryTypeOK
      <3>. QED
        BY <1>12, <2>2, <3>1, <3>2 DEF ReadTip, Inv, HistoryTypeOK, chain, tables
    <2>. QED
      BY <2>1, <2>2
  <1>13. ASSUME NEW p \in Loaders, AppendVersion(p)
         PROVE  HistoryTypeOK'
    <2>1. Entry("spec", fetched[p]) \in Entries
      BY DEF Entry, Entries, Inv, HistoryTypeOK, Specs
    <2>2. versions' \in Seq(Version)
      <3>1. CASE versions' = Append(versions, VersionAfter(p))
        BY <1>13, <3>1, VersionAfterType DEF AppendVersion, Inv, HistoryTypeOK
      <3>2. CASE versions' = versions
        BY <3>2 DEF Inv, HistoryTypeOK
      <3>. QED
        BY <1>13, <3>1, <3>2 DEF AppendVersion
    <2>. QED
      BY <1>13, <2>1, <2>2, StoreType DEF AppendVersion, Inv, HistoryTypeOK, chain
  <1>14. ASSUME NEW p \in Loaders, EndProcess(p)
         PROVE  HistoryTypeOK'
    <2>1. cache' \in [Procs -> Entries]
      BY <1>14 DEF EndProcess, Absent, Entries, Inv, HistoryTypeOK
    <2>. QED
      BY <1>14, <2>1 DEF EndProcess, Goto, PcStates, Inv, HistoryTypeOK, chain, tables
  <1>. QED
    BY <1>1, <1>2, <1>3, <1>4, <1>5, <1>6, <1>7, <1>8, <1>9, <1>10, <1>11, <1>12, <1>13, <1>14
       DEF HistoryNext, LoadStep, WatchStep

LEMMA SeenStep ==
    ASSUME Inv, [HistoryNext]_historyVars
    PROVE  SeenInv'
  <1>. USE HashesAssumption
  <1>1. CASE UNCHANGED historyVars
    BY <1>1 DEF Inv, SeenInv, historyVars, procs
  <1>2. ASSUME NEW h \in Hashes, Upgrade(h)
        PROVE  SeenInv'
    BY <1>2 DEF Inv, SeenInv, Upgrade, procs
  <1>3. CASE StorageChanges
    BY <1>3 DEF Inv, SeenInv, StorageChanges, procs
  <1>4. ASSUME NEW p \in Procs, Get(p)
        PROVE  SeenInv'
    BY <1>4 DEF Inv, HistoryTypeOK, SeenInv, Get, BeginLoad, Goto, Loaders
  <1>5. ASSUME NEW p \in Procs, ErrorExpires(p)
        PROVE  SeenInv'
    BY <1>5 DEF Inv, SeenInv, ErrorExpires
  <1>6. ASSUME NEW p \in Procs, ReadInstance(p)
        PROVE  SeenInv'
    BY <1>6 DEF Inv, HistoryTypeOK, SeenInv, ReadInstance, InstanceEntry, Goto, Loaders
  <1>7. ASSUME NEW p \in Procs, NoteWasmHash(p)
        PROVE  SeenInv'
    BY <1>7 DEF Inv, HistoryTypeOK, SeenInv, NoteWasmHash, BeginLoad, Goto, Loaders
  <1>8. ASSUME NEW p \in Procs, Snapshot(p)
        PROVE  SeenInv'
    BY <1>8 DEF Inv, HistoryTypeOK, SeenInv, Snapshot, Goto, Loaders
  <1>9. ASSUME NEW a \in Apis, Refresh(a)
        PROVE  SeenInv'
    BY <1>9 DEF Inv, HistoryTypeOK, SeenInv, Refresh, BeginLoad, Goto, Loaders
  <1>10. ASSUME NEW p \in Loaders, NEW e, Store(p, e), seen' = seen
         PROVE  SeenInv'
    BY <1>10 DEF Inv, HistoryTypeOK, SeenInv, Store, Goto, Loaders
  <1>11. ASSUME NEW p \in Loaders, NEW s \in {"idle", "persist", "tip", "append"},
                Goto(p, s), seen' = seen
         PROVE  SeenInv'
    BY <1>11 DEF Inv, HistoryTypeOK, SeenInv, Goto, Loaders
  <1>12. ASSUME NEW p \in Loaders, LoadStep(p)
         PROVE  SeenInv'
    <2>1. CASE Fetch(p)
      BY <2>1, <1>10, <1>11 DEF Fetch
    <2>2. CASE Persist(p)
      BY <2>2, <1>11 DEF Persist
    <2>3. CASE ReadTip(p)
      BY <2>3, <1>10, <1>11 DEF ReadTip
    <2>4. CASE AppendVersion(p)
      BY <2>4, <1>10 DEF AppendVersion
    <2>. QED
      BY <1>12, <2>1, <2>2, <2>3, <2>4 DEF LoadStep
  <1>13. ASSUME NEW p \in Loaders, EndProcess(p)
         PROVE  SeenInv'
    BY <1>13 DEF Inv, HistoryTypeOK, SeenInv, EndProcess, Goto, Loaders
  <1>. QED
    BY <1>1, <1>2, <1>3, <1>4, <1>5, <1>6, <1>7, <1>8, <1>9, <1>12, <1>13 DEF HistoryNext, WatchStep

(* The history is append-only: a step leaves it alone, or it is the insert *)
(* of a process whose tip is still the newest version.                     *)
LEMMA HistoryGrows ==
    ASSUME Inv, [HistoryNext]_historyVars
    PROVE  \/ versions' = versions
           \/ \E p \in Loaders : /\ AppendVersion(p) /\ Appends(p)
                                 /\ versions' = Append(versions, VersionAfter(p))
  BY DEF HistoryNext, LoadStep, WatchStep, historyVars, chain, procs, tables, history, Upgrade, StorageChanges,
         Get, BeginLoad, ErrorExpires, ReadInstance, NoteWasmHash, Snapshot, Refresh, Fetch,
         Persist, ReadTip, AppendVersion, EndProcess

(* A process that is about to append was there before the step with the    *)
(* same reading, or it has just read the tip.                              *)
LEMMA WhoAppends ==
    ASSUME Inv, [HistoryNext]_historyVars, NEW q \in Loaders, step'[q] = "append"
    PROVE  \/ step[q] = "append" /\ tipRead'[q] = tipRead[q] /\ fetched'[q] = fetched[q]
           \/ /\ ReadTip(q) /\ ~SameAsTip(q)
              /\ tipRead'[q] = Len(versions) /\ fetched'[q] = fetched[q]
  <1>. DEFINE Same == step[q] = "append" /\ tipRead'[q] = tipRead[q] /\ fetched'[q] = fetched[q]
  <1>1. CASE UNCHANGED <<step, fetched, tipRead>>
    BY <1>1
  <1>2. ASSUME NEW p \in Loaders, NEW s \in PcStates \ {"append"}, Goto(p, s),
               UNCHANGED <<fetched, tipRead>>
        PROVE  Same
    BY <1>2 DEF Inv, HistoryTypeOK, Goto
  <1>3. ASSUME NEW p \in Loaders, NEW s \in PcStates \ {"append"}, NEW h, Goto(p, s),
               fetched' = [fetched EXCEPT ![p] = h],
               \/ tipRead' = tipRead
               \/ tipRead' = [tipRead EXCEPT ![p] = 0]
        PROVE  Same
    BY <1>3 DEF Inv, HistoryTypeOK, Goto
  <1>4. ASSUME NEW p \in Loaders, NEW e, Store(p, e),
               \/ tipRead' = tipRead
               \/ tipRead' = [tipRead EXCEPT ![p] = 0]
        PROVE  Same
    <2>1. PICK s \in PcStates \ {"append"} : Goto(p, s)
      BY <1>4 DEF Store, PcStates
    <2>. QED
      BY <1>3, <1>4, <2>1 DEF Store
  <1>. {"idle", "note", "fetch", "persist", "tip", "snapshot"} \subseteq PcStates \ {"append"}
    BY DEF PcStates
  <1>5. CASE UNCHANGED historyVars
    BY <1>1, <1>5 DEF historyVars, procs
  <1>6. CASE StorageChanges \/ \E h \in Hashes : Upgrade(h)
    BY <1>1, <1>6 DEF StorageChanges, Upgrade, procs
  <1>7. ASSUME NEW p \in Procs, Get(p) \/ ErrorExpires(p) \/ ReadInstance(p) \/ WatchStep(p)
        PROVE  Same
    BY <1>1, <1>2, <1>7 DEF Get, BeginLoad, ErrorExpires, ReadInstance, WatchStep, NoteWasmHash,
                            Snapshot, Loaders
  <1>8. ASSUME NEW a \in Apis, Refresh(a)
        PROVE  Same
    BY <1>2, <1>8 DEF Refresh, BeginLoad, Loaders
  <1>9. ASSUME NEW p \in Loaders, Fetch(p)
        PROVE  Same
    BY <1>3, <1>4, <1>9 DEF Fetch
  <1>10. ASSUME NEW p \in Loaders, Persist(p)
         PROVE  Same
    BY <1>2, <1>3, <1>10 DEF Persist
  <1>11. ASSUME NEW p \in Loaders, ReadTip(p)
         PROVE  Same \/ /\ ReadTip(q) /\ ~SameAsTip(q)
                        /\ tipRead'[q] = Len(versions) /\ fetched'[q] = fetched[q]
    <2>1. CASE SameAsTip(p)
      BY <1>4, <1>11, <2>1 DEF ReadTip
    <2>2. CASE ~SameAsTip(p)
      BY <1>11, <2>2 DEF ReadTip, Goto, Inv, HistoryTypeOK
    <2>. QED
      BY <2>1, <2>2
  <1>12. ASSUME NEW p \in Loaders, AppendVersion(p)
         PROVE  Same
    BY <1>4, <1>12 DEF AppendVersion
  <1>13. ASSUME NEW p \in Loaders, EndProcess(p)
         PROVE  Same
    BY <1>3, <1>13 DEF EndProcess
  <1>. QED
    BY <1>5, <1>6, <1>7, <1>8, <1>9, <1>10, <1>11, <1>12, <1>13 DEF HistoryNext, LoadStep

LEMMA TipReadStep ==
    ASSUME Inv, [HistoryNext]_historyVars
    PROVE  TipReadInv'
  <1>. SUFFICES ASSUME NEW q \in Loaders, step'[q] = "append"
                PROVE  /\ tipRead'[q] <= Len(versions')
                       /\ tipRead'[q] > 0 => versions'[tipRead'[q]].hash # fetched'[q]
    BY DEF TipReadInv
  <1>1. /\ tipRead'[q] \in Nat /\ tipRead'[q] <= Len(versions)
        /\ tipRead'[q] > 0 => versions[tipRead'[q]].hash # fetched'[q]
    <2>1. CASE step[q] = "append" /\ tipRead'[q] = tipRead[q] /\ fetched'[q] = fetched[q]
      BY <2>1 DEF Inv, HistoryTypeOK, TipReadInv
    <2>2. CASE /\ ReadTip(q) /\ ~SameAsTip(q)
               /\ tipRead'[q] = Len(versions) /\ fetched'[q] = fetched[q]
      BY <2>2 DEF SameAsTip, Inv, HistoryTypeOK
    <2>. QED
      BY <2>1, <2>2, WhoAppends
  <1>2. Len(versions') \in Nat /\ Len(versions) <= Len(versions')
        /\ \A i \in 1 .. Len(versions) : versions'[i] = versions[i]
    <2>1. CASE versions' = versions
      BY <2>1 DEF Inv, HistoryTypeOK
    <2>2. CASE \E p \in Loaders : /\ AppendVersion(p)
                                  /\ versions' = Append(versions, VersionAfter(p))
      BY <2>2, VersionAfterType DEF AppendVersion, Inv, HistoryTypeOK
    <2>. QED
      BY <2>1, <2>2, HistoryGrows
  <1>3. Len(versions) \in Nat
    BY DEF Inv, HistoryTypeOK
  <1>. QED
    BY <1>1, <1>2, <1>3

LEMMA LinkedStep ==
    ASSUME Inv, [HistoryNext]_historyVars
    PROVE  LinkedHistory'
  <1>. USE HashesAssumption
  <1>1. CASE versions' = versions
    BY <1>1 DEF Inv, LinkedHistory
  <1>2. ASSUME NEW p \in Loaders, AppendVersion(p), Appends(p),
               versions' = Append(versions, VersionAfter(p))
        PROVE  LinkedHistory'
    <2>. DEFINE n == Len(versions)
                row == VersionAfter(p)
                old(v) == IF v = 1 THEN None ELSE versions[v - 1].hash
    <2>1. /\ row \in Version /\ versions \in Seq(Version) /\ n \in Nat
          /\ fetched[p] \in Specs /\ tipRead[p] = n
      BY <1>2, VersionAfterType DEF AppendVersion, Appends, Inv, HistoryTypeOK
    <2>2. /\ Len(versions') = n + 1
          /\ \A v \in 1 .. n : versions'[v] = versions[v]
          /\ versions'[n + 1] = row
      BY <1>2, <2>1
    <2>3. /\ row.hash = fetched[p]
          /\ row.previous = old(n + 1)
          /\ row.diff = DiffOf(old(n + 1), fetched[p])
      BY <2>1 DEF VersionAfter
    <2>4. n = 0 => old(n + 1) = None
      OBVIOUS
    <2>5. n > 0 => old(n + 1) \in Specs /\ old(n + 1) # fetched[p]
      <3>1. n > 0 => versions[n] \in Version
        BY <2>1
      <3>2. n > 0 => versions[n].hash # fetched[p]
        BY <1>2, <2>1 DEF AppendVersion, Inv, TipReadInv
      <3>. QED
        BY <3>1, <3>2, <2>1 DEF Version
    <2>6. /\ row.hash # old(n + 1)
          /\ row.diff # None => row.diff = <<old(n + 1), row.hash>>
          /\ n + 1 = 1 \/ row.hash \in Partial => row.diff = None
          /\ n + 1 > 1 /\ {old(n + 1), row.hash} \cap Partial = {} => row.diff # None
      <3>1. None \notin Specs
        BY DEF Specs
      <3>2. CASE n = 0
        BY <3>1, <3>2, <2>1, <2>3, <2>4 DEF DiffOf
      <3>3. CASE n > 0
        <4>1. <<old(n + 1), fetched[p]>> # None
          BY <2>1, <2>5, <3>3 DEF Specs
        <4>2. old(n + 1) # None
          BY <2>5, <3>1, <3>3
        <4>. HIDE DEF old
        <4>. QED
          BY <4>1, <4>2, <3>3, <2>1, <2>3, <2>5 DEF DiffOf
      <3>. QED
        BY <3>2, <3>3, <2>1
    <2>7. ASSUME NEW v \in 1 .. Len(versions')
          PROVE  LET o == IF v = 1 THEN None ELSE versions'[v - 1].hash
                 IN  /\ versions'[v].previous = o
                     /\ versions'[v].hash # o
                     /\ versions'[v].diff # None => versions'[v].diff = <<o, versions'[v].hash>>
                     /\ v = 1 \/ versions'[v].hash \in Partial => versions'[v].diff = None
                     /\ v > 1 /\ {o, versions'[v].hash} \cap Partial = {}
                           => versions'[v].diff # None
      <3>1. (IF v = 1 THEN None ELSE versions'[v - 1].hash) = old(v)
        BY <2>1, <2>2
      <3>2. CASE v \in 1 .. n
        BY <3>1, <3>2, <2>2 DEF Inv, LinkedHistory
      <3>3. CASE v = n + 1
        BY <3>1, <3>3, <2>2, <2>3, <2>6
      <3>. QED
        BY <3>2, <3>3, <2>1, <2>2
    <2>. QED
      BY <2>7 DEF LinkedHistory
  <1>. QED
    BY <1>1, <1>2, HistoryGrows

LEMMA InvHolds == HistorySpec => []Inv
  <1>1. HistoryInit => Inv
    BY HashesAssumption DEF HistoryInit, Inv, HistoryTypeOK, SeenInv, TipReadInv, LinkedHistory, Absent, Entries,
                            PcStates, Specs, Version, Loaders
  <1>2. Inv /\ [HistoryNext]_historyVars => Inv'
    BY TypeStep, SeenStep, TipReadStep, LinkedStep DEF Inv
  <1>. QED
    BY <1>1, <1>2, PTL DEF HistorySpec

-----------------------------------------------------------------------------
(* Type correctness of the loads, the upgrade watch and the history.       *)
THEOREM HistoryTypeCorrect == HistorySpec => []HistoryTypeOK
  BY InvHolds, PTL DEF Inv

(* contract_spec_versions is one linked chain, whatever processes load,    *)
(* refresh, fail or restart at the same time (record_version and its       *)
(* ON CONFLICT DO NOTHING).                                                *)
THEOREM LinkedHistoryHolds == HistorySpec => []LinkedHistory
  BY InvHolds, PTL DEF Inv

-----------------------------------------------------------------------------
(* The MCP server *)

LEMMA McpCount ==
    ASSUME NEW S
    PROVE  /\ Mcp!IsFiniteSet(S) <=> IsFiniteSet(S)
           /\ Mcp!Cardinality(S) = Cardinality(S)
BY DEF IsFiniteSet, Cardinality, Mcp!IsFiniteSet, Mcp!Cardinality

LEMMA McpConstants ==
    /\ auth_token \in BOOLEAN
    /\ limit_per_min \in Nat \ {0} /\ global_limit_per_min \in Nat \ {0} /\ Window \in Nat \ {0}
    /\ MaxNow \in Nat /\ MaxSessions \in Nat /\ IsFiniteSet(Handlers)
BY SideAssumption, McpCount DEF Mcp!McpAssumption

Call == [pc : {"tool", "counted", "simulating"}, req : [client : Clients, session : Nat, token : BOOLEAN]]
Stamp == Nat \X Nat
Run == [client : Clients, at : Nat, nth : Nat, session : Nat, token : BOOLEAN]

McpType ==
    /\ transport \in {"http", "stdio"} /\ issued \in Nat
    /\ sessions \subseteq 1..issued /\ ended \subseteq 1..issued
    /\ held \in [Clients -> Nat] /\ \A c \in Clients : held[c] <= issued
    /\ handler \in [Handlers -> {Mcp!Idle} \cup Call]
    /\ now \in 0..MaxNow

(* A session is live or ended, and a tool runs for a caller that showed    *)
(* the token and a session.                                                *)
SessionInv ==
    /\ 1..issued \subseteq sessions \cup ended /\ sessions \cap ended = {}
    /\ \A h \in Handlers : handler[h].pc # "idle" =>
         /\ auth_token => handler[h].req.token
         /\ transport = "http" => handler[h].req.session \in 1..issued
    /\ Mcp!SessionsHonest

(* What ran since any moment still in the window was admitted: every       *)
(* simulation and every call between the two locks has its stamp.          *)
InFlight == {h \in Handlers : handler[h].pc = "counted"}
Since(S, s) == {e \in S : e[1] >= s}
RanSince(R, s) == {x \in R : x.at >= s}
RanOf(c) == {x \in ran : x.client = c}

StampType ==
    /\ global \subseteq Stamp /\ IsFiniteSet(global) /\ Cardinality(global) <= global_limit_per_min
    /\ perClient \in [Clients -> SUBSET Stamp]
    /\ \A c \in Clients : IsFiniteSet(perClient[c]) /\ Cardinality(perClient[c]) <= limit_per_min
    /\ ran \subseteq Run /\ IsFiniteSet(ran)
    /\ \A x \in ran : x.nth < Cardinality(ran) /\ x.at <= now
    /\ \A x \in ran : (auth_token => x.token) /\ (transport = "http" => x.session \in 1..issued)

Stamped ==
    \A s \in 0..now : now - s < Window =>
        /\ Cardinality(RanSince(ran, s)) + Cardinality(InFlight) <= Cardinality(Since(global, s))
        /\ \A c \in Clients : Cardinality(RanSince(RanOf(c), s)) <= Cardinality(Since(perClient[c], s))

Budgets ==
    \A t \in Nat :
        /\ Cardinality(Mcp!During(ran, t)) <= global_limit_per_min
        /\ \A c \in Clients : Cardinality(Mcp!During(RanOf(c), t)) <= limit_per_min

McpInv == McpType /\ SessionInv /\ StampType /\ Stamped /\ Budgets

LEMMA McpInitially == Mcp!Init => McpInv
<1> SUFFICES ASSUME Mcp!Init PROVE McpInv
  OBVIOUS
<1>1. McpType
  BY McpConstants DEF Mcp!Init, McpType
<1>2. SessionInv
  BY DEF Mcp!Init, SessionInv, Mcp!Idle, Mcp!NoAnswer, Mcp!SessionsHonest
<1>3. IsFiniteSet({}) /\ Cardinality({}) = 0
  BY FS_EmptySet
<1>4. StampType
  BY <1>3, McpConstants DEF Mcp!Init, StampType
<1>5. InFlight = {} /\ ran = {} /\ global = {} /\ \A c \in Clients : perClient[c] = {}
  BY DEF Mcp!Init, InFlight, Mcp!Idle
<1>6. Stamped
  <2>1. \A s : RanSince(ran, s) = {} /\ Since(global, s) = {}
    BY <1>5 DEF RanSince, Since
  <2>2. \A s : \A c \in Clients : RanSince(RanOf(c), s) = {} /\ Since(perClient[c], s) = {}
    BY <1>5 DEF RanSince, RanOf, Since
  <2>3. \A s : Cardinality(RanSince(ran, s)) = 0 /\ Cardinality(Since(global, s)) = 0
    BY <1>3, <2>1, Zenon
  <2>4. \A s : \A c \in Clients : Cardinality(RanSince(RanOf(c), s)) = 0 /\ Cardinality(Since(perClient[c], s)) = 0
    BY <1>3, <2>2, Zenon
  <2>5. Cardinality(InFlight) = 0
    BY <1>3, <1>5, Zenon
  <2> QED BY <2>3, <2>4, <2>5 DEF Stamped
<1>7. Budgets
  <2>1. \A t : Mcp!During(ran, t) = {} /\ \A c : Mcp!During(RanOf(c), t) = {}
    BY <1>5 DEF Mcp!During, RanOf
  <2> QED BY <1>3, <2>1, McpConstants DEF Budgets
<1> QED BY <1>1, <1>2, <1>4, <1>6, <1>7 DEF McpInv

LEMMA McpTrue == McpInv => Mcp!TypeOK /\ Mcp!BudgetKept /\ Mcp!SessionsHonest /\ Mcp!SimulatesForKnown
<1> SUFFICES ASSUME McpInv PROVE Mcp!TypeOK /\ Mcp!BudgetKept /\ Mcp!SessionsHonest /\ Mcp!SimulatesForKnown
  OBVIOUS
<1>1. Mcp!TypeOK
  BY McpCount DEF McpInv, McpType, StampType, Mcp!TypeOK
<1>2. Mcp!BudgetKept
  <2>1. \A t \in 0..MaxNow : t \in Nat
    BY McpConstants
  <2> QED BY <2>1, McpCount DEF McpInv, Budgets, RanOf, Mcp!BudgetKept
<1> QED BY <1>1, <1>2 DEF McpInv, SessionInv, StampType, Mcp!SimulatesForKnown

(* Steps that touch neither the limiter nor who is between its locks. *)
LEMMA LimiterKept ==
    ASSUME McpInv, UNCHANGED <<global, perClient, now, ran, transport>>, InFlight' = InFlight,
           issued' \in Nat, issued <= issued'
    PROVE  (StampType /\ Stamped /\ Budgets)'
<1>1. StampType'
  BY DEF McpInv, McpType, StampType
<1>2. Stamped'
  <2>1. \A s : RanSince(ran, s)' = RanSince(ran, s) /\ Since(global, s)' = Since(global, s)
    BY DEF RanSince, Since
  <2>2. \A s : \A c \in Clients : /\ RanSince(RanOf(c), s)' = RanSince(RanOf(c), s)
                                  /\ Since(perClient[c], s)' = Since(perClient[c], s)
    BY DEF RanSince, Since, RanOf
  <2> QED BY <2>1, <2>2 DEF McpInv, Stamped
<1>3. Budgets'
  BY DEF McpInv, Budgets, RanOf, Mcp!During
<1> QED BY <1>1, <1>2, <1>3

(* A call in progress changes where it is; the others stay. *)
LEMMA HandlerMoves ==
    ASSUME McpInv, NEW h \in Handlers, NEW v \in {Mcp!Idle} \cup Call, handler' = [handler EXCEPT ![h] = v],
           v.pc # "counted", handler[h].pc # "counted"
    PROVE  InFlight' = InFlight
BY DEF McpInv, McpType, InFlight

LEMMA SessionsKeep ==
    ASSUME McpInv, NEW h \in Handlers, UNCHANGED <<transport, sessions, issued, held, ended, answer>>,
           NEW v \in {Mcp!Idle} \cup Call, handler' = [handler EXCEPT ![h] = v],
           v.pc # "idle" => (auth_token => v.req.token) /\ (transport = "http" => v.req.session \in 1..issued)
    PROVE  SessionInv' /\ handler' \in [Handlers -> {Mcp!Idle} \cup Call]
<1>1. handler' \in [Handlers -> {Mcp!Idle} \cup Call]
  BY DEF McpInv, McpType
<1>2. \A g \in Handlers : handler'[g] = IF g = h THEN v ELSE handler[g]
  BY DEF McpInv, McpType
<1> QED BY <1>1, <1>2 DEF McpInv, SessionInv, Mcp!SessionsHonest

(* handle_http_request, serve_io and handle *)

LEMMA ReceiveKeeps ==
    ASSUME McpInv, NEW r \in Mcp!Requests, NEW h \in Handlers, Mcp!Receive(h, r) PROVE McpInv'
<1> DEFINE v == [pc |-> "tool", req |-> [client |-> r.client, session |-> r.session, token |-> r.token]]
<1>1. PICK c \in Clients : r \in [client : {c}, origin : BOOLEAN, session : {0, held[c]}, version : Mcp!Versions,
                               token : BOOLEAN, method : Mcp!Methods, id : BOOLEAN]
  BY DEF Mcp!Requests
<1>2. r.client \in Clients /\ r.session \in Nat /\ r.token \in BOOLEAN /\ r.session <= issued
  BY <1>1 DEF McpInv, McpType
<1>3. v \in Call /\ v.pc = "tool" /\ v.req.token = r.token /\ v.req.session = r.session
  BY <1>2 DEF Call
<1>4. auth_token => r.token
  BY DEF Mcp!Receive, Mcp!Dispatch, Mcp!authenticated
<1>5. transport = "http" => r.session \in 1..issued
  <2>1. transport = "http" => r.session \in sessions
    BY DEF Mcp!Receive, Mcp!Refusal, Mcp!Dispatch, Mcp!session_valid
  <2> QED BY <2>1 DEF McpInv, McpType
<1>6. /\ handler[h].pc = "idle" /\ handler' = [handler EXCEPT ![h] = v]
      /\ UNCHANGED <<transport, sessions, issued, held, ended, answer, global, perClient, now, ran>>
  BY DEF Mcp!Receive, Mcp!limiter
<1> HIDE DEF v
<1>7. SessionInv' /\ handler' \in [Handlers -> {Mcp!Idle} \cup Call]
  BY <1>3, <1>4, <1>5, <1>6, SessionsKeep
<1>8. InFlight' = InFlight
  BY <1>3, <1>6, HandlerMoves
<1>9. McpType'
  BY <1>6, <1>7 DEF McpInv, McpType
<1>10. (StampType /\ Stamped /\ Budgets)'
  BY <1>6, <1>8, LimiterKept DEF McpInv, McpType
<1> QED BY <1>7, <1>9, <1>10 DEF McpInv

LEMMA InitializeKeeps == ASSUME McpInv, NEW r \in Mcp!Requests, Mcp!Initialize(r) PROVE McpInv'
<1>1. PICK c \in Clients : r \in [client : {c}, origin : BOOLEAN, session : {0, held[c]}, version : Mcp!Versions,
                               token : BOOLEAN, method : Mcp!Methods, id : BOOLEAN]
  BY DEF Mcp!Requests
<1>2. r.client = c
  BY <1>1
<1>3. /\ UNCHANGED <<transport, ended, handler, global, perClient, now, ran>>
      /\ answer'.first
      /\ \/ UNCHANGED <<sessions, issued, held>>
         \/ /\ issued' = issued + 1 /\ sessions' = sessions \cup {issued + 1}
            /\ held' = [held EXCEPT ![c] = issued + 1]
  BY <1>2 DEF Mcp!Initialize, Mcp!limiter, Mcp!Answer
<1>4. issued' \in Nat /\ issued <= issued'
  BY <1>3 DEF McpInv, McpType
<1>5. McpType' /\ SessionInv'
  <2>1. CASE UNCHANGED <<sessions, issued, held>>
    BY <1>3, <2>1 DEF McpInv, McpType, SessionInv, Mcp!SessionsHonest
  <2>2. CASE /\ issued' = issued + 1 /\ sessions' = sessions \cup {issued + 1}
             /\ held' = [held EXCEPT ![c] = issued + 1]
    <3>1. 1..issued' = (1..issued) \cup {issued + 1} /\ issued + 1 \notin ended /\ issued \in Nat
      BY <2>2 DEF McpInv, McpType
    <3>2. held' \in [Clients -> Nat] /\ \A d \in Clients : held'[d] <= issued'
      <4>1. \A d \in Clients : held'[d] = IF d = c THEN issued + 1 ELSE held[d]
        BY <2>2 DEF McpInv, McpType
      <4>2. \A d \in Clients : held[d] \in Nat /\ held[d] <= issued
        BY DEF McpInv, McpType
      <4>3. held' \in [Clients -> Nat]
        BY <2>2, <3>1 DEF McpInv, McpType
      <4> QED BY <2>2, <3>1, <4>1, <4>2, <4>3
    <3>3. sessions' \subseteq 1..issued' /\ ended' \subseteq 1..issued' /\ issued' \in Nat
      BY <1>3, <1>4, <2>2, <3>1 DEF McpInv, McpType
    <3>4. McpType'
      BY <1>3, <3>2, <3>3 DEF McpInv, McpType
    <3>5. 1..issued' \subseteq sessions' \cup ended' /\ sessions' \cap ended' = {}
      BY <1>3, <2>2, <3>1 DEF McpInv, SessionInv
    <3>6. \A h \in Handlers : handler'[h].pc # "idle" =>
            /\ auth_token => handler'[h].req.token
            /\ transport' = "http" => handler'[h].req.session \in 1..issued'
      BY <1>3, <3>1 DEF McpInv, SessionInv
    <3>7. Mcp!SessionsHonest'
      BY <1>3 DEF Mcp!SessionsHonest
    <3> QED BY <3>4, <3>5, <3>6, <3>7 DEF SessionInv
  <2> QED BY <1>3, <2>1, <2>2
<1>6. (StampType /\ Stamped /\ Budgets)'
  BY <1>3, <1>4, LimiterKept DEF InFlight
<1> QED BY <1>5, <1>6 DEF McpInv

LEMMA RespondKeeps == ASSUME McpInv, NEW r \in Mcp!Requests, Mcp!Respond(r) PROVE McpInv'
<1>1. PICK c \in Clients : r \in [client : {c}, origin : BOOLEAN, session : {0, held[c]}, version : Mcp!Versions,
                               token : BOOLEAN, method : Mcp!Methods, id : BOOLEAN]
  BY DEF Mcp!Requests
<1>2. r.session \in 0..issued
  BY <1>1 DEF McpInv, McpType
<1> DEFINE st == IF Mcp!Refusal(r) # "none" THEN Mcp!Refusal(r) ELSE Mcp!Dispatch(r)
<1>3. /\ UNCHANGED <<transport, sessions, issued, held, ended, handler, global, perClient, now, ran>>
      /\ answer'.session = r.session /\ answer'.status = st
      /\ answer'.first = (r.method = "initialize") /\ answer'.late = (r.session \in ended)
  BY DEF Mcp!Respond, Mcp!Answer, Mcp!limiter
<1>4. ASSUME transport = "http", r.method # "initialize"
      PROVE  /\ st = "404" => r.session \in ended
             /\ r.session \in ended \/ r.session = 0 => st \in {"400", "403", "404"}
  <2>1. r.session \in sessions <=> r.session \in 1..issued /\ r.session \notin ended
    BY <1>2 DEF McpInv, McpType, SessionInv
  <2>2. Mcp!Dispatch(r) # "404"
    BY DEF Mcp!Dispatch
  <2>3. Mcp!Refusal(r) = IF ~r.origin THEN "403"
                         ELSE IF r.session = 0 THEN "400"
                         ELSE IF r.session \notin sessions THEN "404"
                         ELSE IF r.version = "unsupported" THEN "400" ELSE "none"
    BY <1>4 DEF Mcp!Refusal, Mcp!session_valid
  <2> QED BY <1>2, <2>1, <2>2, <2>3
<1> HIDE DEF st
<1>5. McpType'
  BY <1>3 DEF McpInv, McpType
<1>6. Mcp!SessionsHonest'
  BY <1>3, <1>4 DEF Mcp!SessionsHonest
<1>7. SessionInv'
  BY <1>3, <1>6 DEF McpInv, SessionInv
<1>8. (StampType /\ Stamped /\ Budgets)'
  BY <1>3, LimiterKept DEF McpInv, McpType, InFlight
<1> QED BY <1>5, <1>7, <1>8 DEF McpInv

LEMMA DeliverKeeps == ASSUME McpInv, Mcp!Deliver PROVE McpInv'
<1>1. /\ UNCHANGED <<transport, sessions, issued, held, ended, handler, global, perClient, now, ran>>
      /\ answer'.first
  BY DEF Mcp!Deliver, Mcp!limiter, Mcp!NoAnswer
<1>2. McpType' /\ SessionInv'
  BY <1>1 DEF McpInv, McpType, SessionInv, Mcp!SessionsHonest
<1>3. (StampType /\ Stamped /\ Budgets)'
  BY <1>1, LimiterKept DEF McpInv, McpType, InFlight
<1> QED BY <1>2, <1>3 DEF McpInv

LEMMA DeleteKeeps == ASSUME McpInv, NEW c \in Clients, Mcp!Delete(c) PROVE McpInv'
<1>1. /\ UNCHANGED <<transport, issued, held, handler, answer, global, perClient, now, ran>>
      /\ sessions' = sessions \ {held[c]} /\ ended' = ended \cup {held[c]} /\ held[c] \in sessions
  BY DEF Mcp!Delete, Mcp!limiter
<1>2. McpType'
  BY <1>1 DEF McpInv, McpType
<1>3. SessionInv'
  BY <1>1 DEF McpInv, McpType, SessionInv, Mcp!SessionsHonest
<1>4. (StampType /\ Stamped /\ Budgets)'
  BY <1>1, LimiterKept DEF McpInv, McpType, InFlight
<1> QED BY <1>2, <1>3, <1>4 DEF McpInv

(* try_consume *)

LEMMA PartCount ==
    ASSUME NEW S, IsFiniteSet(S), NEW T \in SUBSET S
    PROVE  IsFiniteSet(T) /\ Cardinality(T) \in Nat /\ Cardinality(S) \in Nat /\ Cardinality(T) <= Cardinality(S)
BY FS_Subset, FS_CardinalityType

LEMMA OneMore ==
    ASSUME NEW S, IsFiniteSet(S), NEW e, e \notin S
    PROVE  IsFiniteSet(S \cup {e}) /\ Cardinality(S \cup {e}) = Cardinality(S) + 1 /\ Cardinality(S) \in Nat
BY FS_AddElement, FS_CardinalityType

LEMMA PushedFresh ==
    ASSUME NEW S, IsFiniteSet(S)
    PROVE  \E n \in Nat : <<now, n>> \notin S /\ Mcp!Pushed(S) = S \cup {<<now, n>>}
<1> DEFINE c == Cardinality(S)
           f == [n \in 1..(c + 1) |-> <<now, n>>]
<1>1. c \in Nat
  BY FS_CardinalityType
<1> HIDE DEF c
<1>2. \E n \in 1..(c + 1) : <<now, n>> \notin S
  <2> SUFFICES ASSUME \A n \in 1..(c + 1) : <<now, n>> \in S PROVE FALSE
    OBVIOUS
  <2>1. f \in Injection(1..(c + 1), S)
    BY DEF Injection, IsInjective
  <2>2. Cardinality(1..(c + 1)) <= c
    BY <2>1, FS_Injection DEF c
  <2>3. Cardinality(1..(c + 1)) = c + 1
    BY <1>1, FS_Interval
  <2> QED BY <1>1, <2>2, <2>3
<1>3. PICK n \in 1..(c + 1) : <<now, n>> \notin S /\ n = CHOOSE m \in 1..(c + 1) : <<now, m>> \notin S
  BY <1>2
<1>4. Mcp!Pushed(S) = S \cup {<<now, n>>}
  BY <1>3, McpCount DEF Mcp!Pushed, c
<1>5. n \in Nat /\ <<now, n>> \notin S
  BY <1>1, <1>3
<1> QED BY <1>4, <1>5, Zenon

(* Entries in the window are kept by retain, and a new one counts from     *)
(* every moment up to now.                                                 *)
LEMMA RecentKeeps ==
    ASSUME McpInv, NEW S \in SUBSET Stamp, IsFiniteSet(S)
    PROVE  /\ Mcp!Recent(S) \in SUBSET S /\ IsFiniteSet(Mcp!Recent(S))
           /\ \A s \in 0..now : now - s < Window => Since(Mcp!Recent(S), s) = Since(S, s)
<1>1. Mcp!Recent(S) \in SUBSET S
  BY DEF Mcp!Recent
<1>2. IsFiniteSet(Mcp!Recent(S))
  BY <1>1, FS_Subset
<1>3. \A s \in 0..now : now - s < Window => Since(Mcp!Recent(S), s) = Since(S, s)
  <2> TAKE s \in 0..now
  <2>1. now \in Nat /\ Window \in Nat
    BY McpConstants DEF McpInv, McpType
  <2>2. \A e \in S : e[1] \in Nat
    BY DEF Stamp
  <2>3. ASSUME now - s < Window, NEW e \in S, e[1] >= s PROVE now - e[1] < Window
    BY <2>1, <2>2, <2>3
  <2> QED BY <2>3 DEF Since, Mcp!Recent
<1> QED BY <1>1, <1>2, <1>3

LEMMA PushedCounts ==
    ASSUME McpInv, NEW S \in SUBSET Stamp, IsFiniteSet(S)
    PROVE  /\ Mcp!Pushed(S) \in SUBSET Stamp /\ IsFiniteSet(Mcp!Pushed(S))
           /\ Cardinality(Mcp!Pushed(S)) = Cardinality(S) + 1
           /\ \A s \in 0..now : Cardinality(Since(Mcp!Pushed(S), s)) = Cardinality(Since(S, s)) + 1
<1>1. PICK n \in Nat : <<now, n>> \notin S /\ Mcp!Pushed(S) = S \cup {<<now, n>>}
  BY PushedFresh
<1>2. now \in Nat
  BY McpConstants DEF McpInv, McpType
<1>3. Mcp!Pushed(S) \in SUBSET Stamp
  BY <1>1, <1>2 DEF Stamp
<1>4. IsFiniteSet(Mcp!Pushed(S)) /\ Cardinality(Mcp!Pushed(S)) = Cardinality(S) + 1
  BY <1>1, OneMore
<1>5. ASSUME NEW s \in 0..now PROVE Cardinality(Since(Mcp!Pushed(S), s)) = Cardinality(Since(S, s)) + 1
  <2>1. Since(Mcp!Pushed(S), s) = Since(S, s) \cup {<<now, n>>}
    <3>1. <<now, n>>[1] >= s
      BY <1>2
    <3> QED BY <1>1, <3>1 DEF Since
  <2>2. <<now, n>> \notin Since(S, s)
    BY <1>1 DEF Since
  <2>3. Since(S, s) \in SUBSET S
    BY DEF Since
  <2>4. IsFiniteSet(Since(S, s))
    BY <2>3, PartCount
  <2> QED BY <2>1, <2>2, <2>4, OneMore
<1> QED BY <1>3, <1>4, <1>5

LEMMA InFlightCount == ASSUME McpInv PROVE IsFiniteSet(InFlight) /\ Cardinality(InFlight) \in Nat
<1>1. InFlight \in SUBSET Handlers
  BY DEF InFlight
<1> QED BY <1>1, PartCount, McpConstants

LEMMA RanCount ==
    ASSUME McpInv, NEW s
    PROVE  /\ Cardinality(RanSince(ran, s)) \in Nat /\ Cardinality(Since(global, s)) \in Nat
           /\ IsFiniteSet(RanSince(ran, s)) /\ Cardinality(Since(global, s)) <= global_limit_per_min
           /\ \A c \in Clients : /\ Cardinality(RanSince(RanOf(c), s)) \in Nat
                                 /\ Cardinality(Since(perClient[c], s)) \in Nat
                                 /\ IsFiniteSet(RanSince(RanOf(c), s))
<1>1. RanSince(ran, s) \in SUBSET ran /\ Since(global, s) \in SUBSET global
  BY DEF RanSince, Since
<1>2. \A c \in Clients : RanSince(RanOf(c), s) \in SUBSET ran /\ Since(perClient[c], s) \in SUBSET perClient[c]
  BY DEF RanSince, RanOf, Since
<1>3. IsFiniteSet(ran) /\ IsFiniteSet(global) /\ \A c \in Clients : IsFiniteSet(perClient[c])
  BY DEF McpInv, StampType
<1>4. Cardinality(RanSince(ran, s)) \in Nat /\ IsFiniteSet(RanSince(ran, s))
  BY <1>1, <1>3, PartCount
<1>5. Cardinality(Since(global, s)) \in Nat /\ Cardinality(Since(global, s)) <= Cardinality(global) /\ Cardinality(global) \in Nat
  BY <1>1, <1>3, PartCount
<1>6. ASSUME NEW c \in Clients
      PROVE  /\ Cardinality(RanSince(RanOf(c), s)) \in Nat
             /\ Cardinality(Since(perClient[c], s)) \in Nat
             /\ IsFiniteSet(RanSince(RanOf(c), s))
  <2>1. Cardinality(RanSince(RanOf(c), s)) \in Nat /\ IsFiniteSet(RanSince(RanOf(c), s))
    BY <1>2, <1>3, PartCount
  <2>2. Cardinality(Since(perClient[c], s)) \in Nat
    BY <1>2, <1>3, PartCount
  <2> QED BY <2>1, <2>2
<1> QED BY <1>4, <1>5, <1>6, McpConstants DEF McpInv, StampType

LEMMA ReadOrSimulateKeeps ==
    ASSUME McpInv, NEW h \in Handlers, Mcp!ReadTool(h) \/ Mcp!Simulate(h) PROVE McpInv'
<1>1. /\ handler[h].pc # "counted" /\ handler' = [handler EXCEPT ![h] = Mcp!Idle]
      /\ UNCHANGED <<transport, sessions, issued, held, ended, answer, global, perClient, now, ran>>
  BY DEF Mcp!ReadTool, Mcp!Simulate, Mcp!limiter
<1>2. Mcp!Idle.pc = "idle" /\ Mcp!Idle \in {Mcp!Idle} \cup Call
  BY DEF Mcp!Idle
<1>3. SessionInv' /\ handler' \in [Handlers -> {Mcp!Idle} \cup Call]
  BY <1>1, <1>2, SessionsKeep
<1>4. InFlight' = InFlight
  BY <1>1, <1>2, HandlerMoves
<1>5. McpType'
  BY <1>1, <1>3 DEF McpInv, McpType
<1>6. (StampType /\ Stamped /\ Budgets)'
  BY <1>1, <1>4, LimiterKept DEF McpInv, McpType
<1> QED BY <1>3, <1>5, <1>6 DEF McpInv

LEMMA BusyIsCall ==
    ASSUME McpInv, NEW h \in Handlers, handler[h].pc # "idle"
    PROVE  /\ handler[h] \in Call /\ handler[h].req \in [client : Clients, session : Nat, token : BOOLEAN]
           /\ auth_token => handler[h].req.token
           /\ transport = "http" => handler[h].req.session \in 1..issued
           /\ \A p \in {"tool", "counted", "simulating"} :
                /\ [handler[h] EXCEPT !.pc = p] \in Call /\ [handler[h] EXCEPT !.pc = p].pc = p
                /\ [handler[h] EXCEPT !.pc = p].req = handler[h].req
<1>1. handler[h] \in Call
  BY DEF McpInv, McpType, Mcp!Idle
<1> QED BY <1>1 DEF Call, McpInv, SessionInv

LEMMA TakeGlobalKeeps == ASSUME McpInv, NEW h \in Handlers, Mcp!TakeGlobal(h) PROVE McpInv'
<1>1. /\ handler[h].pc = "tool"
      /\ UNCHANGED <<transport, sessions, issued, held, ended, answer, perClient, now, ran>>
  BY DEF Mcp!TakeGlobal
<1> DEFINE recent == Mcp!Recent(global)
<1>2. global \in SUBSET Stamp /\ IsFiniteSet(global) /\ Cardinality(global) <= global_limit_per_min
  BY DEF McpInv, StampType
<1>3. /\ recent \in SUBSET global /\ IsFiniteSet(recent)
      /\ \A s \in 0..now : now - s < Window => Since(recent, s) = Since(global, s)
  BY <1>2, RecentKeeps
<1>4. recent \in SUBSET Stamp /\ Cardinality(recent) \in Nat /\ Cardinality(recent) <= Cardinality(global) /\ Cardinality(global) \in Nat
  BY <1>2, <1>3, PartCount
<1>5. \A s : RanSince(ran, s)' = RanSince(ran, s)
  BY <1>1 DEF RanSince
<1>6. \A s : \A c \in Clients : /\ RanSince(RanOf(c), s)' = RanSince(RanOf(c), s)
                                /\ Since(perClient[c], s)' = Since(perClient[c], s)
  BY <1>1 DEF RanSince, RanOf, Since
<1>7. Budgets'
  BY <1>1 DEF McpInv, Budgets, RanOf, Mcp!During
<1>8. CASE Mcp!HasRoom(global, global_limit_per_min)
  <2> DEFINE v == [handler[h] EXCEPT !.pc = "counted"]
  <2>1. global' = Mcp!Pushed(recent) /\ handler' = [handler EXCEPT ![h] = v]
    BY <1>8 DEF Mcp!TakeGlobal
  <2>2. /\ v \in Call /\ v.pc = "counted" /\ v.req = handler[h].req
        /\ (auth_token => v.req.token) /\ (transport = "http" => v.req.session \in 1..issued)
    BY <1>1, BusyIsCall
  <2> HIDE DEF v
  <2>3. SessionInv' /\ handler' \in [Handlers -> {Mcp!Idle} \cup Call]
    BY <1>1, <2>1, <2>2, SessionsKeep
  <2>4. McpType'
    BY <1>1, <2>3 DEF McpInv, McpType
  <2>5. /\ Mcp!Pushed(recent) \in SUBSET Stamp /\ IsFiniteSet(Mcp!Pushed(recent))
        /\ Cardinality(Mcp!Pushed(recent)) = Cardinality(recent) + 1
        /\ \A s \in 0..now : Cardinality(Since(Mcp!Pushed(recent), s)) = Cardinality(Since(recent, s)) + 1
    BY <1>3, <1>4, PushedCounts
  <2>6. Cardinality(recent) < global_limit_per_min
    BY <1>8, McpCount DEF Mcp!HasRoom
  <2>7. Cardinality(Mcp!Pushed(recent)) <= global_limit_per_min
    BY <1>4, <2>5, <2>6, McpConstants
  <2>8. StampType'
    BY <1>1, <2>1, <2>5, <2>7 DEF McpInv, StampType
  <2>9. h \notin InFlight /\ InFlight' = InFlight \cup {h}
    BY <1>1, <2>1, <2>2 DEF InFlight, McpInv, McpType
  <2>10. Cardinality(InFlight') = Cardinality(InFlight) + 1 /\ Cardinality(InFlight) \in Nat
    BY <2>9, InFlightCount, OneMore
  <2>11. ASSUME NEW s \in 0..now, now - s < Window
         PROVE  /\ Cardinality(RanSince(ran, s)) + Cardinality(InFlight') <= Cardinality(Since(Mcp!Pushed(recent), s))
                /\ \A c \in Clients : Cardinality(RanSince(RanOf(c), s)) <= Cardinality(Since(perClient[c], s))
    <3>1. /\ Cardinality(RanSince(ran, s)) + Cardinality(InFlight) <= Cardinality(Since(global, s))
          /\ \A c \in Clients : Cardinality(RanSince(RanOf(c), s)) <= Cardinality(Since(perClient[c], s))
      BY <2>11 DEF McpInv, Stamped
    <3>2. Cardinality(Since(Mcp!Pushed(recent), s)) = Cardinality(Since(global, s)) + 1
      BY <1>3, <2>5, <2>11
    <3> QED BY <2>10, <3>1, <3>2, RanCount
  <2>12. Stamped'
    <3>1. \A s : Since(global, s)' = Since(Mcp!Pushed(recent), s)
      BY <2>1 DEF Since
    <3> QED BY <1>1, <1>5, <1>6, <2>11, <3>1 DEF Stamped
  <2> QED BY <1>7, <2>3, <2>4, <2>8, <2>12 DEF McpInv
<1>9. CASE ~Mcp!HasRoom(global, global_limit_per_min)
  <2>1. global' = recent /\ handler' = [handler EXCEPT ![h] = Mcp!Idle]
    BY <1>9 DEF Mcp!TakeGlobal
  <2>2. Mcp!Idle.pc = "idle" /\ Mcp!Idle \in {Mcp!Idle} \cup Call
    BY DEF Mcp!Idle
  <2>3. SessionInv' /\ handler' \in [Handlers -> {Mcp!Idle} \cup Call]
    BY <1>1, <2>1, <2>2, SessionsKeep
  <2>4. InFlight' = InFlight
    BY <1>1, <2>1, <2>2, HandlerMoves
  <2>5. McpType'
    BY <1>1, <2>3 DEF McpInv, McpType
  <2>6. Cardinality(recent) <= global_limit_per_min
    BY <1>2, <1>4, McpConstants
  <2>7. StampType'
    BY <1>1, <1>3, <1>4, <2>1, <2>6 DEF McpInv, StampType
  <2>8. \A s \in 0..now : now - s < Window => Since(global, s)' = Since(global, s)
    <3>1. \A s : Since(global, s)' = Since(recent, s)
      BY <2>1 DEF Since
    <3> QED BY <1>3, <3>1
  <2>9. Stamped'
    BY <1>1, <1>5, <1>6, <2>4, <2>8 DEF McpInv, Stamped
  <2> QED BY <1>7, <2>3, <2>5, <2>7, <2>9 DEF McpInv
<1> QED BY <1>8, <1>9

LEMMA TakeClientKeeps == ASSUME McpInv, NEW h \in Handlers, Mcp!TakeClient(h) PROVE McpInv'
<1> DEFINE c == handler[h].req.client
           recent == Mcp!Recent(perClient[c])
<1>1. /\ handler[h].pc = "counted"
      /\ UNCHANGED <<transport, sessions, issued, held, ended, answer, global, now>>
  BY DEF Mcp!TakeClient
<1>2. c \in Clients /\ handler[h].req.session \in Nat /\ handler[h].req.token \in BOOLEAN
  BY <1>1, BusyIsCall
<1>3. /\ perClient[c] \in SUBSET Stamp /\ IsFiniteSet(perClient[c]) /\ Cardinality(perClient[c]) <= limit_per_min
      /\ perClient \in [Clients -> SUBSET Stamp]
  BY <1>2 DEF McpInv, StampType
<1>4. /\ recent \in SUBSET perClient[c] /\ IsFiniteSet(recent)
      /\ \A s \in 0..now : now - s < Window => Since(recent, s) = Since(perClient[c], s)
  BY <1>3, RecentKeeps
<1>5. /\ recent \in SUBSET Stamp /\ Cardinality(recent) \in Nat
      /\ Cardinality(recent) <= Cardinality(perClient[c]) /\ Cardinality(perClient[c]) \in Nat
  BY <1>3, <1>4, PartCount
<1>6. \A s : Since(global, s)' = Since(global, s)
  BY <1>1 DEF Since
<1>7. now \in Nat /\ h \in InFlight
  BY <1>1, McpConstants DEF McpInv, McpType, InFlight
<1>8. CASE Mcp!HasRoom(perClient[c], limit_per_min)
  <2> DEFINE v == [handler[h] EXCEPT !.pc = "simulating"]
             x == [client |-> c, at |-> now, nth |-> Cardinality(ran),
                   session |-> handler[h].req.session, token |-> handler[h].req.token]
             pushed == Mcp!Pushed(recent)
  <2>1. perClient' = [perClient EXCEPT ![c] = pushed] /\ handler' = [handler EXCEPT ![h] = v] /\ ran' = ran \cup {x}
    BY <1>8, McpCount DEF Mcp!TakeClient
  <2>2. /\ v \in Call /\ v.pc = "simulating" /\ v.req = handler[h].req
        /\ (auth_token => v.req.token) /\ (transport = "http" => v.req.session \in 1..issued)
    BY <1>1, BusyIsCall
  <2>3. IsFiniteSet(ran) /\ Cardinality(ran) \in Nat /\ ran \in SUBSET Run
    BY FS_CardinalityType DEF McpInv, StampType
  <2>4. /\ x \in Run /\ x.client = c /\ x.at = now /\ x.nth = Cardinality(ran)
        /\ (auth_token => x.token) /\ (transport = "http" => x.session \in 1..issued)
    BY <1>2, <1>7, <2>2, <2>3 DEF Run
  <2>5. x \notin ran
    <3>1. \A y \in ran : y.nth < Cardinality(ran)
      BY DEF McpInv, StampType
    <3> QED BY <2>3, <2>4, <3>1
  <2> HIDE DEF v, x
  <2>6. SessionInv' /\ handler' \in [Handlers -> {Mcp!Idle} \cup Call]
    BY <1>1, <2>1, <2>2, SessionsKeep
  <2>7. McpType'
    BY <1>1, <2>6 DEF McpInv, McpType
  <2>8. /\ pushed \in SUBSET Stamp /\ IsFiniteSet(pushed) /\ Cardinality(pushed) = Cardinality(recent) + 1
        /\ \A s \in 0..now : Cardinality(Since(pushed, s)) = Cardinality(Since(recent, s)) + 1
    BY <1>4, <1>5, PushedCounts
  <2>9. Cardinality(pushed) <= limit_per_min
    <3>1. Cardinality(recent) < limit_per_min
      BY <1>8, McpCount DEF Mcp!HasRoom
    <3> QED BY <1>5, <2>8, <3>1, McpConstants
  <2>10. IsFiniteSet(ran') /\ Cardinality(ran') = Cardinality(ran) + 1
    BY <2>1, <2>3, <2>5, OneMore
  <2>11. \A d \in Clients : perClient'[d] = IF d = c THEN pushed ELSE perClient[d]
    BY <1>3, <2>1
  <2>12. StampType'
    <3>1. perClient' \in [Clients -> SUBSET Stamp]
      BY <1>3, <2>1, <2>8
    <3>2. \A d \in Clients : IsFiniteSet(perClient'[d]) /\ Cardinality(perClient'[d]) <= limit_per_min
      BY <2>8, <2>9, <2>11 DEF McpInv, StampType
    <3>3. \A y \in ran' : y.nth < Cardinality(ran') /\ y.at <= now'
      <4>1. ASSUME NEW y \in ran PROVE y.nth < Cardinality(ran) + 1 /\ y.at <= now
        <5>1. y.nth \in Nat /\ y.nth < Cardinality(ran) /\ y.at <= now
          BY <2>3 DEF Run, McpInv, StampType
        <5> QED BY <2>3, <5>1
      <4>2. x.nth < Cardinality(ran) + 1 /\ x.at <= now
        BY <1>7, <2>3, <2>4
      <4> QED BY <1>1, <2>1, <2>10, <4>1, <4>2
    <3>4. \A y \in ran' : (auth_token => y.token) /\ (transport' = "http" => y.session \in 1..issued')
      BY <1>1, <2>1, <2>4 DEF McpInv, StampType
    <3>5. ran' \subseteq Run
      BY <2>1, <2>3, <2>4
    <3>6. global' \subseteq Stamp /\ IsFiniteSet(global') /\ Cardinality(global') <= global_limit_per_min
      BY <1>1 DEF McpInv, StampType
    <3> QED BY <2>10, <3>1, <3>2, <3>3, <3>4, <3>5, <3>6 DEF StampType
  <2>13. Cardinality(InFlight') + 1 = Cardinality(InFlight) /\ Cardinality(InFlight') \in Nat
    <3>1. h \notin InFlight' /\ InFlight = InFlight' \cup {h} /\ InFlight' \in SUBSET InFlight
      BY <1>7, <2>1, <2>2 DEF InFlight, McpInv, McpType
    <3>2. IsFiniteSet(InFlight')
      BY <3>1, InFlightCount, PartCount
    <3> HIDE DEF c
    <3>3. \A S : IsFiniteSet(S) /\ h \notin S => Cardinality(S \cup {h}) = Cardinality(S) + 1 /\ Cardinality(S) \in Nat
      BY OneMore
    <3> QED BY <3>1, <3>2, <3>3
  <2>14. ASSUME NEW s \in 0..now, now - s < Window
         PROVE  /\ Cardinality(RanSince(ran, s)') + Cardinality(InFlight') <= Cardinality(Since(global, s))
                /\ \A d \in Clients : Cardinality(RanSince(RanOf(d), s)') <= Cardinality(Since(perClient[d], s)')
    <3>1. /\ Cardinality(RanSince(ran, s)) + Cardinality(InFlight) <= Cardinality(Since(global, s))
          /\ \A d \in Clients : Cardinality(RanSince(RanOf(d), s)) <= Cardinality(Since(perClient[d], s))
      BY <2>14 DEF McpInv, Stamped
    <3>2. x.at >= s
      BY <1>7, <2>4
    <3>3. RanSince(ran, s)' = RanSince(ran, s) \cup {x} /\ x \notin RanSince(ran, s)
      BY <2>1, <2>5, <3>2 DEF RanSince
    <3>4. Cardinality(RanSince(ran, s)') = Cardinality(RanSince(ran, s)) + 1
      BY <3>3, RanCount, OneMore
    <3>5. Cardinality(RanSince(ran, s)') + Cardinality(InFlight') <= Cardinality(Since(global, s))
      BY <2>13, <3>1, <3>4, RanCount
    <3>6. ASSUME NEW d \in Clients PROVE Cardinality(RanSince(RanOf(d), s)') <= Cardinality(Since(perClient[d], s)')
      <4>1. CASE d = c
        <5>1. RanSince(RanOf(d), s)' = RanSince(RanOf(d), s) \cup {x} /\ x \notin RanSince(RanOf(d), s)
          BY <2>1, <2>4, <2>5, <3>2, <4>1 DEF RanSince, RanOf
        <5>2. Cardinality(RanSince(RanOf(d), s)') = Cardinality(RanSince(RanOf(d), s)) + 1
          BY <5>1, RanCount, OneMore
        <5>3. Since(perClient[d], s)' = Since(pushed, s)
          BY <2>11, <4>1 DEF Since
        <5>4. Cardinality(Since(pushed, s)) = Cardinality(Since(perClient[d], s)) + 1
          BY <1>4, <2>8, <2>14, <4>1
        <5> QED BY <3>1, <5>2, <5>3, <5>4, RanCount
      <4>2. CASE d # c
        <5>1. RanSince(RanOf(d), s)' = RanSince(RanOf(d), s)
          BY <2>1, <2>4, <4>2 DEF RanSince, RanOf
        <5>2. Since(perClient[d], s)' = Since(perClient[d], s)
          BY <2>11, <4>2 DEF Since
        <5> QED BY <3>1, <5>1, <5>2
      <4> QED BY <4>1, <4>2
    <3> QED BY <3>5, <3>6
  <2>15. Stamped'
    BY <1>1, <1>6, <2>14 DEF Stamped
  <2>16. Budgets'
    <3> SUFFICES ASSUME NEW t \in Nat
                 PROVE  /\ Cardinality(Mcp!During(ran, t)') <= global_limit_per_min
                        /\ \A d \in Clients : Cardinality(Mcp!During(RanOf(d), t)') <= limit_per_min
      BY DEF Budgets
    <3>1. /\ Cardinality(Mcp!During(ran, t)) <= global_limit_per_min
          /\ \A d \in Clients : Cardinality(Mcp!During(RanOf(d), t)) <= limit_per_min
      BY DEF McpInv, Budgets
    <3>2. CASE ~(t <= now /\ now < t + Window)
      <4>1. Mcp!During(ran, t)' = Mcp!During(ran, t)
        BY <2>1, <2>4, <3>2 DEF Mcp!During
      <4>2. \A d \in Clients : Mcp!During(RanOf(d), t)' = Mcp!During(RanOf(d), t)
        BY <2>1, <2>4, <3>2 DEF Mcp!During, RanOf
      <4> QED BY <3>1, <4>1, <4>2
    <3>3. CASE t <= now /\ now < t + Window
      <4>1. t \in 0..now /\ now - t < Window
        BY <1>7, <3>3, McpConstants
      <4>2. Cardinality(RanSince(ran, t)') <= Cardinality(Since(global, t))
        <5>1. IsFiniteSet(RanSince(ran, t)')
          <6>1. RanSince(ran, t)' \in SUBSET ran'
            BY DEF RanSince
          <6> QED BY <2>10, <6>1, PartCount
        <5> HIDE DEF c, pushed, recent
        <5>2. Cardinality(RanSince(ran, t)') \in Nat
          BY <5>1, FS_CardinalityType
        <5> QED BY <2>13, <2>14, <4>1, <5>2, RanCount
      <4>3. Cardinality(Mcp!During(ran, t)') <= Cardinality(RanSince(ran, t)') /\ Cardinality(Mcp!During(ran, t)') \in Nat /\ Cardinality(RanSince(ran, t)') \in Nat
        <5>1. Mcp!During(ran, t)' \in SUBSET RanSince(ran, t)' /\ RanSince(ran, t)' \in SUBSET ran'
          <6>1. \A y \in ran' : y.at \in Nat
            BY <2>12 DEF StampType, Run
          <6> QED BY <6>1 DEF Mcp!During, RanSince
        <5>2. IsFiniteSet(RanSince(ran, t)')
          BY <2>10, <5>1, PartCount
        <5> QED BY <5>1, <5>2, PartCount
      <4>4. Cardinality(Mcp!During(ran, t)') <= global_limit_per_min
        BY <4>2, <4>3, RanCount, McpConstants
      <4>5. ASSUME NEW d \in Clients PROVE Cardinality(Mcp!During(RanOf(d), t)') <= limit_per_min
        <5>1. Mcp!During(RanOf(d), t)' \in SUBSET RanSince(RanOf(d), t)' /\ RanSince(RanOf(d), t)' \in SUBSET ran'
          <6>1. \A y \in ran' : y.at \in Nat
            BY <2>12 DEF StampType, Run
          <6> QED BY <6>1 DEF Mcp!During, RanSince, RanOf
        <5>2. IsFiniteSet(RanSince(RanOf(d), t)')
          BY <2>10, <5>1, PartCount
        <5>3. /\ Cardinality(Mcp!During(RanOf(d), t)') <= Cardinality(RanSince(RanOf(d), t)')
              /\ Cardinality(Mcp!During(RanOf(d), t)') \in Nat /\ Cardinality(RanSince(RanOf(d), t)') \in Nat
          BY <5>1, <5>2, PartCount
        <5>4. Cardinality(RanSince(RanOf(d), t)') <= Cardinality(Since(perClient[d], t)')
          BY <2>14, <4>1
        <5>5. /\ Cardinality(Since(perClient[d], t)') <= Cardinality(perClient'[d])
              /\ Cardinality(Since(perClient[d], t)') \in Nat /\ Cardinality(perClient'[d]) \in Nat
          <6>1. Since(perClient[d], t)' \in SUBSET perClient'[d]
            BY DEF Since
          <6>2. IsFiniteSet(perClient'[d])
            BY <2>12 DEF StampType
          <6> QED BY <6>1, <6>2, PartCount
        <5>6. Cardinality(perClient'[d]) <= limit_per_min
          BY <2>12 DEF StampType
        <5> QED BY <5>3, <5>4, <5>5, <5>6, McpConstants
      <4> QED BY <4>4, <4>5
    <3> QED BY <3>2, <3>3
  <2> QED BY <2>6, <2>7, <2>12, <2>15, <2>16 DEF McpInv
<1>9. CASE ~Mcp!HasRoom(perClient[c], limit_per_min)
  <2>1. perClient' = [perClient EXCEPT ![c] = recent] /\ handler' = [handler EXCEPT ![h] = Mcp!Idle] /\ ran' = ran
    BY <1>9 DEF Mcp!TakeClient
  <2>2. Mcp!Idle.pc = "idle" /\ Mcp!Idle \in {Mcp!Idle} \cup Call
    BY DEF Mcp!Idle
  <2>3. SessionInv' /\ handler' \in [Handlers -> {Mcp!Idle} \cup Call]
    BY <1>1, <2>1, <2>2, SessionsKeep
  <2>4. McpType'
    BY <1>1, <2>3 DEF McpInv, McpType
  <2>5. \A d \in Clients : perClient'[d] = IF d = c THEN recent ELSE perClient[d]
    BY <1>3, <2>1
  <2>6. Cardinality(recent) <= limit_per_min
    BY <1>3, <1>5, McpConstants
  <2>7. perClient' \in [Clients -> SUBSET Stamp]
    BY <1>3, <1>5, <2>1
  <2>8. \A d \in Clients : IsFiniteSet(perClient'[d]) /\ Cardinality(perClient'[d]) <= limit_per_min
    BY <1>4, <2>5, <2>6 DEF McpInv, StampType
  <2>9. StampType'
    BY <1>1, <2>1, <2>7, <2>8 DEF McpInv, StampType
  <2>10. InFlight' \in SUBSET InFlight
    BY <2>1, <2>2 DEF InFlight, McpInv, McpType
  <2>11. Cardinality(InFlight') <= Cardinality(InFlight) /\ Cardinality(InFlight') \in Nat /\ Cardinality(InFlight) \in Nat
    BY <2>10, InFlightCount, PartCount
  <2>12. ASSUME NEW s \in 0..now, now - s < Window
         PROVE  /\ Cardinality(RanSince(ran, s)) + Cardinality(InFlight') <= Cardinality(Since(global, s))
                /\ \A d \in Clients : Cardinality(RanSince(RanOf(d), s)) <= Cardinality(Since(perClient[d], s)')
    <3>1. /\ Cardinality(RanSince(ran, s)) + Cardinality(InFlight) <= Cardinality(Since(global, s))
          /\ \A d \in Clients : Cardinality(RanSince(RanOf(d), s)) <= Cardinality(Since(perClient[d], s))
      BY <2>12 DEF McpInv, Stamped
    <3>2. \A d \in Clients : Since(perClient[d], s)' = Since(perClient[d], s)
      <4>1. \A d \in Clients : Since(perClient[d], s)' = Since(IF d = c THEN recent ELSE perClient[d], s)
        BY <2>5 DEF Since
      <4> QED BY <1>4, <2>12, <4>1
    <3> QED BY <2>11, <3>1, <3>2, RanCount
  <2>13. Stamped'
    <3>1. \A s : RanSince(ran, s)' = RanSince(ran, s) /\ \A d \in Clients : RanSince(RanOf(d), s)' = RanSince(RanOf(d), s)
      BY <2>1 DEF RanSince, RanOf
    <3> QED BY <1>1, <1>6, <2>12, <3>1 DEF Stamped
  <2>14. Budgets'
    BY <2>1 DEF McpInv, Budgets, RanOf, Mcp!During
  <2> QED BY <2>3, <2>4, <2>9, <2>13, <2>14 DEF McpInv
<1> QED BY <1>8, <1>9

LEMMA TickKeeps == ASSUME McpInv, Mcp!Tick PROVE McpInv'
<1>1. /\ now < MaxNow /\ now' = now + 1 /\ \A h \in Handlers : handler[h].pc # "counted"
      /\ UNCHANGED <<transport, sessions, issued, held, ended, handler, answer, global, perClient, ran>>
  BY DEF Mcp!Tick
<1>2. McpType' /\ SessionInv'
  BY <1>1, McpConstants DEF McpInv, McpType, SessionInv, Mcp!SessionsHonest
<1>3. now \in Nat /\ now' \in Nat /\ Window \in Nat
  BY <1>1, McpConstants DEF McpInv, McpType
<1>4. \A x \in ran : x.at \in Nat /\ x.at <= now
  BY DEF McpInv, StampType, Run
<1>5. StampType'
  <2>1. \A x \in ran' : x.nth < Cardinality(ran') /\ x.at <= now'
    <3>1. \A x \in ran : x.at <= now + 1
      BY <1>3, <1>4
    <3> QED BY <1>1, <3>1 DEF McpInv, StampType
  <2> QED BY <1>1, <2>1 DEF McpInv, StampType
<1>6. Budgets'
  BY <1>1 DEF McpInv, Budgets, RanOf, Mcp!During
<1>7. InFlight = {} /\ InFlight' = {}
  BY <1>1 DEF InFlight
<1>8. Cardinality(InFlight) = 0 /\ Cardinality(InFlight') = 0
  BY <1>7, FS_EmptySet, Zenon
<1>9. ASSUME NEW s \in 0..now', now' - s < Window
      PROVE  /\ Cardinality(RanSince(ran, s)) + 0 <= Cardinality(Since(global, s))
             /\ \A c \in Clients : Cardinality(RanSince(RanOf(c), s)) <= Cardinality(Since(perClient[c], s))
  <2>1. CASE s \in 0..now
    <3>1. now - s < Window
      BY <1>1, <1>3, <1>9, <2>1
    <3> QED BY <1>8, <2>1, <3>1 DEF McpInv, Stamped
  <2>2. CASE s \notin 0..now
    <3>1. s > now /\ s \in Nat
      BY <1>1, <1>3, <2>2
    <3>2. RanSince(ran, s) = {} /\ \A c \in Clients : RanSince(RanOf(c), s) = {}
      BY <1>3, <1>4, <3>1 DEF RanSince, RanOf
    <3>3. Cardinality(RanSince(ran, s)) = 0 /\ \A c \in Clients : Cardinality(RanSince(RanOf(c), s)) = 0
      BY <3>2, FS_EmptySet, Zenon
    <3> QED BY <3>3, RanCount
  <2> QED BY <2>1, <2>2
<1>10. Stamped'
  <2>1. \A s : /\ RanSince(ran, s)' = RanSince(ran, s) /\ Since(global, s)' = Since(global, s)
               /\ \A c \in Clients : /\ RanSince(RanOf(c), s)' = RanSince(RanOf(c), s)
                                     /\ Since(perClient[c], s)' = Since(perClient[c], s)
    BY <1>1 DEF RanSince, RanOf, Since
  <2> QED BY <1>8, <1>9, <2>1 DEF Stamped
<1> QED BY <1>2, <1>5, <1>6, <1>10 DEF McpInv

LEMMA RestartKeeps == ASSUME McpInv, Mcp!Restart PROVE McpInv'
<1>1. /\ ended' = ended \cup sessions /\ sessions' = {} /\ handler' = [h \in Handlers |-> Mcp!Idle]
      /\ global' = {} /\ perClient' = [c \in Clients |-> {}] /\ ran' = {}
      /\ UNCHANGED <<transport, issued, held, answer, now>>
  BY DEF Mcp!Restart
<1>2. McpType'
  BY <1>1 DEF McpInv, McpType
<1>3. SessionInv'
  BY <1>1 DEF McpInv, McpType, SessionInv, Mcp!SessionsHonest, Mcp!Idle
<1>4. IsFiniteSet({}) /\ Cardinality({}) = 0
  BY FS_EmptySet
<1>5. StampType'
  BY <1>1, <1>4, McpConstants DEF StampType
<1>6. InFlight' = {} /\ \A c \in Clients : perClient'[c] = {}
  BY <1>1 DEF InFlight, Mcp!Idle
<1>7. Stamped'
  <2>1. \A s : RanSince(ran, s)' = {} /\ Since(global, s)' = {}
    BY <1>1 DEF RanSince, Since
  <2>2. \A s : \A c \in Clients : RanSince(RanOf(c), s)' = {} /\ Since(perClient[c], s)' = {}
    BY <1>1, <1>6 DEF RanSince, RanOf, Since
  <2>3. \A s : Cardinality(RanSince(ran, s)') = 0 /\ Cardinality(Since(global, s)') = 0
    BY <1>4, <2>1, Zenon
  <2>4. \A s : \A c \in Clients : Cardinality(RanSince(RanOf(c), s)') = 0 /\ Cardinality(Since(perClient[c], s)') = 0
    BY <1>4, <2>2, Zenon
  <2>5. Cardinality(InFlight') = 0
    BY <1>4, <1>6, Zenon
  <2> QED BY <2>3, <2>4, <2>5 DEF Stamped
<1>8. Budgets'
  <2>1. \A t : Mcp!During(ran, t)' = {} /\ \A c \in Clients : Mcp!During(RanOf(c), t)' = {}
    BY <1>1 DEF Mcp!During, RanOf
  <2> QED BY <1>4, <2>1, McpConstants DEF Budgets
<1> QED BY <1>2, <1>3, <1>5, <1>7, <1>8 DEF McpInv

LEMMA McpIdle == ASSUME McpInv, UNCHANGED mcpVars PROVE McpInv'
<1>1. UNCHANGED <<transport, sessions, issued, held, ended, handler, answer, global, perClient, now, ran>>
  BY DEF mcpVars
<1>2. McpType' /\ SessionInv'
  BY <1>1 DEF McpInv, McpType, SessionInv, Mcp!SessionsHonest
<1>3. (StampType /\ Stamped /\ Budgets)'
  BY <1>1, LimiterKept DEF McpInv, McpType, InFlight
<1> QED BY <1>2, <1>3 DEF McpInv

LEMMA McpStep == ASSUME McpInv, Mcp!Next PROVE McpInv'
BY InitializeKeeps, RespondKeeps, ReceiveKeeps, ReadOrSimulateKeeps, TakeGlobalKeeps, TakeClientKeeps, DeleteKeeps,
   DeliverKeeps, TickKeeps, RestartKeeps DEF Mcp!Next

(* The MCP server keeps its promises, for any number of clients and        *)
(* concurrent calls and any limits: no window holds more simulations than  *)
(* its budgets, calls between the two locks included, no tool runs without *)
(* token and session, and a session is served while and only while it      *)
(* lives (main.rs, rpc.rs).                                                *)
THEOREM McpHonestHolds == SideSpec => []McpHonest
<1> DEFINE FocusInv == focus = "mcp" => McpInv
<1>1. SideInit => FocusInv
  BY McpInitially DEF SideInit
<1>2. FocusInv /\ [SideNext]_<<focus, sideVars>> => FocusInv'
  BY McpStep, McpIdle DEF SideNext, sideVars
<1>3. FocusInv => McpHonest
  BY McpTrue DEF McpHonest
<1> QED BY <1>1, <1>2, <1>3, PTL DEF SideSpec

-----------------------------------------------------------------------------
(* Deep backfill *)

Holds(q, x) == \E k \in 1..Len(q) : q[k] = x

StoreInv ==
    /\ DOMAIN events \subseteq Ids
    /\ \A i \in DOMAIN events : events[i] \in Contents
    /\ Deep!ProjectionExact

RunType ==
    /\ deepPc \in {"idle", "read", "convert", "done"}
    /\ line \in 0..Len(Lines) /\ staging \in Seq(Ids) /\ next \in 1..(Len(staging) + 1)
    /\ batch \in Seq(Ids) /\ Len(batch) < batch_size
    /\ skipped \subseteq 1..(next - 1)

(* What the lines read so far hold is staged; what is past is stored, in   *)
(* the batch, skipped, or was pruned since.                                *)
Collected == \A l \in 1..line : \A i \in Deep!Wanted : Holds(Deep!Parsed(Lines[l]), i) => Holds(staging, i)
Handled(k) == staging[k] \in DOMAIN events \cup gone \/ Holds(batch, staging[k]) \/ k \in skipped
Converted == \A k \in 1..(next - 1) : Handled(k)
Phases ==
    /\ deepPc = "read" => next = 1 /\ batch = <<>>
    /\ deepPc \in {"convert", "done"} => line = Len(Lines)
    /\ deepPc = "done" => next = Len(staging) + 1 /\ batch = <<>>

DeepInv == StoreInv /\ RunType /\ Collected /\ Converted /\ Phases

LEMMA DeepConstants ==
    /\ batch_size \in Nat \ {0} /\ From \in Int /\ To \in Int
    /\ \A i \in Ids : Event[i].ledger \in Int
    /\ Lines \in Seq([shape : STRING, ids : Seq(Ids)])
BY SideAssumption DEF Deep!DeepAssumption

LEMMA AppendHolds ==
    ASSUME NEW E, NEW q \in Seq(E), NEW a \in E
    PROVE  /\ Append(q, a) \in Seq(E) /\ Holds(Append(q, a), a)
           /\ \A x : Holds(q, x) => Holds(Append(q, a), x)
<1>1. Append(q, a) \in Seq(E) /\ Len(Append(q, a)) = Len(q) + 1 /\ Len(q) \in Nat
  OBVIOUS
<1>2. Append(q, a)[Len(q) + 1] = a /\ \A k \in 1..Len(q) : Append(q, a)[k] = q[k]
  OBVIOUS
<1> HIDE DEF Holds
<1>3. Holds(Append(q, a), a)
  BY <1>1, <1>2 DEF Holds
<1>4. ASSUME NEW x, Holds(q, x) PROVE Holds(Append(q, a), x)
  <2>1. PICK k \in 1..Len(q) : q[k] = x
    BY <1>4 DEF Holds
  <2>2. k \in 1..Len(Append(q, a)) /\ Append(q, a)[k] = x
    BY <1>1, <1>2, <2>1
  <2> QED BY <2>2 DEF Holds
<1> QED BY <1>1, <1>3, <1>4

LEMMA ConcatHolds ==
    ASSUME NEW E, NEW p \in Seq(E), NEW q \in Seq(E)
    PROVE  p \o q \in Seq(E) /\ \A x : Holds(p, x) \/ Holds(q, x) => Holds(p \o q, x)
<1>1. p \o q \in Seq(E) /\ Len(p \o q) = Len(p) + Len(q) /\ Len(p) \in Nat /\ Len(q) \in Nat
  OBVIOUS
<1>2. ASSUME NEW k \in 1..Len(p) PROVE k \in 1..Len(p \o q) /\ (p \o q)[k] = p[k]
  BY <1>1
<1>3. ASSUME NEW k \in 1..Len(q) PROVE Len(p) + k \in 1..Len(p \o q) /\ (p \o q)[Len(p) + k] = q[k]
  BY <1>1
<1>4. \A x : Holds(p, x) => Holds(p \o q, x)
  BY <1>2 DEF Holds
<1>5. \A x : Holds(q, x) => Holds(p \o q, x)
  BY <1>3 DEF Holds
<1> QED BY <1>1, <1>4, <1>5

LEMMA NatSet ==
    ASSUME NEW S, 0 \in S, \A n \in Nat : n \in S => n + 1 \in S
    PROVE  Nat \subseteq S
<1> SUFFICES ASSUME ~(Nat \subseteq S) PROVE FALSE
  OBVIOUS
<1> DEFINE T == Nat \ S
<1>1. T \subseteq Nat /\ T # {}
  OBVIOUS
<1> HIDE DEF T
<1>2. PICK x \in T : \A y \in T : <<y, x>> \notin OpToRel(<, Nat)
  BY <1>1, NatLessThanWellFounded, WFMin
<1>3. x \in Nat /\ x \notin S
  BY DEF T
<1>4. x # 0 /\ x - 1 \in Nat /\ (x - 1) + 1 = x
  BY <1>3
<1>5. x - 1 \in T
  BY <1>3, <1>4 DEF T
<1>6. <<x - 1, x>> \in OpToRel(<, Nat)
  BY <1>3, <1>4 DEF OpToRel
<1> QED BY <1>2, <1>5, <1>6

(* Filter keeps every member of S, and nothing that was not there. *)
LEMMA FilterKeeps ==
    ASSUME NEW E, NEW s \in Seq(E), NEW S
    PROVE  /\ Deep!Filter(s, S) \in Seq(E)
           /\ \A j \in 1..Len(s) : s[j] \in S => Holds(Deep!Filter(s, S), s[j])
<1> DEFINE n == Len(s)
           Def(g, i) == IF i = 0 THEN <<>> ELSE IF s[i] \in S THEN Append(g[i - 1], s[i]) ELSE g[i - 1]
           f == CHOOSE f : f = [i \in 0..n |-> Def(f, i)]
<1>0. n \in Nat /\ \A i \in 1..n : s[i] \in E
  OBVIOUS
<1>1. Deep!Filter(s, S) = f[n]
  BY DEF Deep!Filter
<1> HIDE DEF n
<1>2. \E g : g = [i \in 0..n |-> Def(g, i)]
  <2> DEFINE Good(k, g) == g \in [0..k -> Seq(E)] /\ \A i \in 0..k : g[i] = Def(g, i)
             T == {k \in Nat : k <= n => \E g : Good(k, g)}
  <2>1. 0 \in T
    <3>1. Good(0, [i \in 0..0 |-> <<>>])
      OBVIOUS
    <3> QED BY <3>1
  <2> HIDE DEF Good
  <2>2. ASSUME NEW k \in Nat, k \in T PROVE k + 1 \in T
    <3> SUFFICES ASSUME k + 1 <= n PROVE \E g : Good(k + 1, g)
      OBVIOUS
    <3>1. PICK g : Good(k, g)
      BY <1>0, <2>2
    <3> DEFINE h == [i \in 0..(k + 1) |-> IF i = k + 1 THEN Def(g, i) ELSE g[i]]
    <3>2. k + 1 \in 1..n /\ s[k + 1] \in E /\ k + 1 # 0
      BY <1>0
    <3>3. Def(g, k + 1) \in Seq(E)
      <4>1. g[k] \in Seq(E)
        BY <3>1 DEF Good
      <4>2. (k + 1) - 1 = k
        OBVIOUS
      <4> QED BY <3>2, <4>1, <4>2
    <3>4. h \in [0..(k + 1) -> Seq(E)]
      BY <3>1, <3>3 DEF Good
    <3>5. ASSUME NEW i \in 0..(k + 1) PROVE h[i] = Def(h, i)
      <4>1. i # 0 => i - 1 \in 0..k /\ i - 1 \in 0..(k + 1) /\ i - 1 # k + 1
        OBVIOUS
      <4>2. i # 0 => h[i - 1] = g[i - 1]
        BY <4>1
      <4>3. Def(h, i) = Def(g, i)
        BY <4>2
      <4>4. i # k + 1 => i \in 0..k
        OBVIOUS
      <4>5. i # k + 1 => g[i] = Def(g, i)
        BY <3>1, <4>4 DEF Good
      <4> HIDE DEF Def
      <4> QED BY <4>3, <4>5
    <3>6. Good(k + 1, h)
      <4> HIDE DEF h, Def
      <4> QED BY <3>4, <3>5 DEF Good
    <3> QED BY <3>6
  <2>3. n \in T
    <3> HIDE DEF T
    <3> QED BY <1>0, <2>1, <2>2, NatSet
  <2>4. PICK g : Good(n, g)
    BY <1>0, <2>3
  <2>5. g = [i \in 0..n |-> Def(g, i)]
    <3> HIDE DEF Def
    <3> QED BY <2>4 DEF Good
  <2> QED BY <2>5
<1>3. f = [i \in 0..n |-> Def(f, i)]
  <2> HIDE DEF Def
  <2> QED BY <1>2
<1> HIDE DEF f
<1>4. \A i \in 0..n : f[i] = Def(f, i)
  <2> HIDE DEF Def
  <2>1. PICK g : g = f
    OBVIOUS
  <2>2. g = [i \in 0..n |-> Def(g, i)]
    BY <1>3, <2>1
  <2>3. \A i \in 0..n : g[i] = Def(g, i)
    BY <2>2
  <2> QED BY <2>1, <2>3
<1> DEFINE U == {k \in Nat : k <= n => f[k] \in Seq(E) /\ \A j \in 1..k : s[j] \in S => Holds(f[k], s[j])}
<1>5. 0 \in U
  <2>1. f[0] = <<>>
    BY <1>0, <1>4
  <2>2. f[0] \in Seq(E) /\ \A j \in 1..0 : FALSE
    BY <2>1
  <2> QED BY <2>2
<1>6. ASSUME NEW k \in Nat, k \in U PROVE k + 1 \in U
  <2> SUFFICES ASSUME k + 1 <= n
               PROVE  f[k + 1] \in Seq(E) /\ \A j \in 1..(k + 1) : s[j] \in S => Holds(f[k + 1], s[j])
    OBVIOUS
  <2>1. k + 1 \in 0..n /\ k + 1 \in 1..n /\ k + 1 # 0 /\ (k + 1) - 1 = k /\ k <= n
    BY <1>0
  <2>2. f[k] \in Seq(E) /\ \A j \in 1..k : s[j] \in S => Holds(f[k], s[j])
    BY <1>6, <2>1
  <2>3. f[k + 1] = IF s[k + 1] \in S THEN Append(f[k], s[k + 1]) ELSE f[k]
    BY <1>4, <2>1
  <2>4. s[k + 1] \in E
    BY <1>0, <2>1
  <2>5. \A j \in 1..(k + 1) : j = k + 1 \/ j \in 1..k
    OBVIOUS
  <2>6. PICK q \in Seq(E) : q = f[k]
    BY <2>2
  <2>7. PICK a \in E : a = s[k + 1]
    BY <2>4
  <2>8. /\ Append(q, a) \in Seq(E) /\ Holds(Append(q, a), a)
        /\ \A x : Holds(q, x) => Holds(Append(q, a), x)
    BY AppendHolds
  <2> HIDE DEF Holds, U, Def
  <2>9. CASE s[k + 1] \in S
    <3>1. f[k + 1] = Append(q, a)
      BY <2>3, <2>6, <2>7, <2>9
    <3>2. \A j \in 1..k : s[j] \in S => Holds(Append(q, a), s[j])
      BY <2>2, <2>6, <2>8
    <3>3. \A j \in 1..(k + 1) : s[j] \in S => Holds(Append(q, a), s[j])
      BY <2>5, <2>7, <2>8, <3>2
    <3> QED BY <2>8, <3>1, <3>3
  <2>10. CASE s[k + 1] \notin S
    <3>1. f[k + 1] = f[k]
      BY <2>3, <2>10
    <3>2. \A j \in 1..(k + 1) : s[j] \in S => Holds(f[k], s[j])
      BY <2>2, <2>5, <2>10
    <3> QED BY <2>2, <3>1, <3>2
  <2> QED BY <2>9, <2>10
<1>7. n \in U
  <2> HIDE DEF U
  <2> QED BY <1>0, <1>5, <1>6, NatSet
<1>8. f[n] \in Seq(E) /\ \A j \in 1..n : s[j] \in S => Holds(f[n], s[j])
  BY <1>0, <1>7
<1> QED BY <1>1, <1>8 DEF n

LEMMA ParsedType == ASSUME NEW l \in 1..Len(Lines) PROVE Deep!Parsed(Lines[l]) \in Seq(Ids)
<1>1. Lines[l] \in [shape : STRING, ids : Seq(Ids)]
  BY DeepConstants, ElementOfSeq
<1>2. Lines[l].ids \in Seq(Ids)
  BY <1>1
<1>3. Deep!Filter(Lines[l].ids, Deep!Complete) \in Seq(Ids)
  BY <1>2, FilterKeeps
<1> QED BY <1>2, <1>3 DEF Deep!Parsed

(* insert_events, upsert_events and retention's delete: the projections    *)
(* follow, and only a delete takes an event away.                          *)

LEMMA TransferRule ==
    /\ \A i : Deep!IsTransfer(i) <=> /\ Event[i].name \in {"transfer", "mint", "burn", "clawback"}
                                    /\ Event[i].contract \in Strkeys
                                    /\ Event[i].value \in {"decimal", "integer", "mapAmount"}
    /\ \A i : ~Deep!IsVertical(i)
BY DEF Deep!IsTransfer, Deep!IsVertical, Deep!HasAmount, Deep!default_contract_kind

LEMMA ProjectedRows ==
    Deep!ProjectionExact <=> DOMAIN transfers = {i \in DOMAIN events : Deep!IsTransfer(i)} /\ verticals = {}
BY TransferRule DEF Deep!ProjectionExact

LEMMA InsertKeeps ==
    ASSUME StoreInv, NEW b \in SUBSET Ids, NEW c \in Contents, Deep!InsertEvents(b, c) \/ Deep!UpsertEvents(b, c)
    PROVE  StoreInv' /\ DOMAIN events' = DOMAIN events \cup b
<1> DEFINE new == b \ DOMAIN events
<1>1. /\ transfers' = [i \in DOMAIN transfers \cup {j \in new : Deep!IsTransfer(j)} |->
                          IF i \in DOMAIN transfers THEN transfers[i] ELSE Deep!Transfer(i, c)]
      /\ verticals' = verticals
  BY TransferRule DEF Deep!InsertEvents, Deep!UpsertEvents, Deep!ProjectTransfers, Deep!ProjectVerticals,
                      Deep!NewOf
<1>2. DOMAIN events' = DOMAIN events \cup b /\ \A i \in DOMAIN events' : events'[i] \in Contents
  <2>1. CASE Deep!InsertEvents(b, c)
    BY <2>1 DEF Deep!InsertEvents, StoreInv
  <2>2. CASE Deep!UpsertEvents(b, c)
    BY <2>2 DEF Deep!UpsertEvents, StoreInv
  <2> QED BY <2>1, <2>2
<1>3. DOMAIN transfers' = DOMAIN transfers \cup {j \in new : Deep!IsTransfer(j)}
  BY <1>1
<1>4. DOMAIN transfers = {i \in DOMAIN events : Deep!IsTransfer(i)} /\ verticals = {}
  BY ProjectedRows DEF StoreInv
<1>5. DOMAIN transfers' = {i \in DOMAIN events' : Deep!IsTransfer(i)} /\ verticals' = {}
  BY <1>1, <1>2, <1>3, <1>4
<1>6. Deep!ProjectionExact'
  BY <1>5, TransferRule DEF Deep!ProjectionExact
<1> QED BY <1>2, <1>6 DEF StoreInv

LEMMA DeleteStored ==
    ASSUME StoreInv, NEW i0, Deep!DeleteEvents({i0})
    PROVE  StoreInv' /\ DOMAIN events' = DOMAIN events \ {i0}
<1>1. /\ events' = [i \in DOMAIN events \ {i0} |-> events[i]]
      /\ transfers' = [i \in DOMAIN transfers \ {i0} |-> transfers[i]]
      /\ verticals' = verticals \ {i0}
  BY DEF Deep!DeleteEvents, Deep!Restrict
<1>2. DOMAIN events' = DOMAIN events \ {i0} /\ DOMAIN transfers' = DOMAIN transfers \ {i0}
  BY <1>1
<1>3. \A i \in DOMAIN events' : events'[i] = events[i]
  BY <1>1
<1>4. DOMAIN transfers = {i \in DOMAIN events : Deep!IsTransfer(i)} /\ verticals = {}
  BY ProjectedRows DEF StoreInv
<1>5. DOMAIN transfers' = {i \in DOMAIN events' : Deep!IsTransfer(i)} /\ verticals' = {}
  BY <1>1, <1>2, <1>4
<1>6. Deep!ProjectionExact'
  BY <1>5, TransferRule DEF Deep!ProjectionExact
<1> QED BY <1>2, <1>3, <1>6 DEF StoreInv

LEMMA DeepInitially == Deep!Init => DeepInv
<1> SUFFICES ASSUME Deep!Init PROVE DeepInv
  OBVIOUS
<1>1. /\ events = [i \in {} |-> 0] /\ transfers = [i \in {} |-> 0] /\ verticals = {}
      /\ deepPc = "idle" /\ line = 0 /\ staging = <<>> /\ next = 1 /\ batch = <<>> /\ skipped = {}
  BY DEF Deep!Init, Deep!StoreInit
<1>2. DOMAIN events = {} /\ DOMAIN transfers = {}
  BY <1>1
<1>3. StoreInv
  BY <1>1, <1>2 DEF StoreInv, Deep!ProjectionExact
<1>4. Len(Lines) \in Nat
  BY DeepConstants
<1>5. RunType
  BY <1>1, <1>4, DeepConstants DEF RunType
<1>6. Collected /\ Converted /\ Phases
  BY <1>1 DEF Collected, Converted, Phases
<1> QED BY <1>3, <1>5, <1>6 DEF DeepInv

LEMMA DeepTrue == DeepInv => Deep!TypeOK /\ Deep!DoneMeansStored /\ Deep!ProjectionExact
<1> SUFFICES ASSUME DeepInv PROVE Deep!TypeOK /\ Deep!DoneMeansStored /\ Deep!ProjectionExact
  OBVIOUS
<1>1. Deep!ProjectionExact
  BY DEF DeepInv, StoreInv
<1>2. DOMAIN transfers \subseteq Ids /\ verticals \subseteq Ids
  BY <1>1 DEF DeepInv, StoreInv, Deep!ProjectionExact
<1>3. next \in Nat /\ skipped \subseteq 1..Len(staging)
  <2>1. next - 1 <= Len(staging) /\ Len(staging) \in Nat /\ next \in Nat
    BY DEF DeepInv, RunType
  <2>2. 1..(next - 1) \subseteq 1..Len(staging)
    BY <2>1
  <2> QED BY <2>1, <2>2 DEF DeepInv, RunType
<1>4. Deep!TypeOK
  BY <1>2, <1>3 DEF DeepInv, StoreInv, RunType, Deep!TypeOK
<1>5. ASSUME deepPc = "done", NEW l \in 1..Len(Lines), NEW i \in Ids \ gone, Holds(Deep!Parsed(Lines[l]), i),
             Event[i].ledger \in From..To, contract_ids = {} \/ Event[i].contract \in contract_ids
      PROVE  i \in DOMAIN events \/ \E k \in skipped : staging[k] = i
  <2>1. i \in Deep!Wanted
    BY <1>5, DeepConstants DEF Deep!Wanted
  <2>2. Holds(staging, i)
    BY <1>5, <2>1 DEF DeepInv, Phases, Collected
  <2>3. PICK k \in 1..Len(staging) : staging[k] = i
    BY <2>2 DEF Holds
  <2>4. k \in 1..(next - 1) /\ batch = <<>>
    BY <1>5, <2>3 DEF DeepInv, Phases, RunType
  <2>5. ~Holds(batch, i)
    BY <2>4 DEF Holds
  <2>6. staging[k] \in DOMAIN events \cup gone \/ Holds(batch, staging[k]) \/ k \in skipped
    BY <2>4 DEF DeepInv, Converted, Handled
  <2> QED BY <2>3, <2>5, <2>6
<1>6. Deep!DoneMeansStored
  BY <1>5 DEF Deep!DoneMeansStored, Holds
<1> QED BY <1>1, <1>4, <1>6

(* The other writers, and the retention that deletes beside the command.   *)

LEMMA PollOrRescanKeeps == ASSUME DeepInv, Deep!Poll \/ Deep!Rescan PROVE DeepInv'
<1>1. PICK b \in SUBSET Deep!Pollable, c \in Contents : Deep!InsertEvents(b, c) \/ Deep!UpsertEvents(b, c)
  BY DEF Deep!Poll, Deep!Rescan
<1>2. UNCHANGED <<deepPc, line, staging, next, batch, skipped, gone>>
  BY DEF Deep!Poll, Deep!Rescan, Deep!run
<1>3. b \in SUBSET Ids /\ StoreInv
  BY DEF Deep!Pollable, Deep!Complete, DeepInv
<1>4. StoreInv' /\ DOMAIN events' = DOMAIN events \cup b
  BY <1>1, <1>3, InsertKeeps
<1>5. RunType' /\ Phases'
  BY <1>2 DEF DeepInv, RunType, Phases
<1>6. Collected'
  BY <1>2 DEF DeepInv, Collected, Holds, Deep!Wanted, Deep!Parsed, Deep!Filter, Deep!Complete
<1>7. Converted'
  BY <1>2, <1>4 DEF DeepInv, Converted, Handled, Holds
<1> QED BY <1>4, <1>5, <1>6, <1>7 DEF DeepInv

LEMMA PruneKeeps == ASSUME DeepInv, Deep!Prune PROVE DeepInv'
<1>1. PICK i \in DOMAIN events : Deep!DeleteEvents({i}) /\ gone' = gone \cup {i}
  BY DEF Deep!Prune
<1>2. UNCHANGED <<deepPc, line, staging, next, batch, skipped>>
  BY DEF Deep!Prune, Deep!run
<1>3. StoreInv' /\ DOMAIN events' = DOMAIN events \ {i}
  BY <1>1, DeleteStored DEF DeepInv
<1>4. RunType' /\ Phases' /\ Collected'
  BY <1>2 DEF DeepInv, RunType, Phases, Collected, Holds
<1>5. Converted'
  BY <1>1, <1>2, <1>3 DEF DeepInv, Converted, Handled, Holds
<1> QED BY <1>3, <1>4, <1>5 DEF DeepInv

(* Start, and a run that stops anywhere. *)
LEMMA StartOrFailKeeps == ASSUME DeepInv, Deep!Start \/ Deep!Fail PROVE DeepInv'
<1>1. /\ UNCHANGED <<events, transfers, verticals>> /\ deepPc' \in {"read", "idle"}
      /\ line' = 0 /\ staging' = <<>> /\ next' = 1 /\ batch' = <<>> /\ skipped' = {}
  BY DEF Deep!Start, Deep!Fail, Deep!store
<1>2. StoreInv'
  BY <1>1 DEF DeepInv, StoreInv, Deep!ProjectionExact
<1>3. Len(Lines) \in Nat
  BY DeepConstants
<1>4. RunType'
  BY <1>1, <1>3, DeepConstants DEF RunType
<1>5. Collected' /\ Converted' /\ Phases'
  BY <1>1 DEF Collected, Converted, Phases
<1> QED BY <1>2, <1>4, <1>5 DEF DeepInv

LEMMA ReadLineKeeps == ASSUME DeepInv, Deep!ReadLine PROVE DeepInv'
<1> DEFINE l == line + 1
           wanted == Deep!Filter(Deep!Parsed(Lines[l]), Deep!Wanted)
<1>1. /\ deepPc = "read" /\ line < Len(Lines) /\ line' = l /\ staging' = staging \o wanted
      /\ UNCHANGED <<events, transfers, verticals, deepPc, next, batch, skipped, gone>>
  BY DEF Deep!ReadLine, Deep!store
<1>2. l \in 1..Len(Lines) /\ line \in Nat /\ line \in 0..Len(Lines) /\ staging \in Seq(Ids)
  BY <1>1 DEF DeepInv, RunType
<1> HIDE DEF l
<1>3. Deep!Parsed(Lines[l]) \in Seq(Ids)
  BY <1>2, ParsedType
<1>4. /\ wanted \in Seq(Ids)
      /\ \A j \in 1..Len(Deep!Parsed(Lines[l])) : Deep!Parsed(Lines[l])[j] \in Deep!Wanted
            => Holds(wanted, Deep!Parsed(Lines[l])[j])
  BY <1>3, FilterKeeps
<1>5. \A i \in Deep!Wanted : Holds(Deep!Parsed(Lines[l]), i) => Holds(wanted, i)
  <2> TAKE i \in Deep!Wanted
  <2> HAVE Holds(Deep!Parsed(Lines[l]), i)
  <2>1. PICK j \in 1..Len(Deep!Parsed(Lines[l])) : Deep!Parsed(Lines[l])[j] = i
    BY DEF Holds
  <2> QED BY <1>4, <2>1
<1> HIDE DEF wanted
<1>6. staging \o wanted \in Seq(Ids) /\ \A x : Holds(staging, x) \/ Holds(wanted, x) => Holds(staging \o wanted, x)
  BY <1>2, <1>4, ConcatHolds
<1>7. StoreInv'
  BY <1>1 DEF DeepInv, StoreInv, Deep!ProjectionExact
<1>8. next = 1 /\ batch = <<>>
  BY <1>1 DEF DeepInv, Phases
<1>9. RunType'
  <2>1. Len(staging \o wanted) \in Nat
    BY <1>6
  <2>2. 1 \in 1..(Len(staging \o wanted) + 1) /\ l \in 0..Len(Lines)
    BY <1>2, <2>1
  <2> QED BY <1>1, <1>6, <1>8, <2>2 DEF DeepInv, RunType
<1>10. Converted' /\ Phases'
  BY <1>1, <1>8 DEF Converted, Phases
<1>11. Collected'
  <2>1. \A m \in 1..l : m = l \/ m \in 1..line
    BY <1>2 DEF l
  <2>2. \A m \in 1..line : \A i \in Deep!Wanted : Holds(Deep!Parsed(Lines[m]), i) => Holds(staging, i)
    BY DEF DeepInv, Collected
  <2>3. \A m \in 1..l : \A i \in Deep!Wanted : Holds(Deep!Parsed(Lines[m]), i) => Holds(staging \o wanted, i)
    BY <1>5, <1>6, <2>1, <2>2
  <2>4. \A m \in 1..l : \A i \in Deep!Wanted : Holds(Deep!Parsed(Lines[m]), i) => Holds(staging, i)'
    BY <1>1, <2>3 DEF Holds
  <2> QED BY <1>1, <2>4 DEF Collected
<1> QED BY <1>7, <1>9, <1>10, <1>11 DEF DeepInv

LEMMA EndOfInputKeeps == ASSUME DeepInv, Deep!EndOfInput PROVE DeepInv'
<1>1. /\ deepPc = "read" /\ line = Len(Lines) /\ deepPc' = "convert"
      /\ UNCHANGED <<events, transfers, verticals, line, staging, next, batch, skipped, gone>>
  BY DEF Deep!EndOfInput, Deep!store
<1>2. StoreInv'
  BY <1>1 DEF DeepInv, StoreInv, Deep!ProjectionExact
<1>3. RunType' /\ Phases'
  BY <1>1 DEF DeepInv, RunType, Phases
<1>4. Collected' /\ Converted'
  BY <1>1 DEF DeepInv, Collected, Converted, Handled, Holds
<1> QED BY <1>2, <1>3, <1>4 DEF DeepInv

(* A flush stores everything it was given. *)
LEMMA FlushStores ==
    ASSUME StoreInv, NEW b \in Seq(Ids), Deep!Flush(b)
    PROVE  StoreInv' /\ DOMAIN events \subseteq DOMAIN events' /\ \A x : Holds(b, x) => x \in DOMAIN events'
<1>1. PICK c \in Contents : Deep!InsertEvents(Deep!Range(b), c)
  BY DEF Deep!Flush
<1>2. DOMAIN b = 1..Len(b) /\ \A k \in 1..Len(b) : b[k] \in Ids
  OBVIOUS
<1>3. Deep!Range(b) \in SUBSET Ids
  BY <1>2 DEF Deep!Range
<1>4. \A x : Holds(b, x) => x \in Deep!Range(b)
  BY <1>2 DEF Holds, Deep!Range
<1>5. StoreInv' /\ DOMAIN events' = DOMAIN events \cup Deep!Range(b)
  BY <1>1, <1>3, InsertKeeps
<1> QED BY <1>4, <1>5

LEMMA ConvertKeeps == ASSUME DeepInv, Deep!Convert PROVE DeepInv'
<1> DEFINE i == staging[next]
           b == Append(batch, i)
<1>1. /\ deepPc = "convert" /\ next <= Len(staging) /\ next' = next + 1
      /\ UNCHANGED <<deepPc, line, staging, skipped, gone>>
      /\ IF Deep!FlushDue(b) THEN Deep!Flush(b) /\ batch' = <<>>
         ELSE batch' = b /\ UNCHANGED <<events, transfers, verticals>>
  BY DEF Deep!Convert, Deep!store
<1>2. /\ next \in 1..Len(staging) /\ next' \in 1..(Len(staging) + 1) /\ staging \in Seq(Ids) /\ batch \in Seq(Ids)
      /\ StoreInv
  BY <1>1 DEF DeepInv, RunType
<1>3. i \in Ids
  BY <1>2
<1> HIDE DEF i
<1>4. b \in Seq(Ids) /\ Holds(b, i) /\ \A x : Holds(batch, x) => Holds(b, x)
  BY <1>2, <1>3, AppendHolds
<1>5. \A k \in 1..next : k = next \/ k \in 1..(next - 1)
  BY <1>2
<1>6. \A k \in 1..next : staging[k] \in DOMAIN events \cup gone \/ Holds(b, staging[k]) \/ k \in skipped
  <2>1. \A k \in 1..(next - 1) :
          staging[k] \in DOMAIN events \cup gone \/ Holds(batch, staging[k]) \/ k \in skipped
    BY DEF DeepInv, Converted, Handled
  <2> HIDE DEF b, Holds
  <2> QED BY <1>4, <1>5, <2>1 DEF i
<1> HIDE DEF b
<1>7. next' - 1 = next
  BY <1>1, <1>2
<1>8. /\ StoreInv' /\ batch' \in Seq(Ids) /\ Len(batch') < batch_size
      /\ \A k \in 1..next : staging[k] \in DOMAIN events' \cup gone \/ Holds(batch, staging[k])' \/ k \in skipped
  <2>1. CASE Deep!FlushDue(b)
    <3>1. Deep!Flush(b) /\ batch' = <<>>
      BY <1>1, <2>1
    <3>2. StoreInv' /\ DOMAIN events \subseteq DOMAIN events' /\ \A x : Holds(b, x) => x \in DOMAIN events'
      BY <1>2, <1>4, <3>1, FlushStores
    <3>3. batch' \in Seq(Ids) /\ Len(batch') < batch_size
      BY <3>1, DeepConstants
    <3>4. \A k \in 1..next : staging[k] \in DOMAIN events' \cup gone \/ k \in skipped
      BY <1>6, <3>2
    <3> QED BY <3>2, <3>3, <3>4
  <2>2. CASE ~Deep!FlushDue(b)
    <3>1. batch' = b /\ UNCHANGED <<events, transfers, verticals>>
      BY <1>1, <2>2
    <3>2. StoreInv'
      BY <1>2, <3>1 DEF StoreInv, Deep!ProjectionExact
    <3>3. Len(batch') < batch_size
      <4>1. Len(b) \in Nat
        BY <1>4
      <4> QED BY <2>2, <3>1, <4>1, DeepConstants DEF Deep!FlushDue
    <3>4. \A k \in 1..next : staging[k] \in DOMAIN events' \cup gone \/ Holds(batch, staging[k])' \/ k \in skipped
      BY <1>1, <1>6, <3>1 DEF Holds
    <3> QED BY <1>4, <3>1, <3>2, <3>3, <3>4
  <2> QED BY <2>1, <2>2
<1>9. RunType'
  <2>1. skipped \subseteq 1..(next' - 1)
    <3>1. 1..(next - 1) \subseteq 1..next
      BY <1>2
    <3> QED BY <1>7, <3>1 DEF DeepInv, RunType
  <2> QED BY <1>1, <1>2, <1>8, <2>1 DEF DeepInv, RunType
<1>10. Collected' /\ Phases'
  BY <1>1 DEF DeepInv, Collected, Holds, Phases
<1>11. Converted'
  BY <1>1, <1>7, <1>8 DEF Converted, Handled
<1> QED BY <1>8, <1>9, <1>10, <1>11 DEF DeepInv

LEMMA SkipKeeps == ASSUME DeepInv, Deep!Skip PROVE DeepInv'
<1>1. /\ deepPc = "convert" /\ next <= Len(staging) /\ next' = next + 1 /\ skipped' = skipped \cup {next}
      /\ UNCHANGED <<events, transfers, verticals, deepPc, line, staging, batch, gone>>
  BY DEF Deep!Skip, Deep!store
<1>2. /\ next \in 1..Len(staging) /\ next' \in 1..(Len(staging) + 1) /\ next' - 1 = next
      /\ \A k \in 1..next : k = next \/ k \in 1..(next - 1)
      /\ 1..(next - 1) \subseteq 1..next /\ next \in 1..next
  BY <1>1 DEF DeepInv, RunType
<1>3. StoreInv'
  BY <1>1 DEF DeepInv, StoreInv, Deep!ProjectionExact
<1>4. RunType'
  <2>1. skipped' \subseteq 1..(next' - 1)
    BY <1>1, <1>2 DEF DeepInv, RunType
  <2> QED BY <1>1, <1>2, <2>1 DEF DeepInv, RunType
<1>5. Collected' /\ Phases'
  BY <1>1 DEF DeepInv, Collected, Holds, Phases
<1>6. Converted'
  BY <1>1, <1>2 DEF DeepInv, Converted, Handled, Holds
<1> QED BY <1>3, <1>4, <1>5, <1>6 DEF DeepInv

LEMMA FinishKeeps == ASSUME DeepInv, Deep!Finish PROVE DeepInv'
<1>1. /\ deepPc = "convert" /\ next > Len(staging) /\ batch' = <<>> /\ deepPc' = "done"
      /\ UNCHANGED <<line, staging, next, skipped, gone>>
      /\ IF batch # <<>> THEN Deep!Flush(batch) ELSE UNCHANGED <<events, transfers, verticals>>
  BY DEF Deep!Finish, Deep!FlushRest, Deep!store
<1>2. batch \in Seq(Ids) /\ StoreInv /\ staging \in Seq(Ids) /\ next \in 1..(Len(staging) + 1)
  BY DEF DeepInv, RunType
<1>3. StoreInv' /\ DOMAIN events \subseteq DOMAIN events' /\ \A x : Holds(batch, x) => x \in DOMAIN events'
  <2>1. CASE batch # <<>>
    BY <1>1, <1>2, <2>1, FlushStores
  <2>2. CASE batch = <<>>
    BY <1>1, <1>2, <2>2 DEF StoreInv, Deep!ProjectionExact, Holds
  <2> QED BY <2>1, <2>2
<1>4. RunType'
  BY <1>1, <1>2, DeepConstants DEF DeepInv, RunType
<1>5. Collected'
  BY <1>1 DEF DeepInv, Collected, Holds
<1>6. Converted'
  <2>1. \A k \in 1..(next - 1) :
          staging[k] \in DOMAIN events \cup gone \/ Holds(batch, staging[k]) \/ k \in skipped
    BY DEF DeepInv, Converted, Handled
  <2> QED BY <1>1, <1>3, <2>1 DEF Converted, Handled
<1>7. Phases'
  BY <1>1, <1>2 DEF DeepInv, Phases
<1> QED BY <1>3, <1>4, <1>5, <1>6, <1>7 DEF DeepInv

LEMMA DeepIdle == ASSUME DeepInv, UNCHANGED deepVars PROVE DeepInv'
BY DEF deepVars, DeepInv, StoreInv, Deep!ProjectionExact, RunType, Collected, Converted, Handled, Phases, Holds

LEMMA DeepStep == ASSUME DeepInv, Deep!Next PROVE DeepInv'
BY PollOrRescanKeeps, PruneKeeps, StartOrFailKeeps, ReadLineKeeps, EndOfInputKeeps, ConvertKeeps, SkipKeeps, FinishKeeps
   DEF Deep!Next

-----------------------------------------------------------------------------
(* Key snapshots *)

(* An answer is about the key it stands for. *)
AnswersTrue ==
    /\ answers \in Seq({<<>>} \cup (1..MaxKeyLedger) \X Snapshots!Keys)
    /\ \A j \in 1..Len(chunk) : answers[j] # <<>> =>
          answers[j][1] \in changes[chunk[j]] /\ answers[j][2] = chunk[j]

KeyInv == Snapshots!TypeOK /\ AnswersTrue /\ Snapshots!RowsTrue

LEMMA KeyConstants ==
    /\ \A e \in TokenEvents : IsFiniteSet(Snapshots!KeysOf(e))
    /\ MAX_BATCH_KEYS \in Nat \ {0} /\ MaxKeyLedger \in Nat \ {0} /\ MaxKeyFaults \in Nat
<1>1. \A S : Snapshots!IsFiniteSet(S) <=> IsFiniteSet(S)
  BY DEF IsFiniteSet, Snapshots!IsFiniteSet
<1> QED BY <1>1, SideAssumption DEF Snapshots!KeyAssumption

LEMMA Latest ==
    ASSUME NEW n \in Nat, NEW S \in SUBSET (1..n), S # {}
    PROVE  \E l \in S : \A m \in S : m <= l
<1> DEFINE T == {d \in Nat : n - d \in S}
<1>1. T \subseteq Nat /\ T # {}
  <2>1. PICK l \in S : TRUE
    OBVIOUS
  <2>2. n - l \in Nat /\ n - (n - l) = l
    BY <2>1
  <2>3. n - l \in T
    BY <2>1, <2>2
  <2> QED BY <2>3
<1>2. \A d \in T : d \in Nat /\ n - d \in S
  OBVIOUS
<1>3. \A m \in S : n - m \in T
  <2> TAKE m \in S
  <2>1. n - m \in Nat /\ n - (n - m) = m
    OBVIOUS
  <2> QED BY <2>1
<1> HIDE DEF T
<1>4. PICK x \in T : \A y \in T : <<y, x>> \notin OpToRel(<, Nat)
  BY <1>1, NatLessThanWellFounded, WFMin
<1>5. \A y \in T : ~(y < x)
  BY <1>2, <1>4 DEF OpToRel
<1>6. ASSUME NEW m \in S PROVE m <= n - x
  <2>1. m \in Nat /\ x \in Nat /\ n - m \in Nat /\ ~(n - m < x)
    BY <1>2, <1>3, <1>5
  <2> QED BY <2>1
<1> QED BY <1>2, <1>6

(* What an endpoint answers for a key is an entry that key had. *)
LEMMA ChangeKnown ==
    ASSUME KeyInv, NEW k \in Snapshots!Keys, NEW at \in Nat, \E l \in changes[k] : l <= at
    PROVE  Snapshots!LastChange(k, at) \in changes[k] /\ changes[k] \subseteq 1..MaxKeyLedger
<1> DEFINE known == {l \in changes[k] : l <= at}
<1>1. changes[k] \in SUBSET (1..MaxKeyLedger)
  BY DEF KeyInv, Snapshots!TypeOK
<1>2. known \in SUBSET (1..MaxKeyLedger) /\ known # {} /\ known \subseteq changes[k]
  BY <1>1
<1>3. Snapshots!LastChange(k, at) = CHOOSE l \in known : \A m \in known : m <= l
  BY DEF Snapshots!LastChange
<1> HIDE DEF known
<1>4. \E l \in known : \A m \in known : m <= l
  BY <1>2, Latest, KeyConstants
<1>5. Snapshots!LastChange(k, at) \in known
  BY <1>3, <1>4
<1> QED BY <1>1, <1>2, <1>5

LEMMA KeysInitially == Snapshots!Init => KeyInv
<1> SUFFICES ASSUME Snapshots!Init PROVE KeyInv
  OBVIOUS
<1>1. /\ ledger = 1 /\ changes = [k \in Snapshots!Keys |-> {}] /\ keyPc = "idle" /\ todo = <<>> /\ chunk = <<>>
      /\ answers = <<>> /\ rows = {} /\ keyFaults = 0
  BY DEF Snapshots!Init
<1>2. Snapshots!TypeOK
  BY <1>1, KeyConstants DEF Snapshots!TypeOK
<1>3. AnswersTrue /\ Snapshots!RowsTrue
  BY <1>1 DEF AnswersTrue, Snapshots!RowsTrue
<1> QED BY <1>2, <1>3 DEF KeyInv

LEMMA WriteKeeps ==
    ASSUME KeyInv, NEW ks \in SUBSET Snapshots!Keys, Snapshots!Write(ks) PROVE KeyInv'
<1>1. /\ ledger < MaxKeyLedger /\ ledger' = ledger + 1
      /\ changes' = [k \in Snapshots!Keys |-> IF k \in ks THEN changes[k] \cup {ledger + 1} ELSE changes[k]]
      /\ UNCHANGED <<keyPc, todo, chunk, answers, rows, keyFaults>>
  BY DEF Snapshots!Write, Snapshots!cycle
<1>2. ledger' \in 1..MaxKeyLedger /\ changes \in [Snapshots!Keys -> SUBSET (1..MaxKeyLedger)]
  BY <1>1, KeyConstants DEF KeyInv, Snapshots!TypeOK
<1>3. \A k \in Snapshots!Keys : changes'[k] \in SUBSET (1..MaxKeyLedger) /\ changes[k] \subseteq changes'[k]
  BY <1>1, <1>2
<1>4. changes' \in [Snapshots!Keys -> SUBSET (1..MaxKeyLedger)]
  BY <1>1, <1>3
<1>5. Snapshots!TypeOK'
  BY <1>1, <1>2, <1>4 DEF KeyInv, Snapshots!TypeOK
<1>6. AnswersTrue'
  <2>1. \A j \in 1..Len(chunk) : chunk[j] \in Snapshots!Keys
    BY DEF KeyInv, Snapshots!TypeOK
  <2> QED BY <1>1, <1>3, <2>1 DEF KeyInv, AnswersTrue
<1>7. Snapshots!RowsTrue'
  <2>1. \A r \in rows : r.key \in Snapshots!Keys
    BY DEF KeyInv, Snapshots!TypeOK
  <2> QED BY <1>1, <1>3, <2>1 DEF KeyInv, Snapshots!RowsTrue
<1> QED BY <1>5, <1>6, <1>7 DEF KeyInv

LEMMA DiscoverKeeps == ASSUME KeyInv, NEW e \in TokenEvents, Snapshots!Discover(e) PROVE KeyInv'
<1> DEFINE S == Snapshots!KeysOf(e)
<1>1. /\ todo' \in Snapshots!SetToSeqs(S) /\ keyPc' = "fetch"
      /\ UNCHANGED <<ledger, changes, chunk, answers, rows, keyFaults>>
  BY DEF Snapshots!Discover, Snapshots!chain
<1>2. Snapshots!Cardinality(S) = Cardinality(S)
  BY DEF Cardinality, Snapshots!Cardinality
<1>3. S \subseteq Snapshots!Keys
  BY DEF Snapshots!Keys
<1>4. Cardinality(S) \in Nat
  BY KeyConstants, FS_CardinalityType
<1> HIDE DEF S
<1>5. todo' \in [1..Cardinality(S) -> S]
  BY <1>1, <1>2 DEF Snapshots!SetToSeqs
<1>6. todo' \in Seq(Snapshots!Keys)
  <2>1. todo' \in [1..Cardinality(S) -> Snapshots!Keys]
    BY <1>3, <1>5
  <2> QED BY <1>4, <2>1, SeqDef
<1>7. Snapshots!TypeOK'
  BY <1>1, <1>6 DEF KeyInv, Snapshots!TypeOK
<1>8. AnswersTrue' /\ Snapshots!RowsTrue'
  BY <1>1 DEF KeyInv, AnswersTrue, Snapshots!RowsTrue
<1> QED BY <1>7, <1>8 DEF KeyInv

(* get_contract_data_batch: whatever the endpoint leaves out and in        *)
(* whatever order it answers, an entry goes to the key it is for.          *)
LEMMA AlignTrue ==
    ASSUME KeyInv, NEW keys \in Seq(Snapshots!Keys), NEW at \in Nat, NEW r \in Snapshots!Responses(keys, at)
    PROVE  /\ Snapshots!Align(keys, r) \in Seq({<<>>} \cup (1..MaxKeyLedger) \X Snapshots!Keys)
           /\ Len(Snapshots!Align(keys, r)) = Len(keys)
           /\ \A j \in 1..Len(keys) : Snapshots!Align(keys, r)[j] # <<>> =>
                 /\ Snapshots!Align(keys, r)[j][1] \in changes[keys[j]]
                 /\ Snapshots!Align(keys, r)[j][2] = keys[j]
<1> DEFINE K == {j \in Snapshots!ToSet(keys) : \E l \in changes[j] : l <= at}
           R == {[key |-> k, ledger |-> Snapshots!LastChange(k, at), value |-> k] : k \in K}
           a == Snapshots!Align(keys, r)
           Answer == {<<>>} \cup (1..MaxKeyLedger) \X Snapshots!Keys
<1>1. DOMAIN keys = 1..Len(keys) /\ Len(keys) \in Nat /\ \A j \in 1..Len(keys) : keys[j] \in Snapshots!Keys
  OBVIOUS
<1>2. \A k \in K : k \in Snapshots!Keys /\ \E l \in changes[k] : l <= at
  BY <1>1 DEF Snapshots!ToSet
<1>3. \A i \in DOMAIN r : r[i] \in R
  <2>1. r \in Snapshots!SetToSeqs(R)
    BY DEF Snapshots!Responses
  <2> HIDE DEF R
  <2> QED BY <2>1 DEF Snapshots!SetToSeqs
<1>4. \A i \in DOMAIN r : /\ r[i].value = r[i].key /\ r[i].key \in Snapshots!Keys
                          /\ r[i].ledger \in changes[r[i].key] /\ r[i].ledger \in 1..MaxKeyLedger
  <2> TAKE i \in DOMAIN r
  <2>1. PICK k \in K : r[i] = [key |-> k, ledger |-> Snapshots!LastChange(k, at), value |-> k]
    BY <1>3
  <2>2. k \in Snapshots!Keys /\ \E l \in changes[k] : l <= at
    BY <1>2
  <2> HIDE DEF K, R
  <2>3. Snapshots!LastChange(k, at) \in changes[k] /\ changes[k] \subseteq 1..MaxKeyLedger
    BY <2>2, ChangeKnown
  <2> QED BY <2>1, <2>2, <2>3
<1> HIDE DEF K, R
<1>5. a = [j \in 1..Len(keys) |-> a[j]] /\ DOMAIN a = 1..Len(keys)
  BY <1>1 DEF Snapshots!Align
<1>6. ASSUME NEW j \in 1..Len(keys)
      PROVE  a[j] \in Answer /\ (a[j] # <<>> => a[j][1] \in changes[keys[j]] /\ a[j][2] = keys[j])
  <2> DEFINE hits == {i \in DOMAIN r : r[i].key = keys[j]}
             h == CHOOSE h \in hits : TRUE
  <2>1. a[j] = IF hits = {} THEN <<>> ELSE <<r[h].ledger, r[h].value>>
    BY <1>1 DEF Snapshots!Align
  <2>2. hits # {} => h \in DOMAIN r /\ r[h].key = keys[j]
    OBVIOUS
  <2> HIDE DEF hits, h, a
  <2>3. CASE hits = {}
    BY <2>1, <2>3
  <2>4. CASE hits # {}
    <3>1. /\ r[h].value = keys[j] /\ keys[j] \in Snapshots!Keys
          /\ r[h].ledger \in changes[keys[j]] /\ r[h].ledger \in 1..MaxKeyLedger
      BY <1>1, <1>4, <2>2, <2>4
    <3>2. a[j] = <<r[h].ledger, r[h].value>>
      BY <2>1, <2>4
    <3>3. a[j] \in (1..MaxKeyLedger) \X Snapshots!Keys /\ a[j][1] = r[h].ledger /\ a[j][2] = r[h].value
      BY <3>1, <3>2
    <3> QED BY <3>1, <3>3
  <2> QED BY <2>3, <2>4
<1> HIDE DEF a, Answer
<1>7. a \in [1..Len(keys) -> Answer]
  BY <1>5, <1>6
<1>8. a \in Seq(Answer) /\ Len(a) = Len(keys)
  <2>1. a \in Seq(Answer)
    BY <1>1, <1>7, SeqDef
  <2>2. DOMAIN a = 1..Len(a) /\ Len(a) \in Nat
    BY <2>1
  <2> QED BY <1>1, <1>5, <2>1, <2>2
<1> QED BY <1>6, <1>8 DEF a, Answer

LEMMA FetchKeeps == ASSUME KeyInv, Snapshots!Fetch PROVE KeyInv'
<1> DEFINE keys == Snapshots!Take(MAX_BATCH_KEYS, todo)
           rest == SubSeq(todo, Len(keys) + 1, Len(todo))
<1>1. /\ todo' = rest /\ UNCHANGED <<ledger, changes, rows>>
      /\ \/ /\ chunk' = keys /\ keyPc' = "write" /\ UNCHANGED keyFaults
            /\ \E at \in 1..ledger : \E r \in Snapshots!Responses(keys, at) : answers' = Snapshots!Align(keys, r)
         \/ keyFaults < MaxKeyFaults /\ keyFaults' = keyFaults + 1 /\ UNCHANGED <<keyPc, chunk, answers>>
  BY DEF Snapshots!Fetch, Snapshots!chain
<1>2. todo \in Seq(Snapshots!Keys) /\ Len(todo) \in Nat
  BY DEF KeyInv, Snapshots!TypeOK
<1>3. keys \in Seq(Snapshots!Keys) /\ Len(keys) <= MAX_BATCH_KEYS /\ Len(keys) \in Nat
  <2>1. PICK m \in Nat : m = (IF MAX_BATCH_KEYS < Len(todo) THEN MAX_BATCH_KEYS ELSE Len(todo))
    BY <1>2, KeyConstants
  <2>2. keys = SubSeq(todo, 1, m) /\ m <= Len(todo) /\ m <= MAX_BATCH_KEYS
    BY <1>2, <2>1, KeyConstants DEF Snapshots!Take
  <2>3. SubSeq(todo, 1, m) \in Seq(Snapshots!Keys) /\ Len(SubSeq(todo, 1, m)) = m
    BY <1>2, <2>2
  <2> QED BY <2>2, <2>3
<1> HIDE DEF keys
<1>4. rest \in Seq(Snapshots!Keys)
  BY <1>2, <1>3
<1> HIDE DEF rest
<1>5. CASE /\ chunk' = keys /\ keyPc' = "write" /\ UNCHANGED keyFaults
           /\ \E at \in 1..ledger : \E r \in Snapshots!Responses(keys, at) : answers' = Snapshots!Align(keys, r)
  <2>0. PICK at \in 1..ledger : \E r \in Snapshots!Responses(keys, at) : answers' = Snapshots!Align(keys, r)
    BY <1>5
  <2>1. PICK r \in Snapshots!Responses(keys, at) : answers' = Snapshots!Align(keys, r)
    BY <2>0
  <2>2. at \in Nat
    BY DEF KeyInv, Snapshots!TypeOK
  <2>3. /\ answers' \in Seq({<<>>} \cup (1..MaxKeyLedger) \X Snapshots!Keys) /\ Len(answers') = Len(keys)
        /\ \A j \in 1..Len(keys) : answers'[j] # <<>> =>
              answers'[j][1] \in changes[keys[j]] /\ answers'[j][2] = keys[j]
    BY <1>3, <2>1, <2>2, AlignTrue
  <2>4. Snapshots!TypeOK'
    BY <1>1, <1>3, <1>4, <1>5, <2>3 DEF KeyInv, Snapshots!TypeOK
  <2>5. AnswersTrue'
    BY <1>1, <1>5, <2>3 DEF AnswersTrue
  <2>6. Snapshots!RowsTrue'
    BY <1>1 DEF KeyInv, Snapshots!RowsTrue
  <2> QED BY <2>4, <2>5, <2>6 DEF KeyInv
<1>6. CASE keyFaults < MaxKeyFaults /\ keyFaults' = keyFaults + 1 /\ UNCHANGED <<keyPc, chunk, answers>>
  <2>1. Snapshots!TypeOK'
    BY <1>1, <1>4, <1>6, KeyConstants DEF KeyInv, Snapshots!TypeOK
  <2>2. AnswersTrue' /\ Snapshots!RowsTrue'
    BY <1>1, <1>6 DEF KeyInv, AnswersTrue, Snapshots!RowsTrue
  <2> QED BY <2>1, <2>2 DEF KeyInv
<1> QED BY <1>1, <1>5, <1>6

LEMMA WriteEntryKeeps == ASSUME KeyInv, Snapshots!WriteEntry PROVE KeyInv'
<1> DEFINE k == Head(chunk)
           a == Head(answers)
           row == [key |-> k, ledger |-> a[1], value |-> a[2]]
           Answer == {<<>>} \cup (1..MaxKeyLedger) \X Snapshots!Keys
<1>1. /\ chunk # <<>> /\ chunk' = Tail(chunk) /\ answers' = Tail(answers)
      /\ UNCHANGED <<ledger, changes, keyPc, todo>>
      /\ \/ /\ rows' = IF a = <<>> \/ Snapshots!Newest(k) = a[1] \/ Snapshots!Has(k, a[1]) THEN rows ELSE rows \cup {row}
            /\ UNCHANGED keyFaults
         \/ keyFaults < MaxKeyFaults /\ keyFaults' = keyFaults + 1 /\ UNCHANGED rows
  BY DEF Snapshots!WriteEntry, Snapshots!chain
<1>2. /\ chunk \in Seq(Snapshots!Keys) /\ answers \in Seq(Answer) /\ Len(answers) = Len(chunk)
      /\ Len(chunk) \in Nat /\ Len(chunk) <= MAX_BATCH_KEYS
  BY DEF KeyInv, Snapshots!TypeOK, AnswersTrue
<1> HIDE DEF Answer
<1>3. Len(chunk) \in Nat \ {0} /\ 1 \in 1..Len(chunk) /\ answers # <<>>
  BY <1>1, <1>2
<1>4. k = chunk[1] /\ a = answers[1] /\ k \in Snapshots!Keys /\ a \in Answer
  BY <1>1, <1>2, <1>3
<1>5. a # <<>> => a[1] \in changes[k] /\ a[2] = k
  BY <1>3, <1>4 DEF KeyInv, AnswersTrue
<1>6. /\ Tail(chunk) \in Seq(Snapshots!Keys) /\ Len(Tail(chunk)) = Len(chunk) - 1
      /\ \A j \in 1..(Len(chunk) - 1) : Tail(chunk)[j] = chunk[j + 1]
  BY <1>1, <1>2, <1>3
<1>7. /\ Tail(answers) \in Seq(Answer) /\ Len(Tail(answers)) = Len(answers) - 1
      /\ \A j \in 1..(Len(answers) - 1) : Tail(answers)[j] = answers[j + 1]
  BY <1>2, <1>3
<1> HIDE DEF k, a
<1>8. AnswersTrue'
  <2>1. \A j \in 1..(Len(chunk) - 1) : j + 1 \in 1..Len(chunk)
    BY <1>2
  <2>2. \A j \in 1..Len(chunk) : answers[j] # <<>> => answers[j][1] \in changes[chunk[j]] /\ answers[j][2] = chunk[j]
    BY DEF KeyInv, AnswersTrue
  <2>3. \A j \in 1..(Len(chunk) - 1) : Tail(answers)[j] # <<>> =>
           Tail(answers)[j][1] \in changes[Tail(chunk)[j]] /\ Tail(answers)[j][2] = Tail(chunk)[j]
    BY <1>2, <1>6, <1>7, <2>1, <2>2
  <2> QED BY <1>1, <1>6, <1>7, <2>3 DEF AnswersTrue, Answer
<1>9. rows' = rows \/ (a # <<>> /\ ~Snapshots!Has(k, a[1]) /\ rows' = rows \cup {row})
  BY <1>1
<1>10. rows' \subseteq [key : Snapshots!Keys, ledger : 1..MaxKeyLedger, value : Snapshots!Keys] /\ Snapshots!RowsTrue'
  <2>1. /\ rows \subseteq [key : Snapshots!Keys, ledger : 1..MaxKeyLedger, value : Snapshots!Keys]
        /\ \A r \in rows : r.value = r.key /\ r.ledger \in changes[r.key]
        /\ \A r, s \in rows : r.key = s.key /\ r.ledger = s.ledger => r = s
    BY DEF KeyInv, Snapshots!TypeOK, Snapshots!RowsTrue
  <2>2. CASE rows' = rows
    BY <1>1, <2>1, <2>2 DEF Snapshots!RowsTrue
  <2>3. CASE a # <<>> /\ ~Snapshots!Has(k, a[1]) /\ rows' = rows \cup {row}
    <3>1. a[1] \in 1..MaxKeyLedger /\ a[2] \in Snapshots!Keys
      BY <1>4, <2>3 DEF Answer
    <3>2. /\ row.key = k /\ row.ledger = a[1] /\ row.value = a[2]
          /\ row \in [key : Snapshots!Keys, ledger : 1..MaxKeyLedger, value : Snapshots!Keys]
      BY <1>4, <3>1
    <3> HIDE DEF row
    <3>3. \A r \in rows : ~(r.key = k /\ r.ledger = a[1])
      BY <2>3 DEF Snapshots!Has
    <3>4. \A r \in rows' : r.value = r.key /\ r.ledger \in changes'[r.key]
      BY <1>1, <1>5, <2>1, <2>3, <3>2
    <3>5. \A r, s \in rows' : r.key = s.key /\ r.ledger = s.ledger => r = s
      BY <2>1, <2>3, <3>2, <3>3
    <3> QED BY <2>1, <2>3, <3>2, <3>4, <3>5 DEF Snapshots!RowsTrue
  <2> QED BY <1>9, <2>2, <2>3
<1>11. keyFaults' \in 0..MaxKeyFaults
  BY <1>1, KeyConstants DEF KeyInv, Snapshots!TypeOK
<1>12. Snapshots!TypeOK'
  <2>1. Len(Tail(answers)) = Len(Tail(chunk)) /\ Len(Tail(chunk)) <= MAX_BATCH_KEYS
    BY <1>2, <1>6, <1>7, KeyConstants
  <2> QED BY <1>1, <1>6, <1>10, <1>11, <2>1 DEF KeyInv, Snapshots!TypeOK
<1> QED BY <1>8, <1>10, <1>12 DEF KeyInv

LEMMA EndKeeps == ASSUME KeyInv, Snapshots!EndChunk \/ Snapshots!EndBatch PROVE KeyInv'
<1>1. keyPc' \in {"fetch", "idle"} /\ UNCHANGED <<ledger, changes, todo, chunk, answers, rows, keyFaults>>
  BY DEF Snapshots!EndChunk, Snapshots!EndBatch, Snapshots!chain
<1>2. Snapshots!TypeOK'
  BY <1>1 DEF KeyInv, Snapshots!TypeOK
<1>3. AnswersTrue' /\ Snapshots!RowsTrue'
  BY <1>1 DEF KeyInv, AnswersTrue, Snapshots!RowsTrue
<1> QED BY <1>2, <1>3 DEF KeyInv

LEMMA KeysIdle == ASSUME KeyInv, UNCHANGED keyVars PROVE KeyInv'
BY DEF keyVars, KeyInv, Snapshots!TypeOK, AnswersTrue, Snapshots!RowsTrue

LEMMA KeysStep == ASSUME KeyInv, Snapshots!Next PROVE KeyInv'
BY WriteKeeps, DiscoverKeeps, FetchKeeps, WriteEntryKeeps, EndKeeps DEF Snapshots!Next, Snapshots!Snapshot

(* The two jobs beside the poller do what they promise, for any export,    *)
(* batch size and key set: a finished deep backfill stored every complete  *)
(* event of its range that retention did not take since it started, the    *)
(* projections follow the events whichever writers overlap                 *)
(* (deep_backfill.rs, store.rs), and every row of contract_data holds what *)
(* its key held in its ledger (state.rs).                                  *)
THEOREM JobsCompleteHolds == SideSpec => []JobsComplete
<1> DEFINE FocusInv == (focus = "deep" => DeepInv) /\ (focus = "keys" => KeyInv)
<1>1. SideInit => FocusInv
  BY DeepInitially, KeysInitially DEF SideInit
<1>2. FocusInv /\ [SideNext]_<<focus, sideVars>> => FocusInv'
  BY DeepStep, DeepIdle, KeysStep, KeysIdle DEF SideNext, sideVars
<1>3. FocusInv => JobsComplete
  BY DeepTrue DEF JobsComplete, KeyInv
<1> QED BY <1>1, <1>2, <1>3, PTL DEF SideSpec

-----------------------------------------------------------------------------
(* Interface diffs: each upgrade is judged against the version before it   *)
(* alone, and "works with" is transitive, so that the verdicts carry over  *)
(* any number of upgrades.                                                 *)

LEMMA DiffConstants == ASSUME NEW i \in Releases
    PROVE  /\ \A n \in DOMAIN i.events : /\ Len(i.events[n].params) \in Nat
                                         /\ DOMAIN i.events[n].params = 1 .. Len(i.events[n].params)
           /\ \A n \in DOMAIN i.types : /\ Len(i.types[n].members) \in Nat
                                        /\ DOMAIN i.types[n].members = 1 .. Len(i.types[n].members)
BY SideAssumption DEF Diff!DiffAssumption

(* A verdict is at least as bad as that of each of the three sections.     *)
LEMMA VerdictBounds ==
    ASSUME NEW old, NEW new
    PROVE  LET f == Diff!max_severity(Diff!diff_functions(old, new))
               e == Diff!max_severity(Diff!diff_events(old, new))
               t == Diff!max_severity(Diff!diff_types(old, new))
           IN /\ Diff!between(old, new) \in 0 .. 2 /\ f \in 0 .. 2 /\ e \in 0 .. 2 /\ t \in 0 .. 2
              /\ f <= Diff!between(old, new) /\ e <= Diff!between(old, new) /\ t <= Diff!between(old, new)
<1> DEFINE f == Diff!max_severity(Diff!diff_functions(old, new))
           e == Diff!max_severity(Diff!diff_events(old, new))
           t == Diff!max_severity(Diff!diff_types(old, new))
<1>1. f \in 0 .. 2 /\ e \in 0 .. 2 /\ t \in 0 .. 2
  BY DEF Diff!max_severity, Diff!Additive, Diff!PotentiallyBreaking, Diff!Breaking
<1>2. Diff!between(old, new) = CHOOSE s \in {f, e, t} : \A u \in {f, e, t} : u <= s
  BY DEF Diff!between
<1> HIDE DEF f, e, t
<1>3. \E s \in {f, e, t} : \A u \in {f, e, t} : u <= s
  BY <1>1
<1>4. Diff!between(old, new) \in {f, e, t} /\ \A u \in {f, e, t} : u <= Diff!between(old, new)
  BY <1>2, <1>3
<1> QED BY <1>1, <1>4 DEF f, e, t

(* What a section's severity says of a name both versions may have.        *)
LEMMA SectionVerdict ==
    ASSUME NEW old, NEW new, NEW milder, NEW n \in DOMAIN old,
           LET d == Diff!diff_section(old, new)
           IN Diff!max_severity(Diff!Reclassified(d, milder)) # Diff!Breaking
    PROVE  /\ n \in DOMAIN new /\ (old[n] = new[n] \/ n \in milder)
           /\ LET d == Diff!diff_section(old, new)
              IN Diff!max_severity(Diff!Reclassified(d, milder)) = Diff!Additive => n \notin milder
<1> DEFINE d == Diff!diff_section(old, new)
           r == Diff!Reclassified(d, milder)
<1>1. /\ r.removed = DOMAIN old \ DOMAIN new /\ r.reordered = {} /\ r.potentially_breaking = milder
      /\ r.changed = {m \in DOMAIN old \cap DOMAIN new : old[m] # new[m]} \ milder
  BY DEF Diff!Reclassified, Diff!diff_section
<1> HIDE DEF r
<1>2. Diff!max_severity(r) # Diff!Breaking => r.removed \cup r.changed = {}
  BY DEF Diff!max_severity
<1>3. Diff!max_severity(r) = Diff!Additive => r.potentially_breaking = {}
  BY DEF Diff!max_severity, Diff!Breaking, Diff!Additive, Diff!PotentiallyBreaking
<1> QED BY <1>1, <1>2, <1>3 DEF r

LEMMA FunctionsWork ==
    ASSUME NEW old, NEW new, Diff!max_severity(Diff!diff_functions(old, new)) # Diff!Breaking,
           NEW n \in DOMAIN old.functions
    PROVE  n \in DOMAIN new.functions /\ Diff!CallsWork(old.functions[n], new.functions[n])
<1> DEFINE d == Diff!diff_section(Diff!function_sigs(old), Diff!function_sigs(new))
           moved == {m \in d.changed : Diff!is_param_reorder(old.functions[m].inputs, new.functions[m].inputs)}
           r == Diff!diff_functions(old, new)
<1>1. /\ DOMAIN Diff!function_sigs(old) = DOMAIN old.functions
      /\ DOMAIN Diff!function_sigs(new) = DOMAIN new.functions
  BY DEF Diff!function_sigs
<1>2. /\ d.removed = DOMAIN old.functions \ DOMAIN new.functions
      /\ d.changed = {m \in DOMAIN old.functions \cap DOMAIN new.functions :
                        Diff!function_sigs(old)[m] # Diff!function_sigs(new)[m]}
  BY <1>1 DEF Diff!diff_section
<1>3. r = [d EXCEPT !.changed = @ \ moved, !.reordered = moved]
  BY DEF Diff!diff_functions
<1>4. r.removed = d.removed /\ r.changed = d.changed \ moved /\ r.reordered = moved
  BY <1>3 DEF Diff!diff_section
<1>5. r.removed \cup r.changed \cup r.reordered = {}
  BY DEF Diff!max_severity
<1>6. d.removed = {} /\ d.changed = {}
  BY <1>4, <1>5
<1>7. n \in DOMAIN new.functions /\ Diff!function_sigs(old)[n] = Diff!function_sigs(new)[n]
  BY <1>2, <1>6
<1>8. old.functions[n].inputs = new.functions[n].inputs /\ old.functions[n].output = new.functions[n].output
  BY <1>7 DEF Diff!function_sigs
<1> QED BY <1>7, <1>8 DEF Diff!CallsWork

(* Fields added to the data of a map leave the topics where they are.      *)
LEMMA AddedFields ==
    ASSUME NEW old, NEW new, Len(old.params) \in Nat, Len(new.params) \in Nat,
           DOMAIN old.params = 1 .. Len(old.params), DOMAIN new.params = 1 .. Len(new.params),
           Diff!map_event_added_fields(old, new)
    PROVE  Diff!DecodingWorks(old, new) /\ Len(old.params) < Len(new.params)
<1>1. /\ old.format = new.format /\ new.format = "map" /\ Len(old.params) < Len(new.params)
      /\ \A i \in DOMAIN old.params : i \in DOMAIN new.params /\ old.params[i] = new.params[i]
      /\ \A i \in DOMAIN new.params \ DOMAIN old.params : new.params[i].location = "data"
  BY DEF Diff!map_event_added_fields, Diff!IsPrefixOf
<1> DEFINE Before(p, i) == {j \in 1 .. i : p[j].location = "topic"}
           Topics(p) == {i \in DOMAIN p : p[i].location = "topic"}
<1>2. \A i \in DOMAIN old.params : Before(old.params, i) = Before(new.params, i)
  BY <1>1
<1>3. Topics(old.params) = Topics(new.params)
  BY <1>1
<1>4. Diff!At(old.params, "topic") = Diff!At(new.params, "topic")
  <2>1. Diff!At(old.params, "topic") = {<<Diff!Cardinality(Before(old.params, i)), old.params[i]>> : i \in Topics(old.params)}
    BY DEF Diff!At
  <2>2. Diff!At(new.params, "topic") = {<<Diff!Cardinality(Before(new.params, i)), new.params[i]>> : i \in Topics(new.params)}
    BY DEF Diff!At
  <2>3. \A i \in Topics(old.params) : /\ Diff!Cardinality(Before(old.params, i)) = Diff!Cardinality(Before(new.params, i))
                                      /\ old.params[i] = new.params[i]
    BY <1>1, <1>2
  <2> HIDE DEF Before, Topics
  <2> QED BY <1>3, <2>1, <2>2, <2>3
<1>5. Diff!ParamsAt(old.params, "data") \subseteq Diff!ParamsAt(new.params, "data")
  BY <1>1 DEF Diff!ParamsAt
<1> QED BY <1>1, <1>4, <1>5 DEF Diff!DecodingWorks

LEMMA EventsWork ==
    ASSUME NEW old \in Releases, NEW new \in Releases,
           Diff!max_severity(Diff!diff_events(old, new)) # Diff!Breaking, NEW n \in DOMAIN old.events
    PROVE  /\ n \in DOMAIN new.events /\ Diff!DecodingWorks(old.events[n], new.events[n])
           /\ n \in Diff!Moved(old, new) \/ Diff!FindingWorks(old.events[n], new.events[n])
           /\ Diff!max_severity(Diff!diff_events(old, new)) = Diff!Additive
                => Len(old.events[n].params) = Len(new.events[n].params)
<1> DEFINE d == Diff!diff_section(Diff!event_sigs(old), Diff!event_sigs(new))
           milder == {m \in d.changed : Diff!map_event_added_fields(old.events[m], new.events[m])}
<1>1. Diff!diff_events(old, new) = Diff!Reclassified(d, milder)
  BY DEF Diff!diff_events
<1>2. DOMAIN Diff!event_sigs(old) = DOMAIN old.events /\ DOMAIN Diff!event_sigs(new) = DOMAIN new.events
  BY DEF Diff!event_sigs
<1> HIDE DEF milder
<1>3. /\ n \in DOMAIN new.events /\ (Diff!event_sigs(old)[n] = Diff!event_sigs(new)[n] \/ n \in milder)
      /\ Diff!max_severity(Diff!diff_events(old, new)) = Diff!Additive => n \notin milder
  BY <1>1, <1>2, SectionVerdict
<1>6. n \in Diff!Moved(old, new) \/ Diff!FindingWorks(old.events[n], new.events[n])
  BY <1>3 DEF Diff!Moved
<1>4. CASE Diff!event_sigs(old)[n] = Diff!event_sigs(new)[n]
  <2>1. old.events[n].params = new.events[n].params /\ old.events[n].format = new.events[n].format
    BY <1>3, <1>4 DEF Diff!event_sigs
  <2> QED BY <1>3, <1>6, <2>1 DEF Diff!DecodingWorks
<1>5. CASE n \in milder
  <2>1. Diff!map_event_added_fields(old.events[n], new.events[n])
    BY <1>5 DEF milder
  <2> QED BY <1>3, <1>5, <1>6, <2>1, AddedFields, DiffConstants
<1> QED BY <1>3, <1>4, <1>5, <1>6

LEMMA TypesWork ==
    ASSUME NEW old \in Releases, NEW new \in Releases,
           Diff!max_severity(Diff!diff_types(old, new)) # Diff!Breaking, NEW n \in DOMAIN old.types
    PROVE  /\ n \in DOMAIN new.types /\ Diff!TypeWorks(old.types[n], new.types[n])
           /\ Diff!max_severity(Diff!diff_types(old, new)) = Diff!Additive
                => Len(old.types[n].members) = Len(new.types[n].members)
<1> DEFINE d == Diff!diff_section(Diff!type_sigs(old), Diff!type_sigs(new))
           milder == {m \in d.changed : Diff!added_cases_only(old.types[m], new.types[m])}
<1>1. Diff!diff_types(old, new) = Diff!Reclassified(d, milder)
  BY DEF Diff!diff_types
<1>2. DOMAIN Diff!type_sigs(old) = DOMAIN old.types /\ DOMAIN Diff!type_sigs(new) = DOMAIN new.types
  BY DEF Diff!type_sigs
<1> HIDE DEF milder
<1>3. /\ n \in DOMAIN new.types /\ (Diff!type_sigs(old)[n] = Diff!type_sigs(new)[n] \/ n \in milder)
      /\ Diff!max_severity(Diff!diff_types(old, new)) = Diff!Additive => n \notin milder
  BY <1>1, <1>2, SectionVerdict
<1>4. CASE Diff!type_sigs(old)[n] = Diff!type_sigs(new)[n]
  <2>1. old.types[n].kind = new.types[n].kind /\ old.types[n].members = new.types[n].members
    BY <1>3, <1>4 DEF Diff!type_sigs
  <2> QED BY <1>3, <2>1 DEF Diff!TypeWorks
<1>5. CASE n \in milder
  <2>1. Diff!added_cases_only(old.types[n], new.types[n])
    BY <1>5 DEF milder
  <2>2. /\ Len(old.types[n].members) \in Nat /\ DOMAIN old.types[n].members = 1 .. Len(old.types[n].members)
        /\ Len(new.types[n].members) \in Nat /\ DOMAIN new.types[n].members = 1 .. Len(new.types[n].members)
    BY <1>3, DiffConstants
  <2>3. Diff!Range(old.types[n].members) \subseteq Diff!Range(new.types[n].members)
    BY <2>1, <2>2 DEF Diff!added_cases_only, Diff!IsPrefixOf, Diff!Range
  <2> QED BY <1>3, <1>5, <2>1, <2>3 DEF Diff!added_cases_only, Diff!TypeWorks
<1> QED BY <1>3, <1>4, <1>5

(* One upgrade.                                                            *)
LEMMA VerdictTrue ==
    ASSUME NEW old \in Releases, NEW new \in Releases
    PROVE  /\ Diff!between(old, new) # Diff!Breaking => Diff!Works(old, new, Diff!Moved(old, new))
           /\ Diff!between(old, new) = Diff!Additive => Diff!SeesNothingNew(old, new)
<1> DEFINE f == Diff!max_severity(Diff!diff_functions(old, new))
           e == Diff!max_severity(Diff!diff_events(old, new))
           t == Diff!max_severity(Diff!diff_types(old, new))
           b == Diff!between(old, new)
<1>1. b \in 0 .. 2 /\ f \in 0 .. 2 /\ e \in 0 .. 2 /\ t \in 0 .. 2 /\ f <= b /\ e <= b /\ t <= b
  BY VerdictBounds
<1> HIDE DEF f, e, t, b
<1>2. b # Diff!Breaking => f # Diff!Breaking /\ e # Diff!Breaking /\ t # Diff!Breaking
  BY <1>1 DEF Diff!Breaking
<1>3. b = Diff!Additive => e = Diff!Additive /\ t = Diff!Additive /\ b # Diff!Breaking
  BY <1>1 DEF Diff!Additive, Diff!Breaking
<1>4. b # Diff!Breaking => Diff!Works(old, new, Diff!Moved(old, new))
  BY <1>2, FunctionsWork, EventsWork, TypesWork DEF Diff!Works, f, e, t
<1>5. b = Diff!Additive => Diff!SeesNothingNew(old, new)
  BY <1>2, <1>3, EventsWork, TypesWork DEF Diff!SeesNothingNew, e, t
<1> QED BY <1>4, <1>5 DEF b

LEMMA WorksReflexive == ASSUME NEW i, NEW m PROVE Diff!Works(i, i, m) /\ Diff!SeesNothingNew(i, i)
BY DEF Diff!Works, Diff!FindingWorks, Diff!SeesNothingNew, Diff!CallsWork, Diff!DecodingWorks, Diff!TypeWorks

LEMMA WorksTransitive ==
    ASSUME NEW a, NEW b, NEW c, NEW m, NEW k, NEW all, m \subseteq all, k \subseteq all,
           Diff!Works(a, b, m), Diff!Works(b, c, k)
    PROVE  /\ Diff!Works(a, c, all)
           /\ Diff!SeesNothingNew(a, b) /\ Diff!SeesNothingNew(b, c) => Diff!SeesNothingNew(a, c)
<1>1. \A n \in DOMAIN a.functions : n \in DOMAIN c.functions /\ Diff!CallsWork(a.functions[n], c.functions[n])
  <2> SUFFICES ASSUME NEW n \in DOMAIN a.functions
               PROVE  n \in DOMAIN c.functions /\ Diff!CallsWork(a.functions[n], c.functions[n])
    OBVIOUS
  <2>1. /\ n \in DOMAIN b.functions /\ Diff!CallsWork(a.functions[n], b.functions[n])
        /\ n \in DOMAIN c.functions /\ Diff!CallsWork(b.functions[n], c.functions[n])
    BY DEF Diff!Works
  <2> QED BY <2>1 DEF Diff!CallsWork
<1>2. \A n \in DOMAIN a.events : /\ n \in DOMAIN c.events /\ Diff!DecodingWorks(a.events[n], c.events[n])
                                 /\ n \in all \/ Diff!FindingWorks(a.events[n], c.events[n])
  <2> SUFFICES ASSUME NEW n \in DOMAIN a.events
               PROVE  /\ n \in DOMAIN c.events /\ Diff!DecodingWorks(a.events[n], c.events[n])
                      /\ n \in all \/ Diff!FindingWorks(a.events[n], c.events[n])
    OBVIOUS
  <2>1. /\ n \in DOMAIN b.events /\ Diff!DecodingWorks(a.events[n], b.events[n])
        /\ n \in DOMAIN c.events /\ Diff!DecodingWorks(b.events[n], c.events[n])
        /\ n \in m \/ Diff!FindingWorks(a.events[n], b.events[n])
        /\ n \in k \/ Diff!FindingWorks(b.events[n], c.events[n])
    BY DEF Diff!Works
  <2>2. n \in all \/ Diff!FindingWorks(a.events[n], c.events[n])
    BY <2>1 DEF Diff!FindingWorks
  <2> QED BY <2>1, <2>2 DEF Diff!DecodingWorks
<1>3. \A n \in DOMAIN a.types : n \in DOMAIN c.types /\ Diff!TypeWorks(a.types[n], c.types[n])
  <2> SUFFICES ASSUME NEW n \in DOMAIN a.types
               PROVE  n \in DOMAIN c.types /\ Diff!TypeWorks(a.types[n], c.types[n])
    OBVIOUS
  <2>1. /\ n \in DOMAIN b.types /\ Diff!TypeWorks(a.types[n], b.types[n])
        /\ n \in DOMAIN c.types /\ Diff!TypeWorks(b.types[n], c.types[n])
    BY DEF Diff!Works
  <2> QED BY <2>1 DEF Diff!TypeWorks
<1>4. Diff!SeesNothingNew(a, b) /\ Diff!SeesNothingNew(b, c) => Diff!SeesNothingNew(a, c)
  BY DEF Diff!Works, Diff!SeesNothingNew
<1> QED BY <1>1, <1>2, <1>3, <1>4 DEF Diff!Works

(* The inductive invariant: one verdict a version, and the verdicts hold   *)
(* for the latest one.                                                     *)
DiffInv ==
    /\ releases \in Seq(Releases) /\ verdicts \in Seq(0 .. 2)
    /\ Len(releases) > 0 /\ Len(verdicts) = Len(releases)
    /\ Diff!VerdictsHold

LEMMA DiffInitially == Diff!Init => DiffInv
<1> SUFFICES ASSUME NEW i \in Releases, releases = <<i>>, verdicts = <<Diff!Additive>> PROVE DiffInv
  BY DEF Diff!Init
<1>1. \A v \in DOMAIN releases : releases[v] = i
  OBVIOUS
<1>2. Diff!Last(releases) = i
  BY DEF Diff!Last
<1>3. Diff!VerdictsHold
  BY <1>1, <1>2, WorksReflexive DEF Diff!VerdictsHold
<1> QED BY <1>3 DEF DiffInv, Diff!Additive

LEMMA DiffStep == ASSUME DiffInv, Diff!Next PROVE DiffInv'
<1>1. PICK i \in Releases : /\ releases' = Append(releases, i)
                            /\ verdicts' = Append(verdicts, Diff!between(Diff!Last(releases), i))
  BY DEF Diff!Next, Diff!Upgrade
<1> DEFINE n == Len(releases)
           last == releases[n]
           b == Diff!between(last, i)
           Past(v) == {verdicts[w] : w \in v + 1 .. n}
<1>2. /\ releases \in Seq(Releases) /\ verdicts \in Seq(0 .. 2) /\ n \in Nat \ {0} /\ Len(verdicts) = n
      /\ DOMAIN releases = 1 .. n /\ last \in Releases /\ Diff!Last(releases) = last
  BY DEF DiffInv, Diff!Last
<1>3. b \in 0 .. 2
  BY VerdictBounds
<1> HIDE DEF b
<1>4. /\ releases' \in Seq(Releases) /\ Len(releases') = n + 1 /\ DOMAIN releases' = 1 .. n + 1
      /\ releases'[n + 1] = i /\ \A v \in 1 .. n : releases'[v] = releases[v]
  BY <1>1, <1>2
<1>5. verdicts' = Append(verdicts, b)
  BY <1>1, <1>2 DEF b
<1>6. /\ verdicts' \in Seq(0 .. 2) /\ Len(verdicts') = n + 1
      /\ verdicts'[n + 1] = b /\ \A v \in 1 .. n : verdicts'[v] = verdicts[v]
  BY <1>2, <1>3, <1>5
<1>7. Diff!Last(releases)' = i
  BY <1>4 DEF Diff!Last
<1>8. ASSUME NEW v \in 1 .. n + 1
      PROVE  LET since == {verdicts'[w] : w \in v + 1 .. n + 1} IN
             /\ Diff!Breaking \notin since => Diff!Works(releases'[v], i, Diff!MovedSince(v)')
             /\ since \subseteq {Diff!Additive} => Diff!SeesNothingNew(releases'[v], i)
  <2>1. CASE v = n + 1
    BY <1>4, <2>1, WorksReflexive
  <2>2. CASE v \in 1 .. n
    <3> DEFINE since == {verdicts'[w] : w \in v + 1 .. n + 1}
    <3>1. b \in since /\ Past(v) \subseteq since
      BY <1>2, <1>6, <2>2
    <3>2. /\ Diff!Breaking \notin Past(v) => Diff!Works(releases[v], last, Diff!MovedSince(v))
          /\ Past(v) \subseteq {Diff!Additive} => Diff!SeesNothingNew(releases[v], last)
      BY <1>2, <2>2 DEF DiffInv, Diff!VerdictsHold
    <3>3. /\ b # Diff!Breaking => Diff!Works(last, i, Diff!Moved(last, i))
          /\ b = Diff!Additive => Diff!SeesNothingNew(last, i)
      BY <1>2, VerdictTrue DEF b
    <3>4. releases'[v] = releases[v]
      BY <1>4, <2>2
    <3>7. Diff!MovedSince(v) \subseteq Diff!MovedSince(v)' /\ Diff!Moved(last, i) \subseteq Diff!MovedSince(v)'
      <4>1. /\ n + 1 \in v + 1 .. n + 1 /\ (n + 1) - 1 = n
            /\ \A w \in v + 1 .. n : w \in v + 1 .. n + 1 /\ w - 1 \in 1 .. n /\ w \in 1 .. n
        BY <1>2, <2>2
      <4>2. \A w \in v + 1 .. n : releases'[w - 1] = releases[w - 1] /\ releases'[w] = releases[w]
        BY <1>4, <4>1
      <4>3. releases'[n] = last /\ releases'[n + 1] = i
        BY <1>2, <1>4
      <4>4. /\ Diff!MovedSince(v) = UNION {Diff!Moved(releases[w - 1], releases[w]) : w \in v + 1 .. n}
            /\ Diff!MovedSince(v)' = UNION {Diff!Moved(releases'[w - 1], releases'[w]) : w \in v + 1 .. n + 1}
        BY <1>4 DEF Diff!MovedSince, Diff!Moved, Diff!FindingWorks
      <4> QED BY <4>1, <4>2, <4>3, <4>4
    <3> HIDE DEF since, Past, last, n
    <3>5. Diff!Breaking \notin since => Diff!Works(releases'[v], i, Diff!MovedSince(v)')
      BY <3>1, <3>2, <3>3, <3>4, <3>7, WorksTransitive
    <3>6. since \subseteq {Diff!Additive} => Diff!SeesNothingNew(releases'[v], i)
      <4> HAVE since \subseteq {Diff!Additive}
      <4>1. b = Diff!Additive /\ Past(v) \subseteq {Diff!Additive}
        BY <3>1
      <4>2. Diff!Additive # Diff!Breaking
        BY DEF Diff!Additive, Diff!Breaking
      <4> QED BY <4>1, <4>2, <3>2, <3>3, <3>4, <3>7, WorksTransitive
    <3> QED BY <3>5, <3>6 DEF since
  <2>3. v = n + 1 \/ v \in 1 .. n
    BY <1>2
  <2> HIDE DEF n
  <2> QED BY <2>1, <2>2, <2>3
<1>9. Diff!VerdictsHold'
  BY <1>4, <1>7, <1>8 DEF Diff!VerdictsHold
<1> QED BY <1>2, <1>4, <1>6, <1>9 DEF DiffInv

LEMMA DiffIdle == ASSUME DiffInv, UNCHANGED diffVars PROVE DiffInv'
BY DEF diffVars, DiffInv, Diff!VerdictsHold, Diff!Last, Diff!MovedSince

-----------------------------------------------------------------------------
(* Event enrichment: an emission carries its declaration's leading topics, *)
(* so that no longer prefix is found unless another declaration claims the *)
(* emission too; and counting the parameters in one place gives each of    *)
(* them a position of its own.                                             *)

(* What EnrichmentAssumption says of one declaration.                      *)
Declaration(e) ==
    /\ Len(e.prefix_topics) \in Nat /\ DOMAIN e.prefix_topics = 1 .. Len(e.prefix_topics)
    /\ e.prefix_topics \in Seq(Enrichment!Range(e.prefix_topics))
    /\ Len(e.params) \in Nat /\ DOMAIN e.params = 1 .. Len(e.params)
    /\ \A i \in DOMAIN e.params : e.params[i].location \in {"topic", "data"}
    /\ e.data_format \in {"map", "vec", "single"}
    /\ e.data_format = "map" => \A i, j \in Enrichment!InData(e) : e.params[i].name = e.params[j].name => i = j
    /\ e.data_format = "single" => \A i, j \in Enrichment!InData(e) : i = j

LEMMA Declared == ASSUME NEW s \in EventInterfaces, NEW d \in DOMAIN s
    PROVE  Declaration(s[d]) /\ d \in Nat
<1> DEFINE e == s[d]
           data == {i \in DOMAIN e.params : e.params[i].location = "data"}
<1>1. /\ s \in Seq(Enrichment!Range(s))
      /\ e.prefix_topics \in Seq(Enrichment!Range(e.prefix_topics)) /\ e.params \in Seq(Enrichment!Range(e.params))
      /\ \A i \in DOMAIN e.params : e.params[i].location \in {"topic", "data"}
      /\ e.data_format \in {"map", "vec", "single"}
      /\ e.data_format = "map" => \A i, j \in data : e.params[i].name = e.params[j].name => i = j
      /\ e.data_format = "single" => \A i, j \in data : i = j
  BY SideAssumption DEF Enrichment!EnrichmentAssumption
<1>2. Enrichment!InData(e) = data
  BY <1>1 DEF Enrichment!InData, Enrichment!InTopics
<1> HIDE DEF data, e
<1>3. Declaration(e)
  BY <1>1, <1>2 DEF Declaration
<1>4. d \in Nat
  BY <1>1
<1> QED BY <1>3, <1>4 DEF e

LEMMA SameCount == ASSUME NEW S PROVE Enrichment!Cardinality(S) = Cardinality(S)
BY DEF IsFiniteSet, Cardinality, Enrichment!IsFiniteSet, Enrichment!Cardinality

(* The position of a parameter is its own among those in the same place.   *)
LEMMA PlaceOfItsOwn ==
    ASSUME NEW e, Declaration(e), NEW S \in {Enrichment!InTopics(e), Enrichment!InData(e)}, NEW i \in S
    PROVE  /\ Cardinality(S) \in Nat /\ Enrichment!Place(e, i) \in 1 .. Cardinality(S)
           /\ \A j \in S : Enrichment!Place(e, j) = Enrichment!Place(e, i) => j = i
<1> DEFINE Upto(j) == {k \in 1 .. j : e.params[k].location = e.params[i].location}
<1>1. /\ S = {k \in 1 .. Len(e.params) : e.params[k].location = e.params[i].location}
      /\ i \in 1 .. Len(e.params) /\ Len(e.params) \in Nat
  BY DEF Declaration, Enrichment!InTopics, Enrichment!InData
<1>2. IsFiniteSet(S) /\ Cardinality(S) \in Nat
  <2>1. S \in SUBSET (1 .. Len(e.params))
    BY <1>1
  <2>2. 1 \in Int /\ Len(e.params) \in Int
    BY <1>1
  <2>3. IsFiniteSet(1 .. Len(e.params))
    BY <2>2, FS_Interval
  <2>4. IsFiniteSet(S)
    BY <2>1, <2>3, FS_Subset
  <2> QED BY <2>4, FS_CardinalityType
<1>3. \A j \in S : Enrichment!Place(e, j) = Cardinality(Upto(j))
  BY <1>1, SameCount DEF Enrichment!Place
<1>4. \A j \in S : Upto(j) \in SUBSET S /\ j \in Upto(j) /\ j \in Nat
  BY <1>1
<1>5. \A j, k \in S : j < k => Upto(j) \in SUBSET Upto(k) /\ k \notin Upto(j)
  BY <1>1
<1>6. \A j \in S : IsFiniteSet(Upto(j)) /\ Cardinality(Upto(j)) \in Nat /\ Cardinality(Upto(j)) <= Cardinality(S)
  BY <1>2, <1>4, FS_Subset, FS_CardinalityType
<1>7. \A j \in S : Cardinality(Upto(j)) # 0
  BY <1>4, <1>6, FS_EmptySet
<1>8. \A j, k \in S : j < k => Cardinality(Upto(j)) # Cardinality(Upto(k))
  BY <1>4, <1>5, <1>6, FS_Subset
<1> HIDE DEF Upto
<1>9. Enrichment!Place(e, i) \in 1 .. Cardinality(S)
  BY <1>2, <1>3, <1>6, <1>7
<1>10. \A j \in S : Enrichment!Place(e, j) = Enrichment!Place(e, i) => j = i
  BY <1>3, <1>4, <1>8
<1> QED BY <1>2, <1>9, <1>10

(* What is published at that position is the parameter's value.            *)
LEMMA Picked ==
    ASSUME NEW e, Declaration(e), NEW vals, NEW S \in {Enrichment!InTopics(e), Enrichment!InData(e)}, NEW i \in S
    PROVE  /\ DOMAIN Enrichment!Pick(e, S, vals) = 1 .. Cardinality(S) /\ Cardinality(S) \in Nat
           /\ Enrichment!Place(e, i) \in 1 .. Cardinality(S)
           /\ Enrichment!Pick(e, S, vals)[Enrichment!Place(e, i)] = vals[i]
<1>1. /\ Cardinality(S) \in Nat /\ Enrichment!Place(e, i) \in 1 .. Cardinality(S)
      /\ \A j \in S : Enrichment!Place(e, j) = Enrichment!Place(e, i) => j = i
  BY PlaceOfItsOwn
<1>2. (CHOOSE j \in S : Enrichment!Place(e, j) = Enrichment!Place(e, i)) = i
  BY <1>1
<1>3. Enrichment!Pick(e, S, vals)
        = [k \in 1 .. Cardinality(S) |-> vals[CHOOSE j \in S : Enrichment!Place(e, j) = k]]
  BY SameCount DEF Enrichment!Pick
<1> QED BY <1>1, <1>2, <1>3

(* The topics of an emission: the declared ones, then the parameters.      *)
LEMMA PublishedTopics ==
    ASSUME NEW e, Declaration(e), NEW vals
    PROVE  LET t == Enrichment!Published(e, vals).topics
               n == Len(e.prefix_topics)
           IN /\ Len(t) \in Nat /\ DOMAIN t = 1 .. Len(t) /\ n <= Len(t)
              /\ \A i \in 1 .. n : t[i] = <<"str", e.prefix_topics[i]>>
              /\ \A i \in Enrichment!InTopics(e) : /\ n + Enrichment!Place(e, i) \in DOMAIN t
                                                   /\ t[n + Enrichment!Place(e, i)] = vals[i]
<1> DEFINE t == Enrichment!Published(e, vals).topics
           n == Len(e.prefix_topics)
           S == Enrichment!InTopics(e)
           c == Cardinality(S)
           p == [i \in 1 .. n |-> <<"str", e.prefix_topics[i]>>]
           q == Enrichment!Pick(e, S, vals)
           U == {p[i] : i \in 1 .. n} \cup {q[i] : i \in 1 .. c}
<1>1. t = p \o q
  BY DEF Enrichment!Published
<1>2. n \in Nat /\ c \in Nat
  <2>1. S \in SUBSET (1 .. Len(e.params)) /\ IsFiniteSet(1 .. Len(e.params))
    BY FS_Interval DEF Declaration, Enrichment!InTopics
  <2> QED BY <2>1, FS_Subset, FS_CardinalityType DEF Declaration
<1>3. q = [k \in 1 .. c |-> vals[CHOOSE j \in S : Enrichment!Place(e, j) = k]]
  BY SameCount DEF Enrichment!Pick
<1>4. DOMAIN q = 1 .. c /\ q = [k \in 1 .. c |-> q[k]]
  BY <1>3
<1> HIDE DEF q, S, c
<1>5. DOMAIN p = 1 .. n /\ \A i \in 1 .. n : p[i] = <<"str", e.prefix_topics[i]>>
  OBVIOUS
<1>6. p = [i \in 1 .. n |-> p[i]]
  OBVIOUS
<1> HIDE DEF p, n
<1>7. p \in [1 .. n -> U] /\ q \in [1 .. c -> U]
  BY <1>4, <1>5, <1>6
<1> HIDE DEF U
<1>8. p \in Seq(U) /\ Len(p) = n /\ q \in Seq(U) /\ Len(q) = c
  BY <1>2, <1>7
<1>9. /\ p \o q \in Seq(U) /\ Len(p \o q) = n + c
      /\ \A i \in 1 .. n : (p \o q)[i] = p[i]
      /\ \A i \in 1 .. c : (p \o q)[n + i] = q[i]
  BY <1>2, <1>8
<1>10. ASSUME NEW i \in S
       PROVE  /\ n + Enrichment!Place(e, i) \in DOMAIN t
              /\ t[n + Enrichment!Place(e, i)] = vals[i]
  <2>1. Enrichment!Place(e, i) \in 1 .. c /\ q[Enrichment!Place(e, i)] = vals[i]
    BY <1>10, Picked DEF S, c, q
  <2>2. DOMAIN (p \o q) = 1 .. n + c
    BY <1>2, <1>9
  <2> QED BY <1>1, <1>2, <1>9, <2>1, <2>2
<1>11. Len(t) = n + c /\ DOMAIN t = 1 .. n + c /\ \A i \in 1 .. n : t[i] = <<"str", e.prefix_topics[i]>>
  BY <1>1, <1>2, <1>5, <1>9
<1> HIDE DEF t
<1>12. Len(t) \in Nat /\ DOMAIN t = 1 .. Len(t) /\ n <= Len(t)
  BY <1>2, <1>11
<1> QED BY <1>10, <1>11, <1>12 DEF t, n, S

(* Every parameter is bound to its value.                                  *)
LEMMA BoundTrue ==
    ASSUME NEW e, Declaration(e), e.prefix_topics # <<>>, NEW vals, NEW i \in DOMAIN e.params
    PROVE  Enrichment!Bound(e, Enrichment!Published(e, vals), i) = vals[i]
<1> DEFINE w == Enrichment!Published(e, vals)
           D == Enrichment!InData(e)
<1>1. CASE e.params[i].location = "topic"
  <2>1. i \in Enrichment!InTopics(e)
    BY <1>1 DEF Enrichment!InTopics
  <2>2. Enrichment!skip(e) = Len(e.prefix_topics)
    BY DEF Enrichment!skip
  <2> QED BY <1>1, <2>1, <2>2, PublishedTopics DEF Enrichment!Bound, Enrichment!At
<1>2. CASE e.params[i].location = "data"
  <2>1. i \in D /\ e.data_format \in {"map", "vec", "single"}
    BY <1>2 DEF Enrichment!InData, Enrichment!InTopics, Declaration
  <2>2. CASE e.data_format = "map"
    <3> DEFINE At(n) == vals[CHOOSE j \in D : e.params[j].name = n]
    <3>1. w.data = [n \in {e.params[j].name : j \in D} |-> At(n)]
      BY <2>2 DEF Enrichment!Published
    <3>2. (CHOOSE j \in D : e.params[j].name = e.params[i].name) = i
      BY <2>1, <2>2 DEF Declaration
    <3>3. At(e.params[i].name) = vals[i]
      BY <3>2
    <3> HIDE DEF w, D, At
    <3>4. e.params[i].name \in {e.params[j].name : j \in D}
      BY <2>1
    <3>5. e.params[i].name \in DOMAIN w.data /\ w.data[e.params[i].name] = vals[i]
      BY <3>1, <3>3, <3>4
    <3> QED BY <1>2, <2>2, <3>5 DEF Enrichment!Bound, w
  <2>3. CASE e.data_format # "map"
    <3>1. w.data = Enrichment!Pick(e, D, vals)
      BY <2>3 DEF Enrichment!Published
    <3>2. /\ DOMAIN w.data = 1 .. Cardinality(D) /\ Enrichment!Place(e, i) \in 1 .. Cardinality(D)
          /\ w.data[Enrichment!Place(e, i)] = vals[i] /\ Cardinality(D) \in Nat
      BY <2>1, <3>1, Picked
    <3>3. CASE e.data_format = "vec"
      BY <1>2, <3>2, <3>3 DEF Enrichment!Bound, Enrichment!At
    <3>4. CASE e.data_format = "single"
      <4>1. D = {i}
        BY <2>1, <3>4 DEF Declaration
      <4>2. Cardinality(D) = 1
        BY <4>1, FS_Singleton
      <4>3. Enrichment!Place(e, i) = 1
        BY <3>2, <4>2
      <4> QED BY <1>2, <3>2, <3>4, <4>3 DEF Enrichment!Bound, Enrichment!At
    <3> QED BY <2>1, <2>3, <3>3, <3>4
  <2> QED BY <2>2, <2>3
<1> QED BY <1>1, <1>2 DEF Declaration

(* The declaration found for an emission no other one claims: its own.     *)
LEMMA MatchesItsOwn ==
    ASSUME NEW ev \in DOMAIN spec, spec \in EventInterfaces, NEW vals,
           emitted.event = ev, wire = Enrichment!Published(spec[ev], vals),
           spec[ev].prefix_topics # <<>>, ~Enrichment!Ambiguous
    PROVE  Enrichment!Matching(wire.topics) = {ev}
<1> DEFINE e == spec[ev]
           t == wire.topics
           p == e.prefix_topics
           n == Len(p)
<1>1. \A d \in DOMAIN spec : Declaration(spec[d]) /\ d \in Nat
  BY Declared
<1>2. /\ n \in Nat /\ DOMAIN p = 1 .. n /\ p \in Seq(Enrichment!Range(p)) /\ n # 0
      /\ Len(t) \in Nat /\ n <= Len(t) /\ \A i \in 1 .. n : t[i] = <<"str", p[i]>>
  <2>1. n \in Nat /\ DOMAIN p = 1 .. n /\ p \in Seq(Enrichment!Range(p)) /\ Declaration(e)
    BY <1>1 DEF Declaration
  <2>2. n # 0
    BY <2>1
  <2> QED BY <2>1, <2>2, PublishedTopics
<1>3. n \in Enrichment!Leading(t)
  BY <1>2 DEF Enrichment!Leading
<1>4. Enrichment!PrefixOf(t, n) = p
  <2>1. p = [i \in 1 .. n |-> p[i]]
    BY <1>2
  <2>2. \A i \in 1 .. n : t[i][2] = p[i]
    BY <1>2
  <2> HIDE DEF p, n, t
  <2> QED BY <2>1, <2>2 DEF Enrichment!PrefixOf
<1>5. \A d \in DOMAIN spec :
        /\ Len(spec[d].prefix_topics) >= n /\ Len(spec[d].prefix_topics) \in Enrichment!Leading(t)
        /\ Enrichment!PrefixOf(t, Len(spec[d].prefix_topics)) = spec[d].prefix_topics
        => d = ev
  BY DEF Enrichment!Ambiguous
<1>6. ASSUME NEW m \in Enrichment!Leading(t), NEW d \in DOMAIN spec,
             spec[d].prefix_topics = Enrichment!PrefixOf(t, m), m >= n
      PROVE  d = ev /\ m = n
  <2>1. m \in Nat
    BY <1>6 DEF Enrichment!Leading
  <2>2. Len(Enrichment!PrefixOf(t, m)) = m
    BY <2>1 DEF Enrichment!PrefixOf
  <2>3. d = ev
    BY <1>5, <1>6, <2>2
  <2> QED BY <1>6, <2>2, <2>3
<1>7. Enrichment!events_by_prefix(p) = {ev}
  <2>1. \A d \in DOMAIN spec : spec[d].prefix_topics = p => d = ev
    BY <1>2, <1>3, <1>4, <1>6
  <2>2. ev \in Nat
    BY <1>1
  <2> QED BY <2>1, <2>2 DEF Enrichment!events_by_prefix
<1> DEFINE lens == {m \in Enrichment!Leading(t) : Enrichment!events_by_prefix(Enrichment!PrefixOf(t, m)) # {}}
<1>8. n \in lens
  BY <1>3, <1>4, <1>7
<1>9. \A m \in lens : m \in Nat /\ m <= n
  <2> SUFFICES ASSUME NEW m \in lens PROVE m \in Nat /\ m <= n
    OBVIOUS
  <2>1. m \in Enrichment!Leading(t) /\ m \in Nat
    BY DEF Enrichment!Leading
  <2>2. PICK d \in DOMAIN spec : spec[d].prefix_topics = Enrichment!PrefixOf(t, m)
    BY DEF Enrichment!events_by_prefix
  <2> QED BY <1>2, <1>6, <2>1, <2>2
<1>10. Enrichment!Matching(t) = Enrichment!events_by_prefix(Enrichment!PrefixOf(t, Enrichment!Longest(lens)))
  BY <1>8 DEF Enrichment!Matching
<1> HIDE DEF lens, n, t, p
<1>11. Enrichment!Longest(lens) = n
  <2>1. \A m \in lens : m <= n
    BY <1>9
  <2>2. \A k \in lens : (\A m \in lens : m <= k) => k = n
    BY <1>2, <1>8, <1>9
  <2> QED BY <1>8, <2>1, <2>2 DEF Enrichment!Longest
<1> QED BY <1>4, <1>7, <1>10, <1>11 DEF t

(* The inductive invariant: on the wire is what the declaration says, and  *)
(* what is shown is computed from the wire alone.                          *)
EnrichInv ==
    /\ spec \in EventInterfaces
    /\ \/ emitted.event = 0 /\ enriched = Enrichment!None
       \/ /\ emitted.event \in DOMAIN spec
          /\ emitted.vals \in [DOMAIN spec[emitted.event].params -> ParamValues]
          /\ wire = Enrichment!Published(spec[emitted.event], emitted.vals)
          /\ enriched \in {Enrichment!None, Enrichment!enrich_event(wire)}

LEMMA EnrichInitially == Enrichment!Init => EnrichInv
BY DEF Enrichment!Init, EnrichInv

LEMMA EnrichStep == ASSUME EnrichInv, Enrichment!Next PROVE EnrichInv'
<1>1. ASSUME NEW i \in DOMAIN spec, NEW vals \in [DOMAIN spec[i].params -> ParamValues], Enrichment!Publish(i, vals)
      PROVE  EnrichInv'
  <2>1. /\ emitted.event = 0 /\ emitted' = [event |-> i, vals |-> vals]
        /\ wire' = Enrichment!Published(spec[i], vals) /\ spec' = spec /\ enriched' = enriched
    BY <1>1 DEF Enrichment!Publish
  <2>2. enriched = Enrichment!None /\ spec \in EventInterfaces
    <3>1. 0 \notin DOMAIN spec
      BY SideAssumption DEF EnrichInv, Enrichment!EnrichmentAssumption
    <3> QED BY <2>1, <3>1 DEF EnrichInv
  <2>3. emitted'.event = i /\ emitted'.vals = vals
    BY <2>1
  <2> QED BY <2>1, <2>2, <2>3 DEF EnrichInv
<1>2. CASE Enrichment!Decode
  <2>1. UNCHANGED <<spec, emitted, wire>>
    BY <1>2 DEF Enrichment!Decode
  <2>2. Enrichment!enrich_event(wire)' = Enrichment!enrich_event(wire)
    BY <2>1 DEF Enrichment!enrich_event, Enrichment!Matching, Enrichment!events_by_prefix, Enrichment!events_by_name
  <2>3. emitted.event # 0 /\ enriched' = Enrichment!enrich_event(wire)
    BY <1>2 DEF Enrichment!Decode
  <2> QED BY <2>1, <2>2, <2>3 DEF EnrichInv
<1> QED BY <1>1, <1>2 DEF Enrichment!Next

LEMMA EnrichIdle == ASSUME EnrichInv, UNCHANGED enrichVars PROVE EnrichInv'
<1>1. UNCHANGED <<spec, emitted, wire, enriched>>
  BY DEF enrichVars
<1>2. Enrichment!enrich_event(wire)' = Enrichment!enrich_event(wire)
  BY <1>1 DEF Enrichment!enrich_event, Enrichment!Matching, Enrichment!events_by_prefix, Enrichment!events_by_name
<1> QED BY <1>1, <1>2 DEF EnrichInv

LEMMA EnrichTrue == EnrichInv => Enrichment!EnrichedTrue
<1> SUFFICES ASSUME EnrichInv, enriched # Enrichment!None,
                    spec[emitted.event].prefix_topics # <<>>, ~Enrichment!Ambiguous
             PROVE  /\ enriched.event = spec[emitted.event].name
                    /\ DOMAIN enriched.params = Enrichment!Names(spec[emitted.event])
                    /\ \A i \in DOMAIN spec[emitted.event].params :
                          (\A j \in DOMAIN spec[emitted.event].params :
                             spec[emitted.event].params[j].name = spec[emitted.event].params[i].name => j <= i)
                          => enriched.params[spec[emitted.event].params[i].name] = emitted.vals[i]
  BY DEF Enrichment!EnrichedTrue, Enrichment!Names
<1> DEFINE ev == emitted.event
           e == spec[ev]
<1>1. /\ spec \in EventInterfaces /\ ev \in DOMAIN spec /\ emitted.vals \in [DOMAIN e.params -> ParamValues]
      /\ wire = Enrichment!Published(e, emitted.vals) /\ enriched = Enrichment!enrich_event(wire)
  BY DEF EnrichInv
<1>2. Enrichment!Matching(wire.topics) = {ev}
  BY <1>1, MatchesItsOwn
<1>3. (CHOOSE i \in Enrichment!Matching(wire.topics) : TRUE) = ev
  BY <1>2
<1> DEFINE bound == [n \in Enrichment!Names(e) |-> Enrichment!Bound(e, wire, Enrichment!LastNamed(e, n))]
<1>4. enriched = [event |-> e.name, params |-> bound]
  BY <1>1, <1>3 DEF Enrichment!enrich_event
<1>5. \A i \in DOMAIN e.params : Enrichment!Bound(e, wire, i) = emitted.vals[i]
  BY <1>1, Declared, BoundTrue
<1>6. ASSUME NEW i \in DOMAIN e.params, \A j \in DOMAIN e.params : e.params[j].name = e.params[i].name => j <= i
      PROVE  bound[e.params[i].name] = emitted.vals[i]
  <2> DEFINE named == {j \in DOMAIN e.params : e.params[j].name = e.params[i].name}
  <2>1. \A j \in DOMAIN e.params : j \in Int
    BY <1>1, Declared DEF Declaration
  <2>2. \A k \in named : (\A j \in named : j <= k) => k = i
    BY <1>6, <2>1
  <2>3. i \in named /\ \A j \in named : j <= i
    BY <1>6
  <2> HIDE DEF named
  <2>4. (CHOOSE k \in named : \A j \in named : j <= k) = i
    BY <2>2, <2>3
  <2>5. Enrichment!LastNamed(e, e.params[i].name) = i
    BY <2>4 DEF Enrichment!LastNamed, named
  <2>6. e.params[i].name \in Enrichment!Names(e)
    BY <1>6 DEF Enrichment!Names
  <2> QED BY <1>5, <1>6, <2>5, <2>6
<1> QED BY <1>4, <1>6

(* What a contract's interface is used for is right, for any interfaces,   *)
(* declarations and values.  An event is shown under its own name with     *)
(* every parameter's value, although it is found by its leading topics     *)
(* alone and the texts among its parameters may read as topics, unless two *)
(* declarations claim it (spec.rs).  And an integration built against any  *)
(* recorded interface works with the latest as long as no verdict since    *)
(* was "breaking", and meets nothing new as long as all were "additive",   *)
(* although a diff only ever compares neighbours (diff.rs), except that it *)
(* no longer finds an event whose leading topics an upgrade changed: a     *)
(* diff does not look at them (diff.rs:525), so no verdict covers that.    *)
THEOREM InterfacesTrueHolds == SideSpec => []InterfacesTrue
<1> DEFINE FocusInv == (focus = "enrich" => EnrichInv) /\ (focus = "diff" => DiffInv)
<1>1. SideInit => FocusInv
  BY EnrichInitially, DiffInitially DEF SideInit
<1>2. FocusInv /\ [SideNext]_<<focus, sideVars>> => FocusInv'
  BY EnrichStep, EnrichIdle, DiffStep, DiffIdle DEF SideNext, sideVars
<1>3. FocusInv => InterfacesTrue
  BY EnrichTrue DEF InterfacesTrue, DiffInv
<1> QED BY <1>1, <1>2, <1>3, PTL DEF SideSpec
=============================================================================
