-------------------------- MODULE IngestionProofs --------------------------
(***************************************************************************)
(* What TLAPS proves of Ingestion, for any chain, window, page size and    *)
(* number of pollers: type correctness, that the cursor covers what it     *)
(* claims, that a range marked recovered was replayed to its end, that the *)
(* ingested counter never counts a row twice, and that the cursor never    *)
(* moves back while one process leads.  The last part is about Backfill,   *)
(* the `backfill` command beside the pollers: the types of both, that a    *)
(* finished backfill has stored what it was asked for, and that the        *)
(* counter it shares with the pollers never counts a row twice.            *)
(***************************************************************************)
EXTENDS Backfill, FiniteSetTheorems, TLAPS

-----------------------------------------------------------------------------
(* Paging: tokens and pages are intervals of the events *)

(* Every set of events is finite, with a natural cardinality. *)
LEMMA EventSets ==
    ASSUME NEW S \in SUBSET Events
    PROVE  IsFiniteSet(S) /\ Cardinality(S) \in Nat /\ Cardinality(S) <= NumEvents
<1>1. IsFiniteSet(1..NumEvents) /\ Cardinality(1..NumEvents) = NumEvents
  BY FS_Interval, ChainAssumption
<1>2. IsFiniteSet(S) /\ Cardinality(S) <= NumEvents
  BY <1>1, FS_Subset DEF Events
<1> QED BY <1>2, FS_CardinalityType

(* A set of events that has every event from `low` up to any of its        *)
(* members, and none below, is the interval of its cardinality.            *)
LEMMA RunOfEvents ==
    ASSUME NEW S \in SUBSET Events, NEW low \in Nat \ {0},
           \A e \in S : low <= e,
           \A e \in S, f \in Events : low <= f /\ f <= e => f \in S
    PROVE  \A e \in Events : low <= e => (e \in S <=> e < low + Cardinality(S))
<1> SUFFICES ASSUME NEW e \in Events, low <= e
             PROVE  e \in S <=> e < low + Cardinality(S)
  OBVIOUS
<1>0. Cardinality(S) \in Nat /\ e \in Nat /\ IsFiniteSet(S)
  BY EventSets, ChainAssumption DEF Events
<1>1. ASSUME e \in S PROVE e < low + Cardinality(S)
  <2>1. low..e \subseteq S
    BY <1>0, <1>1, ChainAssumption DEF Events
  <2>2. Cardinality(low..e) = e - low + 1
    BY FS_Interval, <1>0
  <2>3. Cardinality(low..e) <= Cardinality(S)
    BY <1>0, <2>1, FS_Subset
  <2> QED BY <1>0, <2>2, <2>3
<1>2. ASSUME e \notin S PROVE ~(e < low + Cardinality(S))
  <2>1. S \subseteq low..(e - 1)
    <3> SUFFICES ASSUME NEW f \in S PROVE f \in low..(e - 1)
      OBVIOUS
    <3>1. f \in Nat /\ low <= f
      BY ChainAssumption DEF Events
    <3>2. ~(e <= f)
      BY <1>2
    <3> QED BY <1>0, <3>1, <3>2
  <2>2. /\ IsFiniteSet(low..(e - 1))
        /\ Cardinality(low..(e - 1)) = e - low
    <3>1. low \in Int /\ e - 1 \in Int
      BY <1>0
    <3>2. /\ IsFiniteSet(low..(e - 1))
          /\ Cardinality(low..(e - 1)) = IF low > e - 1 THEN 0 ELSE (e - 1) - low + 1
      BY <3>1, FS_Interval
    <3>3. (IF low > e - 1 THEN 0 ELSE (e - 1) - low + 1) = e - low
      BY <1>0
    <3> QED BY <3>2, <3>3
  <2>3. Cardinality(S) <= Cardinality(low..(e - 1))
    BY <2>1, <2>2, FS_Subset
  <2> QED BY <1>0, <2>2, <2>3
<1> QED BY <1>1, <1>2

(* The first token splits the events at ledger s. *)
LEMMA FirstTokenSplits ==
    ASSUME NEW s \in Int
    PROVE  /\ FirstToken(s) \in 1..(NumEvents + 1)
           /\ \A i \in Events : i < FirstToken(s) => LedgerOf[i] < s
           /\ \A i \in Events : i >= FirstToken(s) => LedgerOf[i] >= s
<1> DEFINE S == {e \in Events : LedgerOf[e] < s}
           k == 1 + Cardinality(S)
<1>1. Cardinality(S) \in Nat /\ Cardinality(S) <= NumEvents
  BY EventSets
<1>2. \A e \in Events : e \in Nat \ {0} /\ LedgerOf[e] \in Int
  BY ChainAssumption DEF Events
<1>3. \A e \in S, f \in Events : f <= e => f \in S
  BY <1>2, ChainAssumption DEF Events
<1>4. \A e \in Events : 1 <= e => (e \in S <=> e < 1 + Cardinality(S))
  <2>1. \A e \in S : 1 <= e
    BY <1>2
  <2>2. \A e \in S, f \in Events : 1 <= f /\ f <= e => f \in S
    BY <1>3
  <2>3. S \in SUBSET Events /\ 1 \in Nat \ {0}
    OBVIOUS
  <2> HIDE DEF S
  <2> QED BY <2>1, <2>2, <2>3, RunOfEvents
<1>5. /\ k \in 1..(NumEvents + 1)
      /\ \A i \in Events : i < k => LedgerOf[i] < s
      /\ \A i \in Events : i >= k => LedgerOf[i] >= s
  <2> DEFINE c == Cardinality(S)
  <2>1. c \in Nat /\ c <= NumEvents /\ NumEvents \in Nat
    BY <1>1, ChainAssumption
  <2>2. \A e \in Events : LedgerOf[e] < s <=> e < 1 + c
    BY <1>2, <1>4
  <2> HIDE DEF c
  <2>3. /\ 1 + c \in 1..(NumEvents + 1)
        /\ \A i \in Events : i < 1 + c => LedgerOf[i] < s
        /\ \A i \in Events : i >= 1 + c => LedgerOf[i] >= s
    BY <1>2, <2>1, <2>2
  <2> QED BY <2>3 DEF c
<1> HIDE DEF k
<1> QED BY <1>5 DEF FirstToken

(* A page is the run of consecutive events from its token on; a short one  *)
(* is the last the endpoint has.                                           *)
LEMMA PageIsRun ==
    ASSUME NEW token \in Nat \ {0}, NEW t \in Int
    PROVE  /\ Page(token, t) \in SUBSET Events
           /\ Cardinality(Page(token, t)) \in Nat
           /\ \A e \in Events : token <= e =>
                (e \in Page(token, t) <=> e < token + Cardinality(Page(token, t)))
<1> DEFINE S == Page(token, t)
<1>1. \A e \in Events : e \in Nat \ {0} /\ LedgerOf[e] \in Int
  BY ChainAssumption DEF Events
<1>2. S \in SUBSET Events /\ \A e \in S : token <= e
  BY DEF Page
<1>3. \A e \in S, f \in Events : token <= f /\ f <= e => f \in S
  BY <1>1, ChainAssumption DEF Page, Events
<1> HIDE DEF S
<1> QED BY <1>2, <1>3, EventSets, RunOfEvents DEF S

LEMMA ShortPageIsLast ==
    ASSUME NEW token \in Nat \ {0}, NEW t \in Int,
           ShortPage(Cardinality(Page(token, t))),
           NEW e \in Events, token + Cardinality(Page(token, t)) <= e
    PROVE  LedgerOf[e] > t
<1> DEFINE n == Cardinality(Page(token, t))
           f == token + n
<1>1. \A i \in Events : i \in Nat \ {0} /\ LedgerOf[i] \in Int
  BY ChainAssumption DEF Events
<1>2. n \in Nat
  BY PageIsRun
<1>3. /\ \A i \in Events : token <= i => (i \in Page(token, t) <=> i < f)
      /\ f <= e /\ n < PageSize
  BY PageIsRun DEF ShortPage
<1> HIDE DEF n
<1>6. f \in Events /\ token <= f /\ f < token + PageSize
  BY <1>2, <1>3, ChainAssumption DEF Events
<1>7. f \notin Page(token, t)
  BY <1>1, <1>2, <1>3, <1>6
<1>4. LedgerOf[f] > t
  BY <1>1, <1>6, <1>7 DEF Page
<1>5. LedgerOf[f] <= LedgerOf[e]
  BY <1>3, <1>6, ChainAssumption DEF Events
<1> QED BY <1>1, <1>4, <1>5, <1>6

(* The token after a page is a token, and the event before it is the last  *)
(* of the page.                                                            *)
LEMMA NextTokenType ==
    ASSUME NEW token \in 1..(NumEvents + 1), NEW t \in Int
    PROVE  /\ NextToken(token, Page(token, t)) \in 1..(NumEvents + 1)
           /\ token <= NextToken(token, Page(token, t))
           /\ Page(token, t) # {} =>
                /\ NextToken(token, Page(token, t)) - 1 \in Events
                /\ token <= NextToken(token, Page(token, t)) - 1
<1> DEFINE S == Page(token, t)
           n == Cardinality(S)
<1>0. token \in Nat \ {0} /\ NumEvents \in Nat
  BY ChainAssumption
<1>1. S \in SUBSET Events /\ n \in Nat
  BY <1>0, PageIsRun
<1>2. S \subseteq token..NumEvents
  BY DEF Page, Events
<1>3. IsFiniteSet(token..NumEvents) /\ Cardinality(token..NumEvents) = NumEvents - token + 1
  <2>1. /\ IsFiniteSet(token..NumEvents)
        /\ Cardinality(token..NumEvents) =
                IF token > NumEvents THEN 0 ELSE NumEvents - token + 1
    BY <1>0, FS_Interval
  <2> QED BY <1>0, <2>1
<1>4. n <= NumEvents - token + 1
  BY <1>2, <1>3, FS_Subset
<1>5. S # {} => n # 0
  BY <1>1, EventSets, FS_EmptySet
<1> HIDE DEF n, S
<1>6. /\ token + n \in 1..(NumEvents + 1) /\ token <= token + n
      /\ S # {} => token + n - 1 \in 1..NumEvents /\ token <= token + n - 1
  BY <1>0, <1>1, <1>4, <1>5
<1>7. NextToken(token, S) = token + n
  BY DEF NextToken, n
<1>8. /\ NextToken(token, S) \in 1..(NumEvents + 1) /\ token <= NextToken(token, S)
      /\ S # {} => NextToken(token, S) - 1 \in Events /\ token <= NextToken(token, S) - 1
  BY <1>0, <1>1, <1>6, <1>7 DEF Events
<1> QED BY <1>8 DEF S

-----------------------------------------------------------------------------
(* Type correctness *)

(* The tip a cycle works with exists. *)
TipInv ==
    \A p \in Pollers : pc[p] \in InCycle =>
        1 <= cycle[p].latest /\ cycle[p].latest <= tip

LEMMA TypeInit == Init => TypeOK /\ TipInv
BY ChainAssumption, IngestionAssumption
DEF Init, TypeOK, TipInv, NoGap, Gap, MissedRow, MissedRange, NoCycle, Cycle,
    PollerStates, InCycle, Ledgers, Events

(* The steps of a process outside poll_once. *)
LEMMA TypeProcess ==
    ASSUME TypeOK, TipInv, NEW p \in Pollers, ProcessStep(p)
    PROVE  TypeOK' /\ TipInv'
<1> USE ChainAssumption, IngestionAssumption
<1>1. NoCycle \in Cycle
  BY DEF NoCycle, Cycle
<1>2. CASE AcquireLock(p)
  BY <1>2 DEF AcquireLock, TypeOK, TipInv, PollerStates, InCycle
<1>3. CASE LoseLock(p)
  BY <1>3 DEF LoseLock, TypeOK, TipInv
<1>4. CASE KeepaliveExit(p)
  BY <1>1, <1>4 DEF KeepaliveExit, TypeOK, TipInv, PollerStates, InCycle
<1>5. CASE Crash(p)
  BY <1>1, <1>5 DEF Crash, TypeOK, TipInv, PollerStates, InCycle
<1>6. CASE Restart(p)
  BY <1>6 DEF Restart, TypeOK, TipInv, PollerStates, InCycle
<1> QED BY <1>2, <1>3, <1>4, <1>5, <1>6 DEF ProcessStep

(* Where a cycle starts, and what the clamps skip. *)
LEMMA PlanTypes ==
    ASSUME TypeOK, TipInv, NEW p \in Pollers, pc[p] = "plan"
    PROVE  /\ cycle[p].latest \in 1..MaxTip /\ cycle[p].oldest \in 1..MaxTip
           /\ ResumeAt(p) \in 1..(MaxTip + 1)
           /\ ~cursor.present => ResumeAt(p) \in 1..MaxTip
           /\ ResumeAt(p) <= cycle[p].latest =>
                /\ WindowStart(p) \in 1..MaxTip
                /\ ClampedStart(p) \in 1..MaxTip
                /\ ResumeAt(p) <= WindowStart(p)
                /\ WindowStart(p) <= ClampedStart(p)
           /\ ResumeAt(p) > cycle[p].latest => ResumeAt(p) - 1 \in 0..MaxTip
<1> USE ChainAssumption, IngestionAssumption
<1>1. cycle[p].latest \in 1..MaxTip /\ cycle[p].oldest \in 1..MaxTip
  BY DEF TypeOK, TipInv, Cycle, InCycle
<1>2. cursor.last \in 0..MaxTip
  BY DEF TypeOK
<1>3. ResumeAt(p) \in 1..(MaxTip + 1) /\ (~cursor.present => ResumeAt(p) \in 1..MaxTip)
  BY <1>1, <1>2 DEF ResumeAt
<1>4. ResumeAt(p) > cycle[p].latest => ResumeAt(p) - 1 \in 0..MaxTip
  BY <1>1, <1>3
<1>5. ASSUME ResumeAt(p) <= cycle[p].latest
      PROVE  /\ WindowStart(p) \in 1..MaxTip
             /\ ClampedStart(p) \in 1..MaxTip
             /\ ResumeAt(p) <= WindowStart(p)
             /\ WindowStart(p) <= ClampedStart(p)
  <2>1. WindowStart(p) \in 1..MaxTip /\ ResumeAt(p) <= WindowStart(p)
    BY <1>1, <1>3, <1>5 DEF WindowStart, Larger
  <2>2. CASE cycle[p].latest - WindowStart(p) > MaxCatchup
    BY <1>1, <2>1, <2>2 DEF ClampedStart
  <2>3. CASE ~(cycle[p].latest - WindowStart(p) > MaxCatchup)
    BY <1>1, <2>1, <2>3 DEF ClampedStart
  <2> QED BY <2>1, <2>2, <2>3
<1> QED BY <1>1, <1>3, <1>4, <1>5

LEMMA SkippedTypes ==
    ASSUME TypeOK, TipInv, NEW p \in Pollers, pc[p] = "plan",
           ResumeAt(p) <= cycle[p].latest
    PROVE  /\ Skipped(ResumeAt(p), WindowStart(p) - 1, FALSE) \subseteq MissedRow
           /\ SkippedRanges(p) \subseteq MissedRow
<1>1. ASSUME NEW a \in 1..MaxTip, NEW b \in 1..MaxTip, NEW r \in BOOLEAN
      PROVE  Skipped(a, b - 1, r) \subseteq MissedRow
  <2>1. CASE a <= b - 1
    <3>1. b - 1 \in 0..MaxTip
      BY ChainAssumption
    <3>2. MissedRange(a, b - 1, r) \in MissedRow
      BY <3>1 DEF MissedRange, MissedRow
    <3> QED BY <2>1, <3>2 DEF Skipped
  <2>2. CASE ~(a <= b - 1)
    BY <2>2 DEF Skipped
  <2> QED BY <2>1, <2>2
<1>2. /\ ResumeAt(p) \in 1..MaxTip /\ WindowStart(p) \in 1..MaxTip
      /\ ClampedStart(p) \in 1..MaxTip
  BY PlanTypes, ChainAssumption
<1> QED BY <1>1, <1>2 DEF SkippedRanges

LEMMA TypePlan ==
    ASSUME TypeOK, TipInv, NEW p \in Pollers,
           PlanNothing(p) \/ PlanRange(p) \/ PlanFails(p)
    PROVE  TypeOK' /\ TipInv'
<1> USE ChainAssumption, IngestionAssumption
<1>0. pc[p] = "plan"
  BY DEF PlanNothing, PlanRange, PlanFails
<1>1. CASE PlanNothing(p)
  <2>0. ResumeAt(p) - 1 \in 0..MaxTip
    BY <1>0, <1>1, PlanTypes DEF PlanNothing
  <2>1. cycle' \in [Pollers -> Cycle]
    BY <1>1, <2>0 DEF PlanNothing, TypeOK, Cycle
  <2>2. origin' \in Ledgers
    BY <1>0, <1>1, PlanTypes DEF PlanNothing, NoteOrigin, Larger, TypeOK, Ledgers
  <2>3. \A q \in Pollers : cycle'[q].latest = cycle[q].latest
    BY <1>1 DEF PlanNothing, TypeOK, Cycle
  <2> QED BY <1>0, <1>1, <2>1, <2>2, <2>3
          DEF PlanNothing, TypeOK, TipInv, PollerStates, InCycle
<1>2. CASE PlanRange(p)
  <2>0. ClampedStart(p) \in 1..MaxTip /\ FirstToken(ClampedStart(p)) \in 1..(NumEvents + 1)
    BY <1>0, <1>2, PlanTypes, FirstTokenSplits DEF PlanRange
  <2>1. cycle' \in [Pollers -> Cycle]
    <3>1. [[[[cycle[p] EXCEPT !.start = ClampedStart(p)]
                      EXCEPT !.seen = ClampedStart(p)]
                      EXCEPT !.token = FirstToken(ClampedStart(p))]
                      EXCEPT !.target = cycle[p].latest] \in Cycle
      BY <2>0 DEF TypeOK, Cycle
    <3> QED BY <1>2, <3>1 DEF PlanRange, TypeOK, Cycle
  <2>2. origin' \in Ledgers
    BY <1>0, <1>2, PlanTypes DEF PlanRange, NoteOrigin, Larger, TypeOK, Ledgers
  <2>3. \A q \in Pollers : cycle'[q].latest = cycle[q].latest
    BY <1>2 DEF PlanRange, TypeOK, Cycle
  <2>4. missed' \subseteq MissedRow
    BY <1>0, <1>2, SkippedTypes DEF PlanRange, TypeOK
  <2> QED BY <1>0, <1>2, <2>1, <2>2, <2>3, <2>4
          DEF PlanRange, TypeOK, TipInv, PollerStates, InCycle
<1>3. CASE PlanFails(p)
  <2>1. missed' \subseteq MissedRow
    BY <1>0, <1>3, SkippedTypes DEF PlanFails, TypeOK
  <2>2. NoCycle \in Cycle
    BY DEF NoCycle, Cycle
  <2>3. cursor' \in [present : BOOLEAN, last : 0..MaxTip, ingested : Nat,
                     written : BOOLEAN]
    BY <1>3 DEF PlanFails, WithRow, TypeOK
  <2> QED BY <1>3, <2>1, <2>2, <2>3
          DEF PlanFails, TypeOK, TipInv, PollerStates, InCycle
<1> QED BY <1>1, <1>2, <1>3

CursorRow == [present : BOOLEAN, last : 0..MaxTip, ingested : Nat, written : BOOLEAN]

(* An upsert keeps the type of the row, and everything in it but its       *)
(* presence.                                                               *)
LEMMA WithRowType ==
    ASSUME TypeOK
    PROVE  WithRow(cursor) \in CursorRow /\ WithRow(cursor).last = cursor.last
BY DEF TypeOK, WithRow, CursorRow

(* What EndFetch leaves of a cycle. *)
LEMMA EndFetchType ==
    ASSUME NEW p \in Pollers, cycle[p] \in Cycle, NEW c \in Cycle,
           c.latest = cycle[p].latest
    PROVE  /\ EndFetch(p, c) \in Cycle
           /\ EndFetch(p, c).latest = c.latest /\ EndFetch(p, c).target = c.target
<1> USE ChainAssumption, IngestionAssumption
<1>0. c.latest \in 0..MaxTip
  BY DEF Cycle
<1>1. CASE WillRescan(p)
  <2>1. c.latest - ReorgOverlap \in 1..MaxTip /\ c.latest - ReorgOverlap \in Int
    BY <1>0, <1>1 DEF WillRescan
  <2>2. FirstToken(c.latest - ReorgOverlap) \in 1..(NumEvents + 1)
    BY <2>1, FirstTokenSplits
  <2>3. EndFetch(p, c) = [c EXCEPT !.start = c.latest - ReorgOverlap,
                                   !.token = FirstToken(c.latest - ReorgOverlap),
                                   !.paged = FALSE]
    BY <1>1 DEF EndFetch
  <2> QED BY <2>1, <2>2, <2>3 DEF Cycle
<1>2. CASE ~WillRescan(p)
  BY <1>2 DEF EndFetch
<1> QED BY <1>1, <1>2

(* The local variables after a page of the live fetch. *)
Fetched(p, t) ==
    LET page == Page(cycle[p].token, t) IN
    [cycle[p] EXCEPT !.token = NextToken(@, page),
                     !.seen = LastLedger(@, cycle[p].token, page),
                     !.inserted = @ + NewRows(Parsed(page)),
                     !.paged = TRUE]

LEMMA FetchedType ==
    ASSUME TypeOK, NEW p \in Pollers, NEW t \in Int
    PROVE  /\ Fetched(p, t) \in Cycle
           /\ Fetched(p, t).latest = cycle[p].latest
           /\ Fetched(p, t).target = cycle[p].target
           /\ Fetched(p, t).start = cycle[p].start
           /\ Fetched(p, t).token = NextToken(cycle[p].token, Page(cycle[p].token, t))
           /\ Fetched(p, t).seen = LastLedger(cycle[p].seen, cycle[p].token,
                                              Page(cycle[p].token, t))
<1> USE ChainAssumption, IngestionAssumption
<1> DEFINE token == cycle[p].token
           page == Page(token, t)
           n == NewRows(Parsed(page))
<1>0. cycle[p] \in Cycle
  BY DEF TypeOK
<1>1. token \in 1..(NumEvents + 1) /\ cycle[p].seen \in 1..MaxTip /\ cycle[p].inserted \in Nat
  BY <1>0 DEF Cycle
<1>2. /\ NextToken(token, page) \in 1..(NumEvents + 1)
      /\ page # {} => NextToken(token, page) - 1 \in Events
  BY <1>1, NextTokenType
<1>3. LastLedger(cycle[p].seen, token, page) \in 1..MaxTip
  BY <1>1, <1>2 DEF LastLedger, Larger, Events
<1>4. n \in Nat
  BY EventSets DEF NewRows, Parsed, Page
<1>5. Fetched(p, t) = [cycle[p] EXCEPT
            !.token = NextToken(token, page),
            !.seen = LastLedger(cycle[p].seen, token, page),
            !.inserted = cycle[p].inserted + n,
            !.paged = TRUE]
  BY DEF Fetched
<1>7. cycle[p].inserted + n \in Nat
  BY <1>1, <1>4
<1> HIDE DEF token, page, n
<1>6. /\ Fetched(p, t) \in Cycle
      /\ Fetched(p, t).latest = cycle[p].latest
      /\ Fetched(p, t).target = cycle[p].target
      /\ Fetched(p, t).start = cycle[p].start
      /\ Fetched(p, t).token = NextToken(token, page)
      /\ Fetched(p, t).seen = LastLedger(cycle[p].seen, token, page)
  <2> DEFINE k == NextToken(token, page)
             l == LastLedger(cycle[p].seen, token, page)
             i == cycle[p].inserted + n
  <2>1. /\ k \in 1..(NumEvents + 1) /\ l \in 1..MaxTip /\ i \in Nat
        /\ Fetched(p, t) = [cycle[p] EXCEPT !.token = k, !.seen = l,
                                            !.inserted = i, !.paged = TRUE]
    BY <1>2, <1>3, <1>5, <1>7
  <2> HIDE DEF k, l, i
  <2>2. /\ Fetched(p, t) \in Cycle
        /\ Fetched(p, t).latest = cycle[p].latest
        /\ Fetched(p, t).target = cycle[p].target
        /\ Fetched(p, t).start = cycle[p].start
        /\ Fetched(p, t).token = k
        /\ Fetched(p, t).seen = l
    BY <1>0, <2>1 DEF Cycle
  <2> QED BY <2>2 DEF k, l
<1> QED BY <1>6 DEF token, page

(* A page of the live fetch, in terms of Fetched. *)
LEMMA FetchPageEffect ==
    ASSUME TypeOK, NEW p \in Pollers, FetchPage(p)
    PROVE  \E t \in EndpointTips(tip) :
            /\ stored' = stored \cup Parsed(Page(cycle[p].token, t))
            /\ \/ /\ ShortPage(Cardinality(Parsed(Page(cycle[p].token, t))))
                  /\ cursor' \in {cursor, WithRow(cursor)}
                  /\ cycle' = [cycle EXCEPT ![p] = EndFetch(p, Fetched(p, t))]
                  /\ pc' = [pc EXCEPT ![p] = AfterFetch(p)]
               \/ /\ cursor' = cursor /\ pc' = pc
                  /\ cycle' = [cycle EXCEPT ![p] = Fetched(p, t)]
<1>1. PICK t \in EndpointTips(tip) :
            /\ stored' = stored \cup Parsed(Page(cycle[p].token, t))
            /\ \/ /\ ShortPage(Cardinality(Parsed(Page(cycle[p].token, t))))
                  /\ cursor' = IF SawEvent(Fetched(p, t).start, Fetched(p, t).token)
                               THEN WithRow(cursor) ELSE cursor
                  /\ cycle' = [cycle EXCEPT ![p] = EndFetch(p, Fetched(p, t))]
                  /\ pc' = [pc EXCEPT ![p] = AfterFetch(p)]
               \/ /\ cursor' = cursor /\ pc' = pc
                  /\ cycle' = [cycle EXCEPT ![p] = Fetched(p, t)]
  BY DEF FetchPage, Fetched
<1> QED BY <1>1

LEMMA TipTypes ==
    ASSUME TypeOK, NEW t \in EndpointTips(tip)
    PROVE  t \in 1..tip /\ t \in 1..MaxTip /\ t \in Int /\ OldestAt(t) \in 1..MaxTip
BY ChainAssumption DEF TypeOK, EndpointTips, OldestAt, Larger, Ledgers

(* The paging steps. *)
LEMMA TypeFetch ==
    ASSUME TypeOK, TipInv, NEW p \in Pollers,
           FetchPage(p) \/ FetchPageError(p) \/ RescanPage(p)
    PROVE  TypeOK' /\ TipInv'
<1>0. cycle[p] \in Cycle
  BY DEF TypeOK
<1>1. CASE FetchPage(p)
  <2>1. PICK t \in EndpointTips(tip) :
            /\ stored' = stored \cup Parsed(Page(cycle[p].token, t))
            /\ cursor' \in {cursor, WithRow(cursor)}
            /\ \/ /\ cycle' = [cycle EXCEPT ![p] = EndFetch(p, Fetched(p, t))]
                  /\ pc' = [pc EXCEPT ![p] = AfterFetch(p)]
               \/ pc' = pc /\ cycle' = [cycle EXCEPT ![p] = Fetched(p, t)]
    BY <1>1, FetchPageEffect
  <2>2. t \in Int
    BY TipTypes
  <2>3. /\ Fetched(p, t) \in Cycle /\ EndFetch(p, Fetched(p, t)) \in Cycle
        /\ Fetched(p, t).latest = cycle[p].latest
        /\ EndFetch(p, Fetched(p, t)).latest = cycle[p].latest
    BY <1>0, <2>2, FetchedType, EndFetchType
  <2>4. cycle' \in [Pollers -> Cycle] /\ \A q \in Pollers : cycle'[q].latest = cycle[q].latest
    BY <2>1, <2>3 DEF TypeOK
  <2>5. stored' \subseteq Events
    BY <2>1 DEF TypeOK, Parsed, Page
  <2>6. cursor' \in CursorRow
    BY <2>1, WithRowType DEF TypeOK, CursorRow
  <2>7. pc' \in [Pollers -> PollerStates]
    BY <2>1 DEF TypeOK, AfterFetch, PollerStates
  <2>8. \A q \in Pollers : pc'[q] \in InCycle => pc[q] \in InCycle
    BY <1>1, <2>1 DEF FetchPage, TypeOK, AfterFetch, InCycle
  <2>9. UNCHANGED <<tip, missed, holder, crashes, origin, gap>>
    BY <1>1 DEF FetchPage
  <2> QED BY <2>4, <2>5, <2>6, <2>7, <2>8, <2>9 DEF TypeOK, TipInv, CursorRow
<1>2. CASE FetchPageError(p)
  <2>1. EndFetch(p, cycle[p]) \in Cycle /\ EndFetch(p, cycle[p]).latest = cycle[p].latest
    BY <1>0, EndFetchType
  <2>2. cycle' \in [Pollers -> Cycle] /\ \A q \in Pollers : cycle'[q].latest = cycle[q].latest
    BY <1>2, <2>1 DEF TypeOK, FetchPageError
  <2>3. MissedRange(cycle[p].seen, cycle[p].latest, TRUE) \in MissedRow
    BY <1>0 DEF Cycle, MissedRange, MissedRow
  <2>4. missed' \subseteq MissedRow
    BY <1>2, <2>3 DEF FetchPageError, TypeOK
  <2>5. cursor' \in CursorRow
    BY <1>2, WithRowType DEF FetchPageError
  <2>6. pc' \in [Pollers -> PollerStates]
    BY <1>2 DEF FetchPageError, TypeOK, AfterFetch, PollerStates
  <2>7. \A q \in Pollers : pc'[q] \in InCycle => pc[q] \in InCycle
    BY <1>2 DEF FetchPageError, TypeOK, InCycle
  <2>8. UNCHANGED <<tip, stored, holder, crashes, origin, gap>>
    BY <1>2 DEF FetchPageError
  <2> QED BY <2>2, <2>4, <2>5, <2>6, <2>7, <2>8 DEF TypeOK, TipInv, CursorRow
<1>3. CASE RescanPage(p)
  <2>1. PICK t \in EndpointTips(tip) :
            /\ stored' \in {stored, stored \cup Parsed(Page(cycle[p].token, t))}
            /\ cycle' = [cycle EXCEPT
                    ![p].token = NextToken(cycle[p].token, Page(cycle[p].token, t)),
                    ![p].paged = TRUE]
            /\ \E x \in {"track", "rescan"} : pc' = [pc EXCEPT ![p] = x]
    BY <1>3 DEF RescanPage
  <2>2. NextToken(cycle[p].token, Page(cycle[p].token, t)) \in 1..(NumEvents + 1)
    <3>1. cycle[p].token \in 1..(NumEvents + 1) /\ t \in Int
      BY <1>0, TipTypes DEF Cycle
    <3> QED BY <3>1, NextTokenType
  <2>3. cycle' \in [Pollers -> Cycle] /\ \A q \in Pollers : cycle'[q].latest = cycle[q].latest
    <3> DEFINE k == NextToken(cycle[p].token, Page(cycle[p].token, t))
    <3>1. k \in 1..(NumEvents + 1)
          /\ cycle' = [cycle EXCEPT ![p].token = k, ![p].paged = TRUE]
      BY <2>1, <2>2
    <3> HIDE DEF k
    <3> QED BY <3>1 DEF TypeOK, Cycle
  <2>4. stored' \subseteq Events
    BY <2>1 DEF TypeOK, Parsed, Page
  <2>5. pc' \in [Pollers -> PollerStates]
    BY <2>1 DEF TypeOK, PollerStates
  <2>6. \A q \in Pollers : pc'[q] \in InCycle => pc[q] \in InCycle
    BY <1>3, <2>1 DEF RescanPage, TypeOK, InCycle
  <2>7. UNCHANGED <<tip, cursor, missed, holder, crashes, origin, gap>>
    BY <1>3 DEF RescanPage
  <2> QED BY <2>3, <2>4, <2>5, <2>6, <2>7 DEF TypeOK, TipInv
<1> QED BY <1>1, <1>2, <1>3

(* The other steps of poll_once. *)
LEMMA TypeOther ==
    ASSUME TypeOK, TipInv, NEW p \in Pollers,
           \/ BeginPoll(p) \/ TrackRpcCall(p) \/ ReadVersion(p)
           \/ WriteProgress(p) \/ PollErr(p)
    PROVE  TypeOK' /\ TipInv'
<1> USE ChainAssumption, IngestionAssumption
<1>0. NoCycle \in Cycle /\ cycle[p] \in Cycle
  BY DEF TypeOK, NoCycle, Cycle
<1>1. CASE BeginPoll(p)
  <2>0. PICK t \in EndpointTips(tip) :
            \E o \in {OldestAt(h) : h \in EndpointTips(tip)}
                        \cup {Larger(t - MaxLookback, 1)} :
                cycle' = [cycle EXCEPT ![p] = [NoCycle EXCEPT !.latest = t, !.oldest = o]]
    BY <1>1 DEF BeginPoll
  <2>1. PICK o \in {OldestAt(h) : h \in EndpointTips(tip)}
                        \cup {Larger(t - MaxLookback, 1)} :
            cycle' = [cycle EXCEPT ![p] = [NoCycle EXCEPT !.latest = t, !.oldest = o]]
    BY <2>0
  <2>2. t \in 1..tip /\ t \in 1..MaxTip
    BY TipTypes
  <2>3. o \in 1..MaxTip
    <3>1. \A h \in EndpointTips(tip) : OldestAt(h) \in 1..MaxTip
      BY TipTypes
    <3>2. Larger(t - MaxLookback, 1) \in 1..MaxTip
      BY <2>2 DEF Larger
    <3> QED BY <3>1, <3>2
  <2>4. cycle'[p] = [NoCycle EXCEPT !.latest = t, !.oldest = o]
    BY <2>1 DEF TypeOK
  <2>5. cycle'[p] \in Cycle /\ cycle'[p].latest = t
    <3>1. t \in 0..MaxTip
      BY <2>2
    <3>2. ASSUME NEW c \in Cycle, NEW x \in 0..MaxTip, NEW y \in 1..MaxTip
          PROVE  /\ [c EXCEPT !.latest = x, !.oldest = y] \in Cycle
                 /\ [c EXCEPT !.latest = x, !.oldest = y].latest = x
      BY DEF Cycle
    <3>3. /\ [NoCycle EXCEPT !.latest = t, !.oldest = o] \in Cycle
          /\ [NoCycle EXCEPT !.latest = t, !.oldest = o].latest = t
      BY <1>0, <2>3, <3>1, <3>2, Zenon
    <3> QED BY <2>4, <3>3
  <2>6. cycle' \in [Pollers -> Cycle]
    BY <2>1, <2>4, <2>5 DEF TypeOK
  <2>7. pc' \in [Pollers -> PollerStates]
    BY <1>1 DEF BeginPoll, TypeOK, PollerStates
  <2>8. TipInv'
    <3> SUFFICES ASSUME NEW q \in Pollers, pc'[q] \in InCycle
                 PROVE  1 <= cycle'[q].latest /\ cycle'[q].latest <= tip'
      BY DEF TipInv
    <3>1. tip' = tip
      BY <1>1 DEF BeginPoll
    <3>2. CASE q = p
      BY <2>2, <2>5, <3>1, <3>2
    <3>3. CASE q # p
      BY <1>1, <2>1, <3>1, <3>3 DEF BeginPoll, TypeOK, TipInv
    <3> QED BY <3>2, <3>3
  <2> QED BY <1>1, <2>6, <2>7, <2>8 DEF BeginPoll, TypeOK
<1>2. CASE TrackRpcCall(p)
  <2>1. cursor' \in CursorRow
    BY <1>2, WithRowType DEF TrackRpcCall
  <2> QED BY <1>2, <2>1 DEF TrackRpcCall, TypeOK, TipInv, CursorRow, PollerStates, InCycle
<1>3. CASE ReadVersion(p)
  <2>1. cycle' \in [Pollers -> Cycle] /\ \A q \in Pollers : cycle'[q].latest = cycle[q].latest
    BY <1>3 DEF ReadVersion, TypeOK, Cycle
  <2> QED BY <1>3, <2>1 DEF ReadVersion, TypeOK, TipInv, PollerStates, InCycle
<1>4. CASE WriteProgress(p)
  <2>1. cycle[p].target \in 0..MaxTip /\ cycle[p].inserted \in Nat
    BY <1>0 DEF Cycle
  <2>2. cursor' \in CursorRow
    <3>1. cursor \in CursorRow /\ cursor.ingested + cycle[p].inserted \in Nat
      BY <2>1 DEF TypeOK, CursorRow
    <3> QED BY <1>4, <2>1, <3>1 DEF WriteProgress, CursorRow
  <2>3. \A q \in Pollers :
            /\ [cycle[q] EXCEPT !.sameVersion = FALSE] \in Cycle
            /\ [cycle[q] EXCEPT !.sameVersion = FALSE].latest = cycle[q].latest
    BY DEF TypeOK, Cycle
  <2>4. cycle' \in [Pollers -> Cycle] /\ \A q \in Pollers : q # p => cycle'[q].latest = cycle[q].latest
    BY <1>0, <1>4, <2>3 DEF WriteProgress
  <2>5. pc' \in [Pollers -> PollerStates]
    BY <1>4 DEF WriteProgress, TypeOK, PollerStates
  <2>6. TipInv'
    BY <1>4, <2>4 DEF WriteProgress, TypeOK, TipInv, InCycle
  <2> QED BY <1>4, <2>2, <2>4, <2>5, <2>6 DEF WriteProgress, TypeOK, CursorRow
<1>5. CASE PollErr(p)
  <2>1. cursor' \in CursorRow
    BY <1>5, WithRowType DEF PollErr, TypeOK, CursorRow
  <2> QED BY <1>0, <1>5, <2>1 DEF PollErr, TypeOK, TipInv, CursorRow, PollerStates, InCycle
<1> QED BY <1>1, <1>2, <1>3, <1>4, <1>5

(* The recover-gaps command. *)
LEMMA TypeGaps ==
    ASSUME TypeOK, TipInv, RecoverGaps
    PROVE  TypeOK' /\ TipInv'
<1> USE ChainAssumption, IngestionAssumption
<1>0. gap \in Gap /\ NoGap \in Gap
  BY DEF TypeOK, NoGap, Gap, MissedRange, MissedRow
<1>1. UNCHANGED pollerVars /\ TipInv'
  BY DEF RecoverGaps, GapsList, GapsNext, GapsPage, GapsMark, GapsFail, pollerVars, TipInv
<1>2. gap' \in Gap
  <2>1. CASE GapsList
    BY <1>0, <2>1 DEF GapsList, TypeOK, Gap
  <2>2. CASE GapsNext
    <3>1. PICK r \in gap.queue :
            gap' = [pc |-> "page", queue |-> gap.queue \ {r}, range |-> r,
                    token |-> FirstToken(r.from)]
      BY <2>2 DEF GapsNext
    <3>2. r \in MissedRow /\ gap.queue \subseteq MissedRow
      BY <1>0, <3>1 DEF Gap
    <3>3. r.from \in Int
      BY <3>2 DEF MissedRow
    <3>4. FirstToken(r.from) \in 1..(NumEvents + 1)
      BY <3>3, FirstTokenSplits
    <3> QED BY <3>1, <3>2, <3>4 DEF Gap
  <2>3. CASE GapsPage
    <3>1. PICK t \in EndpointTips(tip), x \in {"mark", "more"} :
            gap' = [gap EXCEPT !.token = NextToken(gap.token, Page(gap.token, t)),
                               !.pc = x]
      BY <2>3 DEF GapsPage
    <3> DEFINE k == NextToken(gap.token, Page(gap.token, t))
    <3>2. k \in 1..(NumEvents + 1)
      <4>1. gap.token \in 1..(NumEvents + 1) /\ t \in Int
        BY <1>0, TipTypes DEF Gap
      <4> QED BY <4>1, NextTokenType
    <3>3. gap' = [gap EXCEPT !.token = k, !.pc = x]
      BY <3>1
    <3> HIDE DEF k
    <3> QED BY <1>0, <3>2, <3>3 DEF Gap
  <2>4. CASE GapsMark \/ GapsFail
    BY <1>0, <2>4 DEF GapsMark, GapsFail, Gap
  <2> QED BY <2>1, <2>2, <2>3, <2>4 DEF RecoverGaps
<1>3. missed' \subseteq MissedRow
  <2>1. [gap.range EXCEPT !.recovered = TRUE] \in MissedRow
    BY <1>0 DEF Gap, MissedRow
  <2> QED BY <2>1 DEF TypeOK, RecoverGaps, GapsList, GapsNext, GapsPage, GapsMark, GapsFail
<1>4. stored' \subseteq Events
  BY DEF TypeOK, RecoverGaps, GapsList, GapsNext, GapsPage, GapsMark, GapsFail, Parsed, Page
<1> QED BY <1>1, <1>2, <1>3, <1>4 DEF TypeOK, pollerVars

LEMMA TypeStep ==
    ASSUME TypeOK, TipInv, [Next]_vars
    PROVE  TypeOK' /\ TipInv'
<1>1. CASE CloseLedger
  <2>1. \A p \in Pollers : cycle[p].latest \in Int
    BY ChainAssumption DEF TypeOK, Cycle
  <2>2. tip \in Int /\ tip' = tip + 1 /\ tip' \in Ledgers
    BY <1>1, ChainAssumption DEF CloseLedger, TypeOK, Ledgers
  <2>3. TypeOK'
    BY <1>1, <2>2 DEF CloseLedger, TypeOK
  <2>4. TipInv'
    BY <1>1, <2>1, <2>2 DEF CloseLedger, TipInv
  <2> QED BY <2>3, <2>4
<1>2. CASE UNCHANGED vars
  BY <1>2 DEF vars, TypeOK, TipInv
<1>3. CASE RecoverGaps
  BY <1>3, TypeGaps
<1>4. ASSUME NEW p \in Pollers, PollStep(p) \/ ProcessStep(p) PROVE TypeOK' /\ TipInv'
  BY <1>4, TypeProcess, TypePlan, TypeFetch, TypeOther DEF PollStep
<1> QED BY <1>1, <1>2, <1>3, <1>4 DEF Next

(* The variables of the indexer keep their types: tokens stay within the   *)
(* chain's events, and neither the cursor, a missed range nor the ledger a *)
(* cycle is about to record lies beyond the last ledger, whatever the      *)
(* clamps of poll_once subtract.                                           *)
THEOREM TypeCorrect == Spec => []TypeOK
<1>1. Init => TypeOK /\ TipInv
  BY TypeInit
<1>2. TypeOK /\ TipInv /\ [Next]_vars => (TypeOK /\ TipInv)'
  BY TypeStep
<1> QED BY <1>1, <1>2, PTL DEF Spec

-----------------------------------------------------------------------------
(* The cursor covers what it claims *)

(***************************************************************************)
(* CursorCovers alone is not inductive: the cursor is only written at the  *)
(* end of a cycle, from local variables.  The strengthening says what a    *)
(* cycle in flight has already secured.  While it fetches, everything      *)
(* below its start is accounted for, everything between start and token is *)
(* stored, and what is still to come lies at or above the ledger an error  *)
(* would record the rest from; once it has fetched, everything up to its   *)
(* target is accounted for.                                                *)
(***************************************************************************)
CoveredTo(n) ==
    \A e \in Events : origin <= LedgerOf[e] /\ LedgerOf[e] <= n => Accounted(e)

Fetching(p) ==
    /\ cycle[p].target = cycle[p].latest
    /\ \A e \in Events :
        origin <= LedgerOf[e] /\ LedgerOf[e] < cycle[p].start => Accounted(e)
    /\ \A e \in Events :
        LedgerOf[e] >= cycle[p].start /\ e < cycle[p].token => e \in stored
    /\ \A e \in Events : e >= cycle[p].token => LedgerOf[e] >= cycle[p].seen

InFlight(p) ==
    /\ pc[p] = "fetch" => Fetching(p)
    /\ pc[p] \in {"rescan", "track", "readver", "update"} => CoveredTo(cycle[p].target)

CoverInv == CoveredTo(cursor.last) /\ \A p \in Pollers : InFlight(p)

(* Steps never lose an accounted event. *)
Grows ==
    /\ stored \subseteq stored'
    /\ \A r \in missed : \E q \in missed' : q.from = r.from /\ q.to = r.to
    /\ origin <= origin'

LEMMA StepGrows ==
    ASSUME TypeOK, TipInv, [Next]_vars
    PROVE  Grows
<1>0. origin \in Int /\ origin <= origin
  BY ChainAssumption DEF TypeOK, Ledgers
<1>1. ASSUME missed \subseteq missed' PROVE \A r \in missed : \E q \in missed' : q.from = r.from /\ q.to = r.to
  BY <1>1
<1>2. ASSUME NEW p \in Pollers, PlanNothing(p) \/ PlanRange(p) PROVE Grows
  <2>1. stored' = stored /\ missed \subseteq missed' /\ pc[p] = "plan" /\ NoteOrigin(p)
    BY <1>2 DEF PlanNothing, PlanRange
  <2>2. ResumeAt(p) \in Int
    BY <2>1, PlanTypes, ChainAssumption
  <2>3. origin <= origin'
    BY <1>0, <2>1, <2>2 DEF NoteOrigin, Larger
  <2> QED BY <1>1, <2>1, <2>3 DEF Grows
<1>3. ASSUME NEW p \in Pollers, PollStep(p), ~PlanNothing(p), ~PlanRange(p) PROVE Grows
  <2>1. stored \subseteq stored' /\ missed \subseteq missed' /\ origin' = origin
    BY <1>3 DEF PollStep, BeginPoll, PlanFails, FetchPage, FetchPageError, RescanPage,
                TrackRpcCall, ReadVersion, WriteProgress, PollErr
  <2> QED BY <1>0, <1>1, <2>1 DEF Grows
<1>4. ASSUME NEW p \in Pollers, ProcessStep(p) PROVE Grows
  <2>1. stored' = stored /\ missed' = missed /\ origin' = origin
    BY <1>4 DEF ProcessStep, AcquireLock, LoseLock, KeepaliveExit, Crash, Restart
  <2> QED BY <1>0, <1>1, <2>1 DEF Grows
<1>5. CASE GapsMark
  <2>1. gap.range \in MissedRow
    BY DEF TypeOK, Gap
  <2>2. /\ [gap.range EXCEPT !.recovered = TRUE].from = gap.range.from
        /\ [gap.range EXCEPT !.recovered = TRUE].to = gap.range.to
    BY <2>1 DEF MissedRow
  <2>3. /\ missed' = (missed \ {gap.range}) \cup {[gap.range EXCEPT !.recovered = TRUE]}
        /\ stored' = stored /\ origin' = origin
    BY <1>5 DEF GapsMark, pollerVars
  <2> QED BY <1>0, <2>2, <2>3 DEF Grows
<1>6. CASE GapsList \/ GapsNext \/ GapsPage \/ GapsFail
  <2>1. stored \subseteq stored' /\ missed' = missed /\ origin' = origin
    BY <1>6 DEF GapsList, GapsNext, GapsPage, GapsFail, pollerVars
  <2> QED BY <1>0, <1>1, <2>1 DEF Grows
<1>7. CASE CloseLedger \/ UNCHANGED vars
  <2>1. stored' = stored /\ missed' = missed /\ origin' = origin
    BY <1>7 DEF CloseLedger, vars
  <2> QED BY <1>0, <1>1, <2>1 DEF Grows
<1> QED BY <1>2, <1>3, <1>4, <1>5, <1>6, <1>7 DEF Next, RecoverGaps

LEMMA AccountedKept ==
    ASSUME Grows, NEW e \in Events, Accounted(e)
    PROVE  Accounted(e)'
BY DEF Grows, Accounted

LEMMA CoveredKept ==
    ASSUME TypeOK, TypeOK', Grows, NEW n \in Int, CoveredTo(n)
    PROVE  \A e \in Events : origin' <= LedgerOf[e] /\ LedgerOf[e] <= n => Accounted(e)'
<1> TAKE e \in Events
<1> HAVE origin' <= LedgerOf[e] /\ LedgerOf[e] <= n
<1>1. origin <= LedgerOf[e]
  BY ChainAssumption DEF Grows, TypeOK, Ledgers, Events
<1> QED BY <1>1, AccountedKept DEF CoveredTo

(* A step of somebody else leaves a cycle what it has secured. *)
SameCycle(q) ==
    /\ pc'[q] = pc[q]
    /\ cycle'[q].start = cycle[q].start /\ cycle'[q].token = cycle[q].token
    /\ cycle'[q].seen = cycle[q].seen /\ cycle'[q].target = cycle[q].target
    /\ cycle'[q].latest = cycle[q].latest

LEMMA FlightKept ==
    ASSUME TypeOK, TypeOK', Grows, NEW q \in Pollers, InFlight(q), SameCycle(q)
    PROVE  InFlight(q)'
<1>1. ASSUME pc[q] = "fetch" PROVE Fetching(q)'
  <2>1. Fetching(q)
    BY <1>1 DEF InFlight
  <2>2. ASSUME NEW e \in Events, origin' <= LedgerOf[e], LedgerOf[e] < cycle'[q].start
        PROVE  Accounted(e)'
    <3>1. origin <= LedgerOf[e]
      BY <2>2, ChainAssumption DEF Grows, TypeOK, Ledgers, Events
    <3>2. Accounted(e)
      BY <2>1, <2>2, <3>1 DEF Fetching, SameCycle
    <3> QED BY <3>2, AccountedKept
  <2> QED BY <2>1, <2>2 DEF Fetching, SameCycle, Grows
<1>2. ASSUME pc[q] \in {"rescan", "track", "readver", "update"}
      PROVE  CoveredTo(cycle[q].target)'
  <2>1. CoveredTo(cycle[q].target) /\ cycle[q].target \in Int
    BY <1>2, ChainAssumption DEF InFlight, TypeOK, Cycle
  <2>2. \A e \in Events : origin' <= LedgerOf[e] /\ LedgerOf[e] <= cycle[q].target
            => Accounted(e)'
    BY <2>1, CoveredKept
  <2> QED BY <2>2 DEF CoveredTo, SameCycle
<1> QED BY <1>1, <1>2 DEF InFlight, SameCycle

LEMMA CursorKept ==
    ASSUME TypeOK, TypeOK', Grows, CoveredTo(cursor.last), cursor'.last = cursor.last
    PROVE  CoveredTo(cursor.last)'
<1>1. cursor.last \in Int
  BY ChainAssumption DEF TypeOK
<1>2. \A e \in Events : origin' <= LedgerOf[e] /\ LedgerOf[e] <= cursor.last => Accounted(e)'
  BY <1>1, CoveredKept
<1> QED BY <1>2 DEF CoveredTo

(* A cycle that plans a range has everything below its start accounted     *)
(* for: by the cursor, or by the ranges the clamps recorded.               *)
LEMMA PlanRangeCovers ==
    ASSUME TypeOK, TipInv, TypeOK', Grows, CoverInv, NEW p \in Pollers, PlanRange(p)
    PROVE  InFlight(p)'
<1> USE ChainAssumption
<1> DEFINE a == ResumeAt(p)
           b == WindowStart(p)
           c == ClampedStart(p)
<1>0. pc[p] = "plan" /\ a <= cycle[p].latest
  BY DEF PlanRange
<1>1. a \in Int /\ b \in Int /\ c \in Int /\ a <= b /\ b <= c
  BY <1>0, PlanTypes
<1>2. cycle'[p] = [[[[cycle[p] EXCEPT !.start = c] EXCEPT !.seen = c]
                        EXCEPT !.token = FirstToken(c)] EXCEPT !.target = cycle[p].latest]
  BY DEF PlanRange, TypeOK
<1>3. /\ cycle'[p].start = c /\ cycle'[p].seen = c /\ cycle'[p].token = FirstToken(c)
      /\ cycle'[p].target = cycle'[p].latest
  BY <1>2 DEF TypeOK, Cycle
<1>4. pc'[p] = "fetch"
  BY DEF PlanRange, TypeOK
<1>5. ASSUME NEW e \in Events, origin' <= LedgerOf[e], LedgerOf[e] < c
      PROVE  Accounted(e)'
  <2>0. LedgerOf[e] \in Int /\ origin \in Int /\ origin' \in Int /\ cursor.last \in Int
    BY DEF Events, TypeOK, Ledgers
  <2>1. CASE LedgerOf[e] < a
    <3>1. cursor.present
      <4> SUFFICES ASSUME ~cursor.present PROVE FALSE
        OBVIOUS
      <4>1. origin' = Larger(origin, a)
        BY DEF PlanRange, NoteOrigin
      <4> QED BY <1>1, <1>5, <2>0, <2>1, <4>1 DEF Larger
    <3>2. LedgerOf[e] <= cursor.last
      BY <2>0, <2>1, <3>1 DEF ResumeAt
    <3>3. origin <= LedgerOf[e]
      BY <1>5, <2>0 DEF Grows
    <3> QED BY <3>2, <3>3, AccountedKept DEF CoverInv, CoveredTo
  <2>2. CASE a <= LedgerOf[e] /\ LedgerOf[e] < b
    <3>1. MissedRange(a, b - 1, FALSE) \in missed'
      <4>1. a <= b - 1
        BY <1>1, <2>0, <2>2
      <4>2. Skipped(a, b - 1, FALSE) \subseteq missed'
        BY DEF PlanRange, SkippedRanges
      <4> QED BY <4>1, <4>2 DEF Skipped
    <3>2. LedgerOf[e] <= b - 1
      BY <1>1, <2>0, <2>2
    <3> QED BY <2>2, <3>1, <3>2 DEF Accounted, MissedRange
  <2>3. CASE b <= LedgerOf[e]
    <3>1. MissedRange(b, c - 1, TRUE) \in missed'
      <4>1. b <= c - 1
        BY <1>1, <1>5, <2>0, <2>3
      <4>2. Skipped(b, c - 1, TRUE) \subseteq missed'
        BY DEF PlanRange, SkippedRanges
      <4> QED BY <4>1, <4>2 DEF Skipped
    <3>2. LedgerOf[e] <= c - 1
      BY <1>1, <1>5, <2>0
    <3> QED BY <2>3, <3>1, <3>2 DEF Accounted, MissedRange
  <2> QED BY <1>1, <2>0, <2>1, <2>2, <2>3
<1>6. \A e \in Events : LedgerOf[e] >= c /\ e < FirstToken(c) => e \in stored'
  <2>1. \A e \in Events : e < FirstToken(c) => LedgerOf[e] < c
    BY <1>1, FirstTokenSplits
  <2>2. \A e \in Events : LedgerOf[e] \in Int
    BY DEF Events
  <2> HIDE DEF c
  <2> QED BY <1>1, <2>1, <2>2
<1>7. \A e \in Events : e >= FirstToken(c) => LedgerOf[e] >= c
  BY <1>1, FirstTokenSplits
<1> HIDE DEF a, b, c
<1>8. Fetching(p)'
  BY <1>3, <1>5, <1>6, <1>7 DEF Fetching
<1> QED BY <1>4, <1>8 DEF InFlight

(* Nothing new: the cursor's own ledger, or a start that lies ahead. *)
LEMMA PlanNothingCovers ==
    ASSUME TypeOK, TipInv, TypeOK', Grows, CoverInv, NEW p \in Pollers, PlanNothing(p)
    PROVE  InFlight(p)'
<1> USE ChainAssumption
<1>0. pc[p] = "plan" /\ pc'[p] = "readver" /\ cycle'[p].target = ResumeAt(p) - 1
  BY DEF PlanNothing, TypeOK, Cycle
<1>1. ResumeAt(p) \in Int /\ cursor.last \in Int /\ origin \in Int /\ origin' \in Int
  BY <1>0, PlanTypes DEF TypeOK, Ledgers
<1>2. ASSUME NEW e \in Events, origin' <= LedgerOf[e], LedgerOf[e] <= ResumeAt(p) - 1
      PROVE  Accounted(e)'
  <2>0. LedgerOf[e] \in Int
    BY DEF Events
  <2>1. cursor.present
    <3> SUFFICES ASSUME ~cursor.present PROVE FALSE
      OBVIOUS
    <3>1. origin' = Larger(origin, ResumeAt(p))
      BY DEF PlanNothing, NoteOrigin
    <3> QED BY <1>1, <1>2, <2>0, <3>1 DEF Larger
  <2>2. origin <= LedgerOf[e] /\ LedgerOf[e] <= cursor.last
    BY <1>1, <1>2, <2>0, <2>1 DEF ResumeAt, Grows
  <2> QED BY <2>2, AccountedKept DEF CoverInv, CoveredTo
<1> QED BY <1>0, <1>2 DEF InFlight, CoveredTo

(* Every timestamp parses and every endpoint answers at the chain's tip. *)
CleanFeed == BadTs = {} /\ MaxLag = 0

(* What the events of one page add to what a fetching cycle has secured. *)
LEMMA PageSecures ==
    ASSUME CleanFeed, TypeOK, TipInv, NEW p \in Pollers, Fetching(p),
           NEW t \in EndpointTips(tip),
           stored' = stored \cup Parsed(Page(cycle[p].token, t))
    PROVE  /\ t = tip
           /\ Parsed(Page(cycle[p].token, t)) = Page(cycle[p].token, t)
           /\ \A e \in Events : LedgerOf[e] >= cycle[p].start
                    /\ e < NextToken(cycle[p].token, Page(cycle[p].token, t))
                => e \in stored'
           /\ \A e \in Events : e >= NextToken(cycle[p].token, Page(cycle[p].token, t))
                => LedgerOf[e] >= LastLedger(cycle[p].seen, cycle[p].token,
                                             Page(cycle[p].token, t))
<1> USE ChainAssumption
<1> DEFINE token == cycle[p].token
           page == Page(token, t)
           next == NextToken(token, page)
<1>0. /\ token \in 1..(NumEvents + 1) /\ token \in Nat \ {0} /\ t \in Int
      /\ cycle[p].seen \in Int
  <2>1. t \in Int
    BY TipTypes
  <2>2. cycle[p] \in Cycle
    BY DEF TypeOK
  <2>3. token \in 1..(NumEvents + 1) /\ cycle[p].seen \in 1..MaxTip
    BY <2>2 DEF Cycle
  <2> HIDE DEF token
  <2> QED BY <2>1, <2>3
<1>1. t = tip
  BY DEF CleanFeed, EndpointTips, TypeOK, Ledgers
<1>2. Parsed(page) = page
  BY DEF CleanFeed, Parsed
<1>3. \A e \in Events : e \in Int /\ LedgerOf[e] \in Int
  BY DEF Events
<1>4. \A e \in Events : token <= e => (e \in page <=> e < next)
  BY <1>0, PageIsRun DEF NextToken
<1>5. /\ next \in Int /\ token <= next
      /\ page # {} => next - 1 \in Events /\ token <= next - 1
  <2>1. /\ next \in 1..(NumEvents + 1) /\ token <= next
        /\ page # {} => next - 1 \in Events /\ token <= next - 1
    BY <1>0, NextTokenType
  <2> HIDE DEF next, page, token
  <2> QED BY <2>1
<1> HIDE DEF next
<1>6. ASSUME NEW e \in Events, LedgerOf[e] >= cycle[p].start, e < next
      PROVE  e \in stored'
  <2>1. CASE e < token
    BY <1>6, <2>1 DEF Fetching
  <2>2. CASE token <= e
    BY <1>2, <1>4, <1>6, <2>2
  <2> QED BY <1>0, <1>3, <2>1, <2>2
<1>7. ASSUME NEW e \in Events, e >= next
      PROVE  LedgerOf[e] >= LastLedger(cycle[p].seen, token, page)
  <2>1. LedgerOf[e] >= cycle[p].seen
    BY <1>0, <1>3, <1>5, <1>7 DEF Fetching
  <2>2. CASE page = {}
    BY <2>1, <2>2 DEF LastLedger
  <2>3. CASE page # {}
    <3>1. next - 1 \in Events /\ next - 1 <= e
      BY <1>3, <1>5, <1>7, <2>3
    <3>2. LedgerOf[next - 1] <= LedgerOf[e]
      BY <3>1 DEF Events
    <3>3. LastLedger(cycle[p].seen, token, page) = Larger(cycle[p].seen, LedgerOf[next - 1])
      BY <2>3 DEF LastLedger, next
    <3> QED BY <1>0, <1>3, <2>1, <3>1, <3>2, <3>3 DEF Larger
  <2> QED BY <2>2, <2>3
<1> QED BY <1>1, <1>2, <1>6, <1>7 DEF next

(* A page of the live fetch; the short one ends with everything stored. *)
LEMMA FetchPageCovers ==
    ASSUME CleanFeed, TypeOK, TipInv, TypeOK', Grows, CoverInv,
           NEW p \in Pollers, FetchPage(p)
    PROVE  InFlight(p)'
<1> USE ChainAssumption
<1>0. pc[p] = "fetch" /\ Fetching(p) /\ cycle[p] \in Cycle
  BY DEF FetchPage, CoverInv, InFlight, TypeOK
<1>1. PICK t \in EndpointTips(tip) :
            /\ stored' = stored \cup Parsed(Page(cycle[p].token, t))
            /\ \/ /\ ShortPage(Cardinality(Parsed(Page(cycle[p].token, t))))
                  /\ cycle' = [cycle EXCEPT ![p] = EndFetch(p, Fetched(p, t))]
                  /\ pc' = [pc EXCEPT ![p] = AfterFetch(p)]
               \/ /\ pc' = pc
                  /\ cycle' = [cycle EXCEPT ![p] = Fetched(p, t)]
  BY FetchPageEffect
<1> DEFINE token == cycle[p].token
           page == Page(token, t)
           next == NextToken(token, page)
<1>2. token \in Nat \ {0} /\ t \in Int
  <2>1. t \in Int
    BY TipTypes
  <2> QED BY <1>0, <2>1 DEF Cycle
<1>3. /\ t = tip /\ Parsed(page) = page
      /\ \A e \in Events : LedgerOf[e] >= cycle[p].start /\ e < next => e \in stored'
      /\ \A e \in Events : e >= next => LedgerOf[e] >= LastLedger(cycle[p].seen, token, page)
  BY <1>0, <1>1, PageSecures
<1>4. /\ Fetched(p, t) \in Cycle
      /\ Fetched(p, t).latest = cycle[p].latest /\ Fetched(p, t).target = cycle[p].target
      /\ Fetched(p, t).start = cycle[p].start /\ Fetched(p, t).token = next
      /\ Fetched(p, t).seen = LastLedger(cycle[p].seen, token, page)
  BY <1>2, FetchedType
<1>5. ASSUME NEW e \in Events, origin' <= LedgerOf[e], LedgerOf[e] < cycle[p].start
      PROVE  Accounted(e)'
  <2>1. origin <= LedgerOf[e]
    BY <1>5 DEF Grows, TypeOK, Ledgers, Events
  <2>2. Accounted(e)
    BY <1>0, <1>5, <2>1 DEF Fetching
  <2> QED BY <2>2, AccountedKept
<1>6. CASE pc' = pc /\ cycle' = [cycle EXCEPT ![p] = Fetched(p, t)]
  <2>1. cycle'[p] = Fetched(p, t)
    BY <1>6 DEF TypeOK
  <2> HIDE DEF next, page, token
  <2>2. Fetching(p)'
    BY <1>0, <1>3, <1>4, <1>5, <2>1 DEF Fetching
  <2> QED BY <1>0, <1>6, <2>2 DEF InFlight
<1>7. CASE /\ ShortPage(Cardinality(page))
           /\ cycle' = [cycle EXCEPT ![p] = EndFetch(p, Fetched(p, t))]
           /\ pc' = [pc EXCEPT ![p] = AfterFetch(p)]
  <2>1. /\ pc'[p] \in {"rescan", "track"}
        /\ cycle'[p].target = cycle[p].latest
    <3>1. EndFetch(p, Fetched(p, t)).target = cycle[p].target
      BY <1>0, <1>4, EndFetchType
    <3> QED BY <1>0, <1>7, <3>1 DEF TypeOK, AfterFetch, Fetching
  <2>2. ASSUME NEW e \in Events, origin' <= LedgerOf[e], LedgerOf[e] <= cycle[p].latest
        PROVE  Accounted(e)'
    <3>0. /\ LedgerOf[e] \in Int /\ e \in Int /\ cycle[p].latest \in Int /\ tip \in Int
          /\ cycle[p].latest <= tip /\ cycle[p].start \in Int
      <4>1. LedgerOf[e] \in Int /\ e \in Int
        BY DEF Events
      <4>2. cycle[p].latest \in Int /\ cycle[p].start \in Int
        BY <1>0 DEF Cycle
      <4>3. tip \in Int
        BY DEF TypeOK, Ledgers
      <4>4. cycle[p].latest <= tip
        BY <1>0 DEF TipInv, InCycle
      <4> QED BY <4>1, <4>2, <4>3, <4>4
    <3>1. CASE LedgerOf[e] < cycle[p].start
      BY <1>5, <2>2, <3>1
    <3>2. CASE LedgerOf[e] >= cycle[p].start
      <4>1. next <= e => LedgerOf[e] > t
        BY <1>2, <1>7, ShortPageIsLast DEF NextToken
      <4>2. next \in Int
        BY <1>2, PageIsRun DEF NextToken
      <4> HIDE DEF next
      <4>3. e < next
        BY <1>3, <2>2, <3>0, <4>1, <4>2
      <4>4. e \in stored'
        BY <1>3, <3>2, <4>3
      <4> QED BY <4>4 DEF Accounted
    <3> QED BY <3>0, <3>1, <3>2
  <2> QED BY <2>1, <2>2 DEF InFlight, CoveredTo
<1> QED BY <1>1, <1>3, <1>6, <1>7

(* A page error records everything the cycle has not stored. *)
LEMMA FetchErrorCovers ==
    ASSUME TypeOK, TypeOK', Grows, CoverInv, NEW p \in Pollers, FetchPageError(p)
    PROVE  InFlight(p)'
<1> USE ChainAssumption
<1>0. pc[p] = "fetch" /\ Fetching(p) /\ cycle[p] \in Cycle
  BY DEF FetchPageError, CoverInv, InFlight, TypeOK
<1>1. pc'[p] \in {"rescan", "track"} /\ cycle'[p].target = cycle[p].latest
  <2>1. EndFetch(p, cycle[p]).target = cycle[p].target
    BY <1>0, EndFetchType
  <2> QED BY <1>0, <2>1 DEF FetchPageError, TypeOK, AfterFetch, Fetching
<1>2. MissedRange(cycle[p].seen, cycle[p].latest, TRUE) \in missed'
  BY DEF FetchPageError
<1>3. ASSUME NEW e \in Events, origin' <= LedgerOf[e], LedgerOf[e] <= cycle[p].latest
      PROVE  Accounted(e)'
  <2>0. /\ LedgerOf[e] \in Int /\ e \in Int
        /\ cycle[p].start \in Int /\ cycle[p].token \in Int
    BY <1>0 DEF Events, Cycle
  <2>1. CASE LedgerOf[e] < cycle[p].start
    <3>1. origin <= LedgerOf[e]
      BY <1>3 DEF Grows, TypeOK, Ledgers, Events
    <3> QED BY <1>0, <2>1, <3>1, AccountedKept DEF Fetching
  <2>2. CASE LedgerOf[e] >= cycle[p].start /\ e < cycle[p].token
    BY <1>0, <2>2 DEF Fetching, Grows, Accounted
  <2>3. CASE e >= cycle[p].token
    <3>1. cycle[p].seen <= LedgerOf[e]
      BY <1>0, <2>0, <2>3 DEF Fetching, Cycle
    <3> QED BY <1>2, <1>3, <3>1 DEF Accounted, MissedRange
  <2> QED BY <2>0, <2>1, <2>2, <2>3
<1> QED BY <1>1, <1>3 DEF InFlight, CoveredTo

(* The later steps of a cycle keep its target. *)
LEMMA LaterCovers ==
    ASSUME TypeOK, TypeOK', Grows, CoverInv, NEW p \in Pollers,
           RescanPage(p) \/ TrackRpcCall(p) \/ ReadVersion(p)
    PROVE  InFlight(p)'
<1>1. /\ pc[p] \in {"rescan", "track", "readver"}
      /\ pc'[p] \in {"rescan", "track", "readver", "update"}
  BY DEF RescanPage, TrackRpcCall, ReadVersion, TypeOK
<1>2. cycle'[p].target = cycle[p].target
  <2>1. CASE RescanPage(p)
    <3>1. PICK k : cycle' = [cycle EXCEPT ![p].token = k, ![p].paged = TRUE]
      BY <2>1 DEF RescanPage
    <3> QED BY <3>1 DEF TypeOK, Cycle
  <2>2. CASE TrackRpcCall(p) \/ ReadVersion(p)
    BY <2>2 DEF TrackRpcCall, ReadVersion, TypeOK, Cycle
  <2> QED BY <2>1, <2>2
<1>3. CoveredTo(cycle[p].target) /\ cycle[p].target \in Int
  <2>1. CoveredTo(cycle[p].target)
    BY <1>1 DEF CoverInv, InFlight
  <2>2. cycle[p].target \in Int
    BY ChainAssumption DEF TypeOK, Cycle
  <2> QED BY <2>1, <2>2
<1>4. \A e \in Events : origin' <= LedgerOf[e] /\ LedgerOf[e] <= cycle[p].target
        => Accounted(e)'
  BY <1>3, CoveredKept
<1> QED BY <1>1, <1>2, <1>4 DEF InFlight, CoveredTo

(* One step keeps what the cursor and every cycle have secured. *)
LEMMA CoverStep ==
    ASSUME CleanFeed, TypeOK, TipInv, CoverInv, [Next]_vars
    PROVE  CoverInv'
<1>0. TypeOK' /\ Grows
  BY TypeStep, StepGrows
<1>1. ASSUME NEW p \in Pollers, PollStep(p) PROVE InFlight(p)'
  <2>1. CASE BeginPoll(p) \/ PlanFails(p) \/ WriteProgress(p) \/ PollErr(p)
    <3>1. pc'[p] \in {"plan", "idle"}
      BY <2>1 DEF BeginPoll, PlanFails, WriteProgress, PollErr, TypeOK
    <3> QED BY <3>1 DEF InFlight
  <2> QED
    BY <1>0, <1>1, <2>1, PlanRangeCovers, PlanNothingCovers, FetchPageCovers,
       FetchErrorCovers, LaterCovers DEF PollStep
<1>2. ASSUME NEW p \in Pollers, PollStep(p), NEW q \in Pollers, q # p PROVE InFlight(q)'
  <2>1. SameCycle(q)
    <3>1. CASE ~WriteProgress(p)
      <4>1. pc'[q] = pc[q] /\ cycle'[q] = cycle[q]
        BY <1>2, <3>1 DEF PollStep, BeginPoll, PlanNothing, PlanRange, PlanFails,
           FetchPage, FetchPageError, RescanPage, TrackRpcCall, ReadVersion, PollErr, TypeOK
      <4> QED BY <4>1 DEF SameCycle
    <3>2. CASE WriteProgress(p)
      BY <1>2, <3>2 DEF WriteProgress, SameCycle, TypeOK, Cycle
    <3> QED BY <3>1, <3>2
  <2> QED BY <1>0, <2>1, FlightKept DEF CoverInv
<1>3. ASSUME NEW p \in Pollers, PollStep(p) PROVE CoveredTo(cursor.last)'
  <2>1. CASE WriteProgress(p)
    <3>1. CoveredTo(cycle[p].target) /\ cycle[p].target \in Int
      BY <2>1, ChainAssumption DEF WriteProgress, CoverInv, InFlight, TypeOK, Cycle
    <3>2. \A e \in Events : origin' <= LedgerOf[e] /\ LedgerOf[e] <= cycle[p].target
            => Accounted(e)'
      BY <1>0, <3>1, CoveredKept
    <3>3. cursor'.last = cycle[p].target
      BY <2>1 DEF WriteProgress, TypeOK
    <3> QED BY <3>2, <3>3 DEF CoveredTo
  <2>2. CASE ~WriteProgress(p)
    <3>1. cursor' = cursor \/ cursor' = WithRow(cursor)
      BY <1>3, <2>2 DEF PollStep, BeginPoll, PlanNothing, PlanRange, PlanFails,
         FetchPage, FetchPageError, RescanPage, TrackRpcCall, ReadVersion, PollErr
    <3>2. cursor'.last = cursor.last
      BY <3>1, WithRowType
    <3> QED BY <1>0, <3>2, CursorKept DEF CoverInv
  <2> QED BY <2>1, <2>2
<1>4. ASSUME NEW p \in Pollers, ProcessStep(p), NEW q \in Pollers PROVE InFlight(q)'
  <2>1. SameCycle(q) \/ pc'[q] \in {"down", "standby", "idle"}
    BY <1>4 DEF ProcessStep, AcquireLock, LoseLock, KeepaliveExit, Crash, Restart,
                TypeOK, SameCycle
  <2>2. CASE SameCycle(q)
    BY <1>0, <2>2, FlightKept DEF CoverInv
  <2>3. CASE pc'[q] \in {"down", "standby", "idle"}
    BY <2>3 DEF InFlight
  <2> QED BY <2>1, <2>2, <2>3
<1>5. ASSUME NEW p \in Pollers, ProcessStep(p) PROVE cursor' = cursor
  BY <1>5 DEF ProcessStep, AcquireLock, LoseLock, KeepaliveExit, Crash, Restart
<1>6. CASE CloseLedger \/ RecoverGaps \/ UNCHANGED vars
  <2>1. pc' = pc /\ cycle' = cycle /\ cursor' = cursor
    BY <1>6 DEF CloseLedger, RecoverGaps, GapsList, GapsNext, GapsPage, GapsMark,
                GapsFail, pollerVars, vars
  <2>2. \A q \in Pollers : SameCycle(q)
    BY <2>1 DEF SameCycle
  <2> QED BY <1>0, <2>1, <2>2, FlightKept, CursorKept DEF CoverInv
<1>7. ASSUME NEW p \in Pollers, PollStep(p) PROVE CoverInv'
  BY <1>1, <1>2, <1>3, <1>7 DEF CoverInv
<1>8. ASSUME NEW p \in Pollers, ProcessStep(p) PROVE CoverInv'
  BY <1>0, <1>4, <1>5, <1>8, CursorKept DEF CoverInv
<1> QED BY <1>6, <1>7, <1>8 DEF Next

(* When every timestamp parses and no endpoint lags, the cursor never      *)
(* claims a ledger with an event that is neither stored nor recorded as    *)
(* missed: for any number of pollers, through page errors, failed and      *)
(* abandoned cycles, clamps, lost locks, two leaders at once and gap       *)
(* recovery (poll_once, fetch_and_store_with_shutdown, write_progress).    *)
THEOREM CursorCoversHolds ==
    ASSUME CleanFeed
    PROVE  Spec => []CursorCovers
<1>1. Init => TypeOK /\ TipInv /\ CoverInv
  <2>1. Init => CoverInv
    BY ChainAssumption
    DEF Init, CoverInv, CoveredTo, InFlight, Events
  <2> QED BY <2>1, TypeInit
<1>2. TypeOK /\ TipInv /\ CoverInv /\ [Next]_vars => (TypeOK /\ TipInv /\ CoverInv)'
  BY TypeStep, CoverStep
<1>3. CoverInv => CursorCovers
  BY DEF CoverInv, CoveredTo, CursorCovers
<1> QED BY <1>1, <1>2, <1>3, PTL DEF Spec

-----------------------------------------------------------------------------
(* Recovered ranges were replayed to their end *)

(* All events of a missed range are stored. *)
Replayed(r) ==
    \A e \in Events : r.from <= LedgerOf[e] /\ LedgerOf[e] <= r.to => e \in stored

(***************************************************************************)
(* A range is replayed against the chain as it is now, so it must end at a *)
(* closed ledger: WindowInv and ClosedRows say that no clamp and no page   *)
(* error records a range beyond the tip.  ReplayInv says what the running  *)
(* replay has stored: everything of its range below its token, and all of  *)
(* it once the loop has ended.                                             *)
(***************************************************************************)
WindowInv == \A p \in Pollers : pc[p] \in InCycle => cycle[p].oldest <= tip

ClosedRows ==
    /\ \A r \in missed : r.to <= tip
    /\ \A r \in gap.queue : r.to <= tip
    /\ gap.range.to <= tip

ReplayInv ==
    /\ \A r \in missed : r.recovered => Replayed(r)
    /\ gap.pc \in {"page", "more"} =>
        \A e \in Events : gap.range.from <= LedgerOf[e] /\ LedgerOf[e] <= gap.range.to
                /\ e < gap.token => e \in stored
    /\ gap.pc = "mark" => Replayed(gap.range)

GapInv == WindowInv /\ ClosedRows /\ ReplayInv

(* Of the steps of poll_once only the first sets the window a cycle works  *)
(* with, and only a page of the live fetch adds to what it inserted; the   *)
(* steps that end a cycle clear both.                                      *)
LEMMA LocalsKept ==
    ASSUME TypeOK, NEW p \in Pollers, PollStep(p), ~BeginPoll(p), ~FetchPage(p)
    PROVE  \A q \in Pollers :
            /\ pc'[q] \in InCycle =>
                pc[q] \in InCycle /\ cycle'[q].oldest = cycle[q].oldest
            /\ \/ cycle'[q].inserted = 0
               \/ cycle'[q].inserted = cycle[q].inserted
<1> DEFINE Kept == \A q \in Pollers : /\ cycle'[q].oldest = cycle[q].oldest
                                      /\ cycle'[q].inserted = cycle[q].inserted
<1>0. cycle[p] \in Cycle
  BY DEF TypeOK
<1>1. CASE FetchPageError(p)
  <2>1. /\ EndFetch(p, cycle[p]).oldest = cycle[p].oldest
        /\ EndFetch(p, cycle[p]).inserted = cycle[p].inserted
    BY <1>0 DEF EndFetch, Cycle
  <2> QED BY <1>1, <2>1 DEF FetchPageError, TypeOK, InCycle
<1>2. CASE RescanPage(p)
  <2>1. PICK k : cycle' = [cycle EXCEPT ![p].token = k, ![p].paged = TRUE]
    BY <1>2 DEF RescanPage
  <2>2. Kept
    BY <2>1 DEF TypeOK, Cycle
  <2> QED BY <1>2, <2>2 DEF RescanPage, TypeOK, InCycle
<1>3. CASE PlanNothing(p)
  <2>1. PICK k : cycle' = [cycle EXCEPT ![p].target = k]
    BY <1>3 DEF PlanNothing
  <2>2. Kept
    BY <2>1 DEF TypeOK, Cycle
  <2> QED BY <1>3, <2>2 DEF PlanNothing, TypeOK, InCycle
<1>4. CASE PlanRange(p)
  <2>1. cycle' = [cycle EXCEPT ![p].start = ClampedStart(p), ![p].seen = ClampedStart(p),
                               ![p].token = FirstToken(ClampedStart(p)),
                               ![p].target = cycle[p].latest]
    BY <1>4 DEF PlanRange
  <2>2. Kept
    BY <2>1 DEF TypeOK, Cycle
  <2> QED BY <1>4, <2>2 DEF PlanRange, TypeOK, InCycle
<1>5. CASE PlanFails(p) \/ PollErr(p)
  <2>1. cycle' = [cycle EXCEPT ![p] = NoCycle] /\ pc' = [pc EXCEPT ![p] = "idle"]
    BY <1>5 DEF PlanFails, PollErr
  <2>2. NoCycle.inserted = 0
    BY DEF NoCycle
  <2> QED BY <2>1, <2>2 DEF TypeOK, InCycle
<1>6. CASE TrackRpcCall(p)
  BY <1>6 DEF TrackRpcCall, TypeOK, InCycle
<1>7. CASE ReadVersion(p)
  <2>1. Kept
    BY <1>7 DEF ReadVersion, TypeOK, Cycle
  <2> QED BY <1>7, <2>1 DEF ReadVersion, TypeOK, InCycle
<1>8. CASE WriteProgress(p)
  <2>1. \A q \in Pollers : q # p => /\ cycle'[q].oldest = cycle[q].oldest
                                    /\ cycle'[q].inserted = cycle[q].inserted
    BY <1>8 DEF WriteProgress, TypeOK, Cycle
  <2>2. cycle'[p].inserted = 0 /\ pc'[p] \notin InCycle
    BY <1>8 DEF WriteProgress, TypeOK, InCycle, NoCycle
  <2> QED BY <1>8, <2>1, <2>2 DEF WriteProgress, TypeOK
<1> QED BY <1>1, <1>2, <1>3, <1>4, <1>5, <1>6, <1>7, <1>8 DEF PollStep

(* Ledgers close one at a time, and nothing reopens one. *)
LEMMA TipMoves ==
    ASSUME [Next]_vars
    PROVE  tip' = tip \/ tip' = tip + 1
BY DEF Next, vars, CloseLedger, PollStep, ProcessStep, RecoverGaps, BeginPoll,
   PlanNothing, PlanRange, PlanFails, FetchPage, FetchPageError, RescanPage,
   TrackRpcCall, ReadVersion, WriteProgress, PollErr, AcquireLock, LoseLock,
   KeepaliveExit, Crash, Restart, GapsList, GapsNext, GapsPage, GapsMark,
   GapsFail, pollerVars

(* The oldest ledger a cycle works with has closed. *)
LEMMA WindowStep ==
    ASSUME TypeOK, TipInv, WindowInv, [Next]_vars
    PROVE  WindowInv'
<1> USE ChainAssumption, IngestionAssumption
<1>0. /\ TypeOK' /\ tip \in Int /\ tip' \in Int /\ tip <= tip'
      /\ \A p \in Pollers : cycle[p].oldest \in Int
  <2>1. tip \in Int /\ \A p \in Pollers : cycle[p].oldest \in Int
    BY DEF TypeOK, Ledgers, Cycle
  <2>2. tip' = tip \/ tip' = tip + 1
    BY TipMoves
  <2> QED BY <2>1, <2>2, TypeStep
<1>1. ASSUME NEW p \in Pollers, BeginPoll(p) PROVE WindowInv'
  <2>1. PICK t \in EndpointTips(tip) :
            \E o \in {OldestAt(h) : h \in EndpointTips(tip)}
                        \cup {Larger(t - MaxLookback, 1)} :
                cycle' = [cycle EXCEPT ![p] = [NoCycle EXCEPT !.latest = t, !.oldest = o]]
    BY <1>1 DEF BeginPoll
  <2>2. PICK o \in {OldestAt(h) : h \in EndpointTips(tip)}
                        \cup {Larger(t - MaxLookback, 1)} :
            cycle' = [cycle EXCEPT ![p] = [NoCycle EXCEPT !.latest = t, !.oldest = o]]
    BY <2>1
  <2>3. o <= tip
    <3>1. \A h \in EndpointTips(tip) : h \in 1..tip
      BY TipTypes
    <3>2. \A h \in EndpointTips(tip) : OldestAt(h) <= tip
      BY <1>0, <3>1 DEF OldestAt, Larger
    <3>3. Larger(t - MaxLookback, 1) <= tip
      BY <1>0, <3>1 DEF Larger
    <3> QED BY <3>2, <3>3
  <2>4. cycle'[p].oldest = o
    BY <2>2 DEF TypeOK, NoCycle
  <2>5. \A q \in Pollers : q # p => cycle'[q] = cycle[q] /\ pc'[q] = pc[q]
    BY <1>1, <2>2 DEF BeginPoll, TypeOK
  <2>6. tip' = tip
    BY <1>1 DEF BeginPoll
  <2> QED BY <2>3, <2>4, <2>5, <2>6 DEF WindowInv
<1>2. ASSUME NEW p \in Pollers, PollStep(p), ~BeginPoll(p), ~FetchPage(p)
      PROVE  WindowInv'
  <2>1. \A q \in Pollers : pc'[q] \in InCycle =>
            pc[q] \in InCycle /\ cycle'[q].oldest = cycle[q].oldest
    BY <1>2, LocalsKept
  <2> QED BY <1>0, <2>1 DEF WindowInv
<1>5. ASSUME NEW p \in Pollers, FetchPage(p) PROVE WindowInv'
  <2>0. cycle[p] \in Cycle
    BY DEF TypeOK
  <2>1. PICK t \in EndpointTips(tip) :
            cycle' = [cycle EXCEPT ![p] = EndFetch(p, Fetched(p, t))]
            \/ cycle' = [cycle EXCEPT ![p] = Fetched(p, t)]
    BY <1>5, FetchPageEffect
  <2>2. Fetched(p, t).oldest = cycle[p].oldest
    BY <2>0 DEF Fetched, Cycle
  <2>3. EndFetch(p, Fetched(p, t)).oldest = cycle[p].oldest
    <3>1. Fetched(p, t) \in Cycle
      BY FetchedType, TipTypes
    <3> QED BY <2>2, <3>1 DEF EndFetch, Cycle
  <2>4. \A q \in Pollers : cycle'[q].oldest = cycle[q].oldest
    BY <2>1, <2>2, <2>3 DEF TypeOK
  <2>5. \A q \in Pollers : q # p => pc'[q] = pc[q]
    BY <1>5 DEF FetchPage, TypeOK
  <2> QED BY <1>0, <1>5, <2>4, <2>5 DEF FetchPage, InCycle, WindowInv
<1>3. ASSUME NEW p \in Pollers, ProcessStep(p) PROVE WindowInv'
  <2>1. \A q \in Pollers : pc'[q] \in InCycle =>
            pc[q] \in InCycle /\ cycle'[q] = cycle[q]
    BY <1>3 DEF ProcessStep, AcquireLock, LoseLock, KeepaliveExit, Crash, Restart,
                TypeOK, InCycle
  <2> QED BY <1>0, <2>1 DEF WindowInv
<1>4. CASE CloseLedger \/ RecoverGaps \/ UNCHANGED vars
  <2>1. pc' = pc /\ cycle' = cycle
    BY <1>4 DEF CloseLedger, RecoverGaps, GapsList, GapsNext, GapsPage, GapsMark,
                GapsFail, pollerVars, vars
  <2> QED BY <1>0, <2>1 DEF WindowInv
<1> QED BY <1>1, <1>2, <1>3, <1>4, <1>5 DEF Next

(* No missed range is recorded beyond the tip. *)
LEMMA ClosedStep ==
    ASSUME TypeOK, TipInv, WindowInv, ClosedRows, [Next]_vars
    PROVE  ClosedRows'
<1> USE ChainAssumption, IngestionAssumption
<1>0. /\ TypeOK' /\ tip \in Int /\ tip' \in Int /\ tip <= tip' /\ tip >= 1
      /\ gap \in Gap /\ gap.range \in MissedRow
      /\ \A r \in MissedRow : r.to \in Int
  <2>1. /\ tip \in Int /\ tip >= 1 /\ gap \in Gap /\ gap.range \in MissedRow
        /\ \A r \in MissedRow : r.to \in Int
    BY DEF TypeOK, Ledgers, Gap, MissedRow
  <2>2. tip' = tip \/ tip' = tip + 1
    BY TipMoves
  <2> QED BY <2>1, <2>2, TypeStep
<1>1. /\ \A r \in missed : r.to <= tip'
      /\ \A r \in gap.queue : r.to <= tip'
      /\ gap.range.to <= tip'
  BY <1>0 DEF ClosedRows, TypeOK, Gap
<1>2. ASSUME NEW a, NEW b, NEW r, b <= tip' PROVE \A x \in Skipped(a, b, r) : x.to <= tip'
  BY <1>2 DEF Skipped, MissedRange
<1>3. ASSUME NEW p \in Pollers, PlanRange(p) \/ PlanFails(p) PROVE ClosedRows'
  <2>0. /\ pc[p] = "plan" /\ ResumeAt(p) <= cycle[p].latest
        /\ cycle[p].oldest <= tip /\ cycle[p].latest <= tip
    BY <1>3 DEF PlanRange, PlanFails, WindowInv, TipInv, InCycle
  <2>1. /\ cycle[p].latest \in Int /\ cycle[p].oldest \in Int /\ ResumeAt(p) \in Int
        /\ WindowStart(p) \in Int /\ ClampedStart(p) \in Int
    BY <2>0, PlanTypes
  <2>2. WindowStart(p) <= tip
    BY <1>0, <2>0, <2>1 DEF WindowStart, Larger
  <2>3. ClampedStart(p) <= tip
    BY <1>0, <2>0, <2>1, <2>2 DEF ClampedStart
  <2>4. WindowStart(p) - 1 <= tip' /\ ClampedStart(p) - 1 <= tip'
    BY <1>0, <2>1, <2>2, <2>3
  <2>5. /\ \A x \in Skipped(ResumeAt(p), WindowStart(p) - 1, FALSE) : x.to <= tip'
        /\ \A x \in Skipped(WindowStart(p), ClampedStart(p) - 1, TRUE) : x.to <= tip'
    BY <1>2, <2>4
  <2>6. gap' = gap /\ \A r \in missed' : r \in missed
                        \/ r \in Skipped(ResumeAt(p), WindowStart(p) - 1, FALSE)
                        \/ r \in Skipped(WindowStart(p), ClampedStart(p) - 1, TRUE)
    BY <1>3 DEF PlanRange, PlanFails, SkippedRanges
  <2> QED BY <1>1, <2>5, <2>6 DEF ClosedRows
<1>4. ASSUME NEW p \in Pollers, FetchPageError(p) PROVE ClosedRows'
  <2>1. cycle[p].latest <= tip /\ cycle[p].latest \in Int
    BY <1>4 DEF FetchPageError, TipInv, InCycle, TypeOK, Cycle
  <2>2. MissedRange(cycle[p].seen, cycle[p].latest, TRUE).to <= tip'
    BY <1>0, <2>1 DEF MissedRange
  <2> QED BY <1>1, <1>4, <2>2 DEF FetchPageError, ClosedRows
<1>5. CASE GapsMark
  <2>1. [gap.range EXCEPT !.recovered = TRUE].to = gap.range.to
    BY <1>0 DEF MissedRow
  <2>2. \A r \in missed' : r.to <= tip'
    BY <1>1, <1>5, <2>1 DEF GapsMark
  <2>3. gap' = NoGap \/ (gap'.queue = gap.queue /\ gap'.range = gap.range)
    BY <1>0, <1>5 DEF GapsMark, Gap
  <2>4. NoGap.queue = {} /\ NoGap.range.to <= tip'
    BY <1>0 DEF NoGap, MissedRange
  <2> QED BY <1>1, <2>2, <2>3, <2>4 DEF ClosedRows
<1>6. CASE GapsList \/ GapsNext \/ GapsPage \/ GapsFail
  <2>1. missed' = missed
    BY <1>6 DEF GapsList, GapsNext, GapsPage, GapsFail
  <2>2. NoGap.queue = {} /\ NoGap.range.to <= tip'
    BY <1>0 DEF NoGap, MissedRange
  <2>3. CASE GapsList
    BY <1>0, <1>1, <2>1, <2>3 DEF GapsList, Gap, ClosedRows
  <2>4. CASE GapsNext
    BY <1>1, <2>1, <2>4 DEF GapsNext, ClosedRows
  <2>5. CASE GapsPage
    <3>1. gap'.queue = gap.queue /\ gap'.range = gap.range
      BY <1>0, <2>5 DEF GapsPage, Gap
    <3> QED BY <1>1, <2>1, <3>1 DEF ClosedRows
  <2>6. CASE GapsFail
    BY <1>1, <2>1, <2>2, <2>6 DEF GapsFail, ClosedRows
  <2> QED BY <1>6, <2>3, <2>4, <2>5, <2>6
<1>7. ASSUME missed' = missed, gap' = gap PROVE ClosedRows'
  BY <1>1, <1>7 DEF ClosedRows
<1>8. ASSUME NEW p \in Pollers, PollStep(p), ~PlanRange(p), ~PlanFails(p), ~FetchPageError(p)
      PROVE  missed' = missed /\ gap' = gap
  BY <1>8 DEF PollStep, BeginPoll, PlanNothing, FetchPage, RescanPage, TrackRpcCall,
              ReadVersion, WriteProgress, PollErr
<1>9. ASSUME NEW p \in Pollers, ProcessStep(p) PROVE missed' = missed /\ gap' = gap
  BY <1>9 DEF ProcessStep, AcquireLock, LoseLock, KeepaliveExit, Crash, Restart
<1>10. CASE CloseLedger \/ UNCHANGED vars
  BY <1>7, <1>10 DEF CloseLedger, vars
<1> QED BY <1>3, <1>4, <1>5, <1>6, <1>7, <1>8, <1>9, <1>10 DEF Next, RecoverGaps

(* One page of the replay: it stores the events of the range up to its     *)
(* next token, and ends only when nothing of the range lies beyond.        *)
LEMMA GapsPageReplays ==
    ASSUME CleanFeed, TypeOK, ClosedRows, ReplayInv, GapsPage
    PROVE  /\ \A e \in Events : gap.range.from <= LedgerOf[e]
                    /\ LedgerOf[e] <= gap.range.to /\ e < gap'.token => e \in stored'
           /\ gap'.pc = "mark" => \A e \in Events : gap.range.from <= LedgerOf[e]
                    /\ LedgerOf[e] <= gap.range.to => e \in stored'
           /\ gap'.range = gap.range /\ gap'.pc \in {"mark", "more"}
<1> USE ChainAssumption
<1>0. /\ gap \in Gap /\ gap.token \in 1..(NumEvents + 1) /\ gap.token \in Nat \ {0}
      /\ gap.range.to \in Int /\ tip \in Int /\ gap.range.to <= tip
  BY DEF TypeOK, Gap, MissedRow, Ledgers, ClosedRows
<1> DEFINE page(t) == Page(gap.token, t)
           inRange(t) == {e \in page(t) : LedgerOf[e] <= gap.range.to}
<1>1. PICK t \in EndpointTips(tip) :
            /\ stored' = stored \cup Parsed(inRange(t))
            /\ gap' = [gap EXCEPT !.token = NextToken(gap.token, page(t)),
                        !.pc = IF inRange(t) # page(t)
                                    \/ ShortPage(Cardinality(Parsed(inRange(t))))
                               THEN "mark" ELSE "more"]
  BY DEF GapsPage
<1> DEFINE run == Page(gap.token, t)
           within == {e \in run : LedgerOf[e] <= gap.range.to}
           next == NextToken(gap.token, run)
<1>2. t = tip /\ t \in Int
  BY DEF CleanFeed, EndpointTips, TypeOK, Ledgers
<1>3. stored' = stored \cup within
  BY <1>1 DEF CleanFeed, Parsed
<1>4. \A e \in Events : e \in Int /\ LedgerOf[e] \in Int
  BY DEF Events
<1>5. run \subseteq Events /\ \A e \in Events : gap.token <= e => (e \in run <=> e < next)
  BY <1>0, <1>2, PageIsRun DEF NextToken
<1>6. next \in Int /\ gap.token <= next
  <2>1. next \in 1..(NumEvents + 1) /\ gap.token <= next
    BY <1>0, <1>2, NextTokenType
  <2> HIDE DEF next
  <2> QED BY <2>1
<1>7. /\ gap'.token = next /\ gap'.range = gap.range /\ gap'.pc \in {"mark", "more"}
      /\ gap'.pc = "mark" => within # run \/ ShortPage(Cardinality(Parsed(within)))
  <2> DEFINE over == within # run \/ ShortPage(Cardinality(Parsed(within)))
  <2>1. gap' = [gap EXCEPT !.token = next, !.pc = IF over THEN "mark" ELSE "more"]
    BY <1>1
  <2> HIDE DEF next, over
  <2>2. /\ gap'.token = next /\ gap'.range = gap.range
        /\ gap'.pc = IF over THEN "mark" ELSE "more"
    BY <1>0, <2>1 DEF Gap
  <2> QED BY <2>2 DEF over
<1>8. ASSUME NEW e \in Events, gap.range.from <= LedgerOf[e], LedgerOf[e] <= gap.range.to,
             e < next
      PROVE  e \in stored'
  <2> HIDE DEF next
  <2>1. CASE e < gap.token
    BY <1>3, <1>8, <2>1 DEF ReplayInv, GapsPage
  <2>2. CASE gap.token <= e
    BY <1>3, <1>5, <1>8, <2>2
  <2> QED BY <1>0, <1>4, <2>1, <2>2
<1>9. ASSUME gap'.pc = "mark", NEW e \in Events, next <= e PROVE LedgerOf[e] > gap.range.to
  <2>1. CASE within # run
    <3>1. PICK f \in run : ~(LedgerOf[f] <= gap.range.to)
      BY <2>1
    <3>2. f \in Events /\ gap.token <= f
      BY <1>5, <3>1 DEF Page
    <3>3. f < next
      BY <1>5, <3>1, <3>2
    <3> HIDE DEF next
    <3>4. LedgerOf[f] <= LedgerOf[e]
      BY <1>4, <1>6, <1>9, <3>2, <3>3 DEF Events
    <3> QED BY <1>0, <1>4, <3>1, <3>2, <3>4
  <2>2. CASE within = run /\ ShortPage(Cardinality(Parsed(within)))
    <3>1. Parsed(within) = run
      BY <2>2 DEF CleanFeed, Parsed
    <3>2. ShortPage(Cardinality(run))
      BY <2>2, <3>1
    <3>3. LedgerOf[e] > t
      BY <1>0, <1>2, <1>9, <3>2, ShortPageIsLast DEF NextToken
    <3> QED BY <1>0, <1>2, <1>4, <3>3
  <2> QED BY <1>7, <1>9, <2>1, <2>2
<1>10. ASSUME gap'.pc = "mark", NEW e \in Events, gap.range.from <= LedgerOf[e],
              LedgerOf[e] <= gap.range.to
       PROVE  e \in stored'
  <2> HIDE DEF next
  <2>1. ~(next <= e)
    BY <1>0, <1>4, <1>9, <1>10
  <2> QED BY <1>4, <1>6, <1>8, <1>10, <2>1
<1> HIDE DEF next
<1> QED BY <1>7, <1>8, <1>10

(* One step keeps recovered ranges complete. *)
LEMMA ReplayStep ==
    ASSUME CleanFeed, TypeOK, TipInv, GapInv, [Next]_vars
    PROVE  ReplayInv'
<1>0. /\ stored \subseteq stored' /\ gap \in Gap /\ ReplayInv
      /\ gap.range \in MissedRow /\ missed \subseteq MissedRow
  BY StepGrows DEF Grows, TypeOK, Gap, GapInv
<1>1. ASSUME NEW r, Replayed(r) PROVE Replayed(r)'
  BY <1>0, <1>1 DEF Replayed
<1>2. ASSUME gap' = gap, \A r \in missed' : r.recovered => r \in missed PROVE ReplayInv'
  <2>1. \A r \in missed' : r.recovered => Replayed(r)'
    BY <1>0, <1>1, <1>2 DEF ReplayInv
  <2>2. gap.pc = "mark" => Replayed(gap.range)'
    BY <1>0, <1>2 DEF ReplayInv, Replayed
  <2> QED BY <1>0, <1>2, <2>1, <2>2 DEF ReplayInv
<1>3. ASSUME NEW p \in Pollers, PollStep(p)
      PROVE  gap' = gap /\ \A r \in missed' : r.recovered => r \in missed
  <2>1. \A a, b, c : \A r \in Skipped(a, b, c) : ~r.recovered
    BY DEF Skipped, MissedRange
  <2>2. \A a, b, c : ~MissedRange(a, b, c).recovered
    BY DEF MissedRange
  <2>3. CASE PlanRange(p) \/ PlanFails(p)
    BY <2>1, <2>3 DEF PlanRange, PlanFails, SkippedRanges
  <2>4. CASE FetchPageError(p)
    BY <2>2, <2>4 DEF FetchPageError
  <2>5. CASE ~PlanRange(p) /\ ~PlanFails(p) /\ ~FetchPageError(p)
    <3>1. gap' = gap /\ missed' = missed
      BY <1>3, <2>5 DEF PollStep, BeginPoll, PlanNothing, FetchPage, RescanPage,
         TrackRpcCall, ReadVersion, WriteProgress, PollErr
    <3> QED BY <3>1
  <2> QED BY <2>3, <2>4, <2>5
<1>4. ASSUME NEW p \in Pollers, ProcessStep(p) PROVE gap' = gap /\ missed' = missed
  BY <1>4 DEF ProcessStep, AcquireLock, LoseLock, KeepaliveExit, Crash, Restart
<1>5. CASE CloseLedger \/ UNCHANGED vars
  <2>1. gap' = gap /\ missed' = missed
    BY <1>5 DEF CloseLedger, vars
  <2> QED BY <1>2, <2>1
<1>6. ASSUME missed' = missed PROVE \A r \in missed' : r.recovered => Replayed(r)'
  BY <1>0, <1>1, <1>6 DEF ReplayInv
<1>7. CASE GapsList \/ GapsFail
  <2>1. missed' = missed
    BY <1>7 DEF GapsList, GapsFail
  <2>2. gap'.pc = "next" \/ gap'.pc = "off"
    <3>1. CASE GapsList
      BY <1>0, <3>1 DEF GapsList, Gap
    <3>2. CASE GapsFail
      BY <3>2 DEF GapsFail, NoGap
    <3> QED BY <1>7, <3>1, <3>2
  <2> QED BY <1>6, <2>1, <2>2 DEF ReplayInv
<1>8. CASE GapsNext
  <2>1. PICK r \in gap.queue :
            gap' = [pc |-> "page", queue |-> gap.queue \ {r}, range |-> r,
                    token |-> FirstToken(r.from)]
    BY <1>8 DEF GapsNext
  <2>2. r.from \in Int
    BY <1>0, <2>1, ChainAssumption DEF Gap, MissedRow
  <2>3. \A e \in Events : e < FirstToken(r.from) => LedgerOf[e] < r.from
    BY <2>2, FirstTokenSplits
  <2>4. \A e \in Events : LedgerOf[e] \in Int
    BY ChainAssumption DEF Events
  <2>5. missed' = missed
    BY <1>8 DEF GapsNext
  <2>6. \A e \in Events : r.from <= LedgerOf[e] => ~(e < FirstToken(r.from))
    BY <2>2, <2>3, <2>4
  <2>7. gap'.pc = "page" /\ gap'.range = r /\ gap'.token = FirstToken(r.from)
    BY <2>1
  <2> QED BY <1>6, <2>5, <2>6, <2>7 DEF ReplayInv
<1>9. CASE GapsPage
  <2>1. missed' = missed
    BY <1>9 DEF GapsPage
  <2> QED BY <1>0, <1>6, <1>9, <2>1, GapsPageReplays DEF GapInv, ReplayInv, Replayed
<1>10. CASE GapsMark
  <2>1. PICK g \in MissedRow : g = gap.range
    BY <1>0
  <2>2. PICK d : d = [g EXCEPT !.recovered = TRUE]
    OBVIOUS
  <2>3. Replayed(d)'
    <3>1. Replayed(g)
      BY <1>0, <1>10, <2>1 DEF GapsMark, ReplayInv
    <3>2. d.from = g.from /\ d.to = g.to
      BY <2>1, <2>2 DEF MissedRow
    <3> QED BY <1>0, <3>1, <3>2 DEF Replayed
  <2>5. missed' = (missed \ {g}) \cup {d}
    BY <1>10, <2>1, <2>2 DEF GapsMark
  <2>6. \A r \in missed' : r.recovered => Replayed(r)'
    BY <1>0, <1>1, <2>3, <2>5 DEF ReplayInv
  <2>4. gap'.pc \in {"off", "next"}
    BY <1>0, <1>10 DEF GapsMark, NoGap, Gap
  <2> QED BY <2>4, <2>6 DEF ReplayInv
<1> QED BY <1>2, <1>3, <1>4, <1>5, <1>7, <1>8, <1>9, <1>10 DEF Next, RecoverGaps

(* When every timestamp parses and no endpoint lags, a range that          *)
(* recover-gaps marked recovered has all its events in the store, for      *)
(* every page size, however many pollers record and store beside it, and   *)
(* however often the command was cut short (cmd_recover_gaps).             *)
THEOREM RecoveredRangesHold ==
    ASSUME CleanFeed
    PROVE  Spec => []RecoveredRangesComplete
<1>1. Init => TypeOK /\ TipInv /\ GapInv
  <2>1. Init => GapInv
    BY DEF Init, GapInv, WindowInv, ClosedRows, ReplayInv, NoGap, MissedRange, InCycle
  <2> QED BY <2>1, TypeInit
<1>2. TypeOK /\ TipInv /\ GapInv /\ [Next]_vars => (TypeOK /\ TipInv /\ GapInv)'
  BY TypeStep, WindowStep, ClosedStep, ReplayStep DEF GapInv
<1>3. GapInv => RecoveredRangesComplete
  BY DEF GapInv, ReplayInv, Replayed, RecoveredRangesComplete
<1> QED BY <1>1, <1>2, <1>3, PTL DEF Spec

-----------------------------------------------------------------------------
(* The ingested counter never counts a row twice *)

(***************************************************************************)
(* The counter is a sum over cycles of different processes that overlap,   *)
(* fail and are thrown away, so the invariant says whose rows it stands    *)
(* for: the stored rows can be divided so that each cycle in flight has    *)
(* the rows its total_inserted counted, the cursor row those of the cycles *)
(* that completed, and no row belongs to two of them.  `other` is the      *)
(* share of a process beside them: the backfill in BackfillProofs, nobody  *)
(* in Spec.                                                                *)
(***************************************************************************)
Divided(own, counted, other) ==
    /\ counted \subseteq stored /\ Cardinality(counted) = cursor.ingested
    /\ other \subseteq stored /\ other \cap counted = {}
    /\ \A p \in Pollers :
        /\ own[p] \subseteq stored /\ Cardinality(own[p]) = cycle[p].inserted
        /\ own[p] \cap counted = {} /\ own[p] \cap other = {}
        /\ \A q \in Pollers : q # p => own[p] \cap own[q] = {}

CountInv(other) ==
    \E own \in [Pollers -> SUBSET Events], counted \in SUBSET Events :
        Divided(own, counted, other)

(* A step that stores rows nobody counts, or throws a cycle's count away. *)
LEMMA CountKept ==
    ASSUME NEW other, CountInv(other),
           stored \subseteq stored', cursor'.ingested = cursor.ingested,
           \A q \in Pollers : \/ cycle'[q].inserted = 0
                              \/ cycle'[q].inserted = cycle[q].inserted
    PROVE  CountInv(other)'
<1>1. PICK own \in [Pollers -> SUBSET Events], counted \in SUBSET Events :
            Divided(own, counted, other)
  BY DEF CountInv
<1>2. PICK left \in [Pollers -> SUBSET Events] :
        \A q \in Pollers : left[q] =
            IF cycle'[q].inserted = cycle[q].inserted THEN own[q] ELSE {}
  <2>1. [q \in Pollers |-> IF cycle'[q].inserted = cycle[q].inserted THEN own[q] ELSE {}]
            \in [Pollers -> SUBSET Events]
    OBVIOUS
  <2> QED BY <2>1
<1>3. \A q \in Pollers : left[q] \subseteq own[q]
  BY <1>2
<1>4. \A q \in Pollers : Cardinality(left[q]) = cycle'[q].inserted
  BY <1>1, <1>2, FS_EmptySet DEF Divided
<1>5. Divided(left, counted, other)'
  <2>1. counted \subseteq stored' /\ Cardinality(counted) = cursor'.ingested
    BY <1>1 DEF Divided
  <2>4. other \subseteq stored' /\ other \cap counted = {}
    BY <1>1 DEF Divided
  <2>2. \A q \in Pollers : /\ left[q] \subseteq stored' /\ left[q] \cap counted = {}
                           /\ left[q] \cap other = {}
    BY <1>1, <1>3 DEF Divided
  <2>3. \A q, r \in Pollers : r # q => left[q] \cap left[r] = {}
    BY <1>1, <1>3 DEF Divided
  <2> QED BY <1>4, <2>1, <2>2, <2>3, <2>4 DEF Divided
<1> QED BY <1>5 DEF CountInv

(* A page of the live fetch counts the rows it adds to the store, and      *)
(* those are rows nobody has.                                              *)
LEMMA CountFetch ==
    ASSUME TypeOK, NEW other, CountInv(other), NEW p \in Pollers, FetchPage(p)
    PROVE  CountInv(other)'
<1>0. cycle[p] \in Cycle
  BY DEF TypeOK
<1>1. PICK own \in [Pollers -> SUBSET Events], counted \in SUBSET Events :
            Divided(own, counted, other)
  BY DEF CountInv
<1>2. PICK t \in EndpointTips(tip) :
            /\ stored' = stored \cup Parsed(Page(cycle[p].token, t))
            /\ cursor' \in {cursor, WithRow(cursor)}
            /\ \/ cycle' = [cycle EXCEPT ![p] = EndFetch(p, Fetched(p, t))]
               \/ cycle' = [cycle EXCEPT ![p] = Fetched(p, t)]
  BY FetchPageEffect
<1> DEFINE new == Parsed(Page(cycle[p].token, t)) \ stored
<1>3. /\ new \in SUBSET Events /\ new \cap stored = {} /\ stored' = stored \cup new
      /\ IsFiniteSet(new) /\ Cardinality(new) \in Nat
  <2>1. new \in SUBSET Events
    BY DEF Parsed, Page
  <2> QED BY <1>2, <2>1, EventSets
<1>4. cycle'[p].inserted = cycle[p].inserted + Cardinality(new)
  <2>1. Fetched(p, t).inserted = cycle[p].inserted + Cardinality(new)
    BY <1>0 DEF Fetched, Cycle, NewRows
  <2>2. Fetched(p, t) \in Cycle
    BY FetchedType, TipTypes
  <2>3. EndFetch(p, Fetched(p, t)).inserted = Fetched(p, t).inserted
    BY <2>2 DEF EndFetch, Cycle
  <2> QED BY <1>2, <2>1, <2>3 DEF TypeOK
<1>5. \A q \in Pollers : q # p => cycle'[q] = cycle[q]
  BY <1>2 DEF TypeOK
<1>6. cursor'.ingested = cursor.ingested
  BY <1>2 DEF WithRow, TypeOK
<1> HIDE DEF new
<1>7. PICK more \in [Pollers -> SUBSET Events] :
        /\ more[p] = own[p] \cup new
        /\ \A q \in Pollers : q # p => more[q] = own[q]
  <2>1. [own EXCEPT ![p] = own[p] \cup new] \in [Pollers -> SUBSET Events]
    BY <1>3
  <2> QED BY <2>1
<1>8. Cardinality(more[p]) = cycle'[p].inserted
  <2>1. own[p] \cap new = {} /\ Cardinality(own[p]) = cycle[p].inserted
    BY <1>1, <1>3 DEF Divided
  <2>2. IsFiniteSet(own[p]) /\ Cardinality(own[p]) \in Nat
    BY EventSets
  <2>3. Cardinality(own[p] \cup new)
            = Cardinality(own[p]) + Cardinality(new) - Cardinality(own[p] \cap new)
    BY <1>3, <2>2, FS_Union
  <2>4. Cardinality(own[p] \cap new) = 0
    BY <2>1, FS_EmptySet
  <2> QED BY <1>3, <1>4, <1>7, <2>1, <2>2, <2>3, <2>4
<1>9. Divided(more, counted, other)'
  <2>1. counted \subseteq stored' /\ Cardinality(counted) = cursor'.ingested
    BY <1>1, <1>3, <1>6 DEF Divided
  <2>2. \A q \in Pollers : more[q] \subseteq stored' /\ Cardinality(more[q]) = cycle'[q].inserted
    BY <1>1, <1>3, <1>5, <1>7, <1>8 DEF Divided
  <2>3. \A q \in Pollers : more[q] \cap counted = {} /\ more[q] \cap other = {}
    BY <1>1, <1>3, <1>7 DEF Divided
  <2>5. other \subseteq stored' /\ other \cap counted = {}
    BY <1>1, <1>3 DEF Divided
  <2>4. \A q, r \in Pollers : r # q => more[q] \cap more[r] = {}
    BY <1>1, <1>3, <1>7 DEF Divided
  <2> QED BY <2>1, <2>2, <2>3, <2>4, <2>5 DEF Divided
<1> QED BY <1>9 DEF CountInv

(* The cursor write takes over the rows of the cycle that ends with it. *)
LEMMA CountWrite ==
    ASSUME TypeOK, NEW other, CountInv(other), NEW p \in Pollers, WriteProgress(p)
    PROVE  CountInv(other)'
<1>1. PICK own \in [Pollers -> SUBSET Events], counted \in SUBSET Events :
            Divided(own, counted, other)
  BY DEF CountInv
<1> DEFINE left == [own EXCEPT ![p] = {}]
           taken == counted \cup own[p]
<1>2. /\ left \in [Pollers -> SUBSET Events] /\ left[p] = {}
      /\ \A q \in Pollers : q # p => left[q] = own[q]
  OBVIOUS
<1>3. taken \in SUBSET Events
  OBVIOUS
<1>4. stored' = stored /\ cursor'.ingested = cursor.ingested + cycle[p].inserted
  BY DEF WriteProgress, TypeOK
<1>5. cycle'[p].inserted = 0 /\ \A q \in Pollers : q # p => cycle'[q].inserted = cycle[q].inserted
  BY DEF WriteProgress, TypeOK, Cycle, NoCycle
<1>6. Cardinality(taken) = cursor'.ingested
  <2>1. /\ Cardinality(counted) = cursor.ingested
        /\ Cardinality(own[p]) = cycle[p].inserted /\ own[p] \cap counted = {}
    BY <1>1 DEF Divided
  <2>2. /\ IsFiniteSet(counted) /\ IsFiniteSet(own[p])
        /\ Cardinality(counted) \in Nat /\ Cardinality(own[p]) \in Nat
    BY EventSets
  <2>3. Cardinality(taken)
            = Cardinality(counted) + Cardinality(own[p]) - Cardinality(counted \cap own[p])
    BY <2>2, FS_Union
  <2>4. counted \cap own[p] = {}
    BY <2>1
  <2>5. Cardinality(counted \cap own[p]) = 0
    BY <2>4, FS_EmptySet
  <2> QED BY <1>4, <2>1, <2>2, <2>3, <2>5
<1> HIDE DEF left
<1>7. Divided(left, taken, other)'
  <2>1. taken \subseteq stored'
    BY <1>1, <1>4 DEF Divided
  <2>2. \A q \in Pollers : left[q] \subseteq stored' /\ Cardinality(left[q]) = cycle'[q].inserted
    BY <1>1, <1>2, <1>4, <1>5, FS_EmptySet DEF Divided
  <2>5. other \subseteq stored' /\ other \cap taken = {}
    BY <1>1, <1>4 DEF Divided
  <2>3. \A q \in Pollers : left[q] \cap taken = {} /\ left[q] \cap other = {}
    BY <1>1, <1>2 DEF Divided
  <2>4. \A q, r \in Pollers : r # q => left[q] \cap left[r] = {}
    BY <1>1, <1>2 DEF Divided
  <2> QED BY <1>6, <2>1, <2>2, <2>3, <2>4, <2>5 DEF Divided
<1> QED BY <1>2, <1>3, <1>7 DEF CountInv

LEMMA CountStep ==
    ASSUME TypeOK, TipInv, NEW other, CountInv(other), [Next]_vars
    PROVE  CountInv(other)'
<1>0. stored \subseteq stored'
  BY StepGrows DEF Grows
<1>1. ASSUME NEW p \in Pollers, PollStep(p) PROVE CountInv(other)'
  <2>1. CASE FetchPage(p)
    BY <2>1, CountFetch
  <2>2. CASE WriteProgress(p)
    BY <2>2, CountWrite
  <2>3. CASE ~FetchPage(p) /\ ~WriteProgress(p)
    <3>1. cursor' = cursor \/ cursor' = WithRow(cursor)
      BY <1>1, <2>3 DEF PollStep, BeginPoll, PlanNothing, PlanRange, PlanFails,
         FetchPageError, RescanPage, TrackRpcCall, ReadVersion, PollErr
    <3>2. cursor'.ingested = cursor.ingested
      BY <3>1 DEF WithRow, TypeOK
    <3>3. ASSUME BeginPoll(p), NEW q \in Pollers
          PROVE  cycle'[q].inserted = 0 \/ cycle'[q].inserted = cycle[q].inserted
      <4>1. PICK t, o :
                cycle' = [cycle EXCEPT ![p] = [NoCycle EXCEPT !.latest = t, !.oldest = o]]
        BY <3>3 DEF BeginPoll
      <4> QED BY <4>1 DEF TypeOK, NoCycle
    <3>4. \A q \in Pollers : \/ cycle'[q].inserted = 0
                             \/ cycle'[q].inserted = cycle[q].inserted
      BY <1>1, <2>3, <3>3, LocalsKept
    <3> QED BY <1>0, <3>2, <3>4, CountKept
  <2> QED BY <2>1, <2>2, <2>3
<1>2. ASSUME NEW p \in Pollers, ProcessStep(p) PROVE CountInv(other)'
  <2>1. cursor' = cursor
    BY <1>2 DEF ProcessStep, AcquireLock, LoseLock, KeepaliveExit, Crash, Restart
  <2>2. cycle' = cycle \/ cycle' = [cycle EXCEPT ![p] = NoCycle]
    BY <1>2 DEF ProcessStep, AcquireLock, LoseLock, KeepaliveExit, Crash, Restart
  <2>3. NoCycle.inserted = 0
    BY DEF NoCycle
  <2>4. \A q \in Pollers : \/ cycle'[q].inserted = 0
                           \/ cycle'[q].inserted = cycle[q].inserted
    BY <2>2, <2>3 DEF TypeOK
  <2> QED BY <1>0, <2>1, <2>4, CountKept
<1>3. CASE CloseLedger \/ RecoverGaps \/ UNCHANGED vars
  <2>1. cycle' = cycle /\ cursor' = cursor
    BY <1>3 DEF CloseLedger, RecoverGaps, GapsList, GapsNext, GapsPage, GapsMark,
                GapsFail, pollerVars, vars
  <2> QED BY <1>0, <2>1, CountKept
<1> QED BY <1>1, <1>2, <1>3 DEF Next

LEMMA CountInit == Init => CountInv({})
<1> SUFFICES ASSUME Init PROVE CountInv({})
  OBVIOUS
<1> DEFINE none == [p \in Pollers |-> {}]
<1>1. none \in [Pollers -> SUBSET Events] /\ \A p \in Pollers : none[p] = {}
  OBVIOUS
<1>2. Cardinality({}) = 0
  BY FS_EmptySet
<1>3. cursor.ingested = 0 /\ \A p \in Pollers : cycle[p].inserted = 0
  BY DEF Init, NoCycle
<1> HIDE DEF none
<1>4. Divided(none, {}, {})
  BY <1>1, <1>2, <1>3 DEF Divided
<1> QED BY <1>1, <1>4 DEF CountInv

LEMMA CountBounds ==
    ASSUME TypeOK, NEW other, CountInv(other)
    PROVE  IngestedNeverOvercounts
<1>1. PICK counted \in SUBSET Events :
            counted \subseteq stored /\ Cardinality(counted) = cursor.ingested
  BY DEF CountInv, Divided
<1>2. stored \in SUBSET Events /\ IsFiniteSet(stored)
  BY EventSets DEF TypeOK
<1> QED BY <1>1, <1>2, FS_Subset DEF IngestedNeverOvercounts

(* events_ingested_total never exceeds the rows stored: for any number of  *)
(* pollers fetching the same ledgers at once, through abandoned cycles,    *)
(* refetched ranges, the rescan and recover-gaps, and with lagging         *)
(* endpoints and unusable timestamps (insert_events, write_progress).      *)
THEOREM IngestedHolds == Spec => []IngestedNeverOvercounts
<1>1. Init => TypeOK /\ TipInv /\ CountInv({})
  BY TypeInit, CountInit
<1>2. TypeOK /\ TipInv /\ CountInv({}) /\ [Next]_vars => (TypeOK /\ TipInv /\ CountInv({}))'
  BY TypeStep, CountStep
<1>3. TypeOK /\ CountInv({}) => IngestedNeverOvercounts
  BY CountBounds
<1> QED BY <1>1, <1>2, <1>3, PTL DEF Spec

-----------------------------------------------------------------------------
(* The cursor never moves back *)

OnePoller == \A p, q \in Pollers : p = q

(***************************************************************************)
(* write_progress writes the target poll_once computed from a cursor read  *)
(* many awaits earlier; the version check covers only the last of them.    *)
(* What keeps the target at or above the cursor is that nobody else writes *)
(* in between: there is one process, or none has lost the lock, and then   *)
(* every process past the lock holds it.                                   *)
(***************************************************************************)
Solo == OnePoller \/ crashes = 0

LeaderInv == crashes = 0 => \A p \in Pollers : Alive(p) => holder = p

MonoInv ==
    /\ LeaderInv
    /\ ~cursor.present => cursor.last = 0 /\ \A p \in Pollers : pc[p] # "update"
    /\ Solo => \A p \in Pollers :
        pc[p] \in InCycle \ {"plan"} => cursor.last <= cycle[p].target

(* Until a process is lost, whoever polls holds the leader lock. *)
LEMMA LeaderStep ==
    ASSUME TypeOK, LeaderInv, [Next]_vars
    PROVE  LeaderInv'
<1> USE IngestionAssumption
<1>1. ASSUME NEW p \in Pollers, PollStep(p) PROVE LeaderInv'
  <2>1. /\ crashes' = crashes /\ holder' = holder
        /\ pc[p] = "idle" \/ pc[p] \in InCycle
        /\ \E x : pc' = [pc EXCEPT ![p] = x]
    <3>1. CASE FetchPage(p)
      <4>1. pc' = pc \/ pc' = [pc EXCEPT ![p] = AfterFetch(p)]
        BY <3>1 DEF FetchPage
      <4>2. \E x : pc' = [pc EXCEPT ![p] = x]
        BY <4>1 DEF TypeOK
      <4> QED BY <3>1, <4>2 DEF FetchPage, InCycle
    <3>2. CASE ~FetchPage(p)
      BY <1>1, <3>2 DEF PollStep, BeginPoll, PlanNothing, PlanRange, PlanFails,
         FetchPageError, RescanPage, TrackRpcCall, ReadVersion, WriteProgress, PollErr,
         InCycle
    <3> QED BY <3>1, <3>2
  <2>2. Alive(p)
    BY <2>1 DEF Alive, InCycle
  <2>3. \A q \in Pollers : q # p => pc'[q] = pc[q]
    BY <2>1 DEF TypeOK
  <2> QED BY <2>1, <2>2, <2>3 DEF LeaderInv, Alive
<1>2. ASSUME NEW p \in Pollers, ProcessStep(p) PROVE LeaderInv'
  <2>0. crashes \in Nat
    BY DEF TypeOK
  <2>1. CASE AcquireLock(p)
    <3>1. crashes = 0 => \A q \in Pollers : ~Alive(q)
      BY <2>1 DEF AcquireLock, LeaderInv
    <3> QED BY <2>1, <3>1 DEF AcquireLock, LeaderInv, Alive, TypeOK
  <2>2. CASE LoseLock(p) \/ Crash(p)
    <3>1. crashes' # 0
      BY <2>0, <2>2 DEF LoseLock, Crash
    <3> QED BY <3>1 DEF LeaderInv
  <2>3. CASE KeepaliveExit(p)
    BY <2>3 DEF KeepaliveExit, LeaderInv, Alive, TypeOK
  <2>4. CASE Restart(p)
    BY <2>4 DEF Restart, LeaderInv, Alive, TypeOK
  <2> QED BY <1>2, <2>1, <2>2, <2>3, <2>4 DEF ProcessStep
<1>3. CASE CloseLedger \/ RecoverGaps \/ UNCHANGED vars
  BY <1>3 DEF CloseLedger, RecoverGaps, GapsList, GapsNext, GapsPage, GapsMark,
              GapsFail, pollerVars, vars, LeaderInv, Alive
<1> QED BY <1>1, <1>2, <1>3 DEF Next

(* A step of poll_once, as far as the cursor and the target go. *)
LEMMA TargetStep ==
    ASSUME TypeOK, TipInv, MonoInv, NEW p \in Pollers, PollStep(p), ~WriteProgress(p)
    PROVE  /\ cursor'.last = cursor.last /\ (cursor.present => cursor'.present)
           /\ \A q \in Pollers : q # p => cycle'[q] = cycle[q] /\ pc'[q] = pc[q]
           /\ pc'[p] = "update" => cursor'.present
           /\ Solo /\ pc'[p] \in InCycle \ {"plan"} => cursor.last <= cycle'[p].target
<1> USE ChainAssumption, IngestionAssumption
<1>0. cycle[p] \in Cycle /\ cursor.last \in 0..MaxTip
  BY DEF TypeOK
<1>1. /\ cursor'.last = cursor.last
      /\ cursor.present => cursor'.present
  <2>1. cursor' = cursor \/ cursor' = WithRow(cursor)
    BY DEF PollStep, BeginPoll, PlanNothing, PlanRange, PlanFails, FetchPage,
       FetchPageError, RescanPage, TrackRpcCall, ReadVersion, PollErr
  <2> QED BY <2>1 DEF WithRow, TypeOK
<1>2. \A q \in Pollers : q # p => cycle'[q] = cycle[q] /\ pc'[q] = pc[q]
  BY DEF PollStep, BeginPoll, PlanNothing, PlanRange, PlanFails, FetchPage,
     FetchPageError, RescanPage, TrackRpcCall, ReadVersion, PollErr, TypeOK
<1>3. ASSUME Solo, pc'[p] \in InCycle \ {"plan"} PROVE cursor.last <= cycle'[p].target
  <2>1. CASE BeginPoll(p) \/ PlanFails(p) \/ PollErr(p)
    <3>1. pc'[p] \in {"plan", "idle"}
      BY <2>1 DEF BeginPoll, PlanFails, PollErr, TypeOK
    <3> QED BY <1>3, <3>1 DEF InCycle
  <2>2. CASE PlanNothing(p)
    <3>1. pc[p] = "plan" /\ cycle'[p].target = ResumeAt(p) - 1
      BY <2>2 DEF PlanNothing, TypeOK, Cycle
    <3>2. ResumeAt(p) \in 1..(MaxTip + 1)
      BY <3>1, PlanTypes
    <3>3. CASE cursor.present
      BY <1>0, <3>1, <3>3 DEF ResumeAt
    <3>4. CASE ~cursor.present
      BY <1>0, <3>1, <3>2, <3>4 DEF MonoInv
    <3> QED BY <3>3, <3>4
  <2>3. CASE PlanRange(p)
    <3>1. pc[p] = "plan" /\ ResumeAt(p) <= cycle[p].latest
      BY <2>3 DEF PlanRange
    <3>2. cycle'[p].target = cycle[p].latest
      <4>1. cycle'[p] = [[[[cycle[p] EXCEPT !.start = ClampedStart(p)]
                                     EXCEPT !.seen = ClampedStart(p)]
                                     EXCEPT !.token = FirstToken(ClampedStart(p))]
                                     EXCEPT !.target = cycle[p].latest]
        BY <2>3 DEF PlanRange, TypeOK
      <4> QED BY <1>0, <4>1 DEF Cycle
    <3>3. ResumeAt(p) \in 1..(MaxTip + 1) /\ cycle[p].latest \in 1..MaxTip
      BY <3>1, PlanTypes
    <3>4. CASE cursor.present
      BY <1>0, <3>1, <3>2, <3>3, <3>4 DEF ResumeAt
    <3>5. CASE ~cursor.present
      BY <1>0, <3>2, <3>3, <3>5 DEF MonoInv
    <3> QED BY <3>4, <3>5
  <2>4. CASE FetchPage(p) \/ FetchPageError(p) \/ RescanPage(p) \/ TrackRpcCall(p)
             \/ ReadVersion(p)
    <3>1. pc[p] \in InCycle \ {"plan"}
      BY <2>4 DEF FetchPage, FetchPageError, RescanPage, TrackRpcCall, ReadVersion, InCycle
    <3>2. cycle'[p].target = cycle[p].target
      <4>1. CASE FetchPage(p)
        <5>1. PICK t \in EndpointTips(tip) :
                  cycle' = [cycle EXCEPT ![p] = EndFetch(p, Fetched(p, t))]
                  \/ cycle' = [cycle EXCEPT ![p] = Fetched(p, t)]
          BY <4>1, FetchPageEffect
        <5>2. /\ Fetched(p, t) \in Cycle /\ Fetched(p, t).latest = cycle[p].latest
              /\ Fetched(p, t).target = cycle[p].target
          BY FetchedType, TipTypes
        <5>3. EndFetch(p, Fetched(p, t)).target = cycle[p].target
          BY <1>0, <5>2, EndFetchType
        <5> QED BY <5>1, <5>2, <5>3 DEF TypeOK
      <4>2. CASE FetchPageError(p)
        BY <1>0, <4>2, EndFetchType DEF FetchPageError, TypeOK
      <4>3. CASE RescanPage(p)
        <5>1. PICK k : cycle' = [cycle EXCEPT ![p].token = k, ![p].paged = TRUE]
          BY <4>3 DEF RescanPage
        <5> QED BY <5>1 DEF TypeOK, Cycle
      <4>4. CASE TrackRpcCall(p)
        BY <4>4 DEF TrackRpcCall
      <4>5. CASE ReadVersion(p)
        BY <4>5 DEF ReadVersion, TypeOK, Cycle
      <4> QED BY <2>4, <4>1, <4>2, <4>3, <4>4, <4>5
    <3> QED BY <1>3, <3>1, <3>2 DEF MonoInv
  <2> QED BY <2>1, <2>2, <2>3, <2>4 DEF PollStep
<1>4. ASSUME pc'[p] = "update" PROVE cursor'.present
  <2>1. ReadVersion(p)
    BY <1>4 DEF PollStep, BeginPoll, PlanNothing, PlanRange, PlanFails, FetchPage,
       FetchPageError, RescanPage, TrackRpcCall, PollErr, AfterFetch, TypeOK
  <2> QED BY <1>1, <2>1 DEF ReadVersion
<1> QED BY <1>1, <1>2, <1>3, <1>4

(* One step keeps targets at or above the cursor, and no write of a solo   *)
(* leader lowers it.                                                       *)
LEMMA MonoStep ==
    ASSUME TypeOK, TipInv, MonoInv, [Next]_vars
    PROVE  MonoInv' /\ (Solo => cursor'.last >= cursor.last)
<1>0. /\ LeaderInv' /\ crashes \in Nat /\ crashes' \in Nat
      /\ cursor.last \in Int /\ cursor.last >= cursor.last
  BY LeaderStep, TypeStep, ChainAssumption DEF MonoInv, TypeOK
<1>1. ASSUME NEW p \in Pollers, PollStep(p), ~WriteProgress(p)
      PROVE  MonoInv' /\ (Solo => cursor'.last >= cursor.last)
  <2>1. /\ cursor'.last = cursor.last /\ (cursor.present => cursor'.present)
        /\ \A q \in Pollers : q # p => cycle'[q] = cycle[q] /\ pc'[q] = pc[q]
        /\ pc'[p] = "update" => cursor'.present
        /\ Solo /\ pc'[p] \in InCycle \ {"plan"} => cursor.last <= cycle'[p].target
    BY <1>1, TargetStep
  <2>2. crashes' = crashes
    BY <1>1 DEF PollStep, BeginPoll, PlanNothing, PlanRange, PlanFails, FetchPage,
       FetchPageError, RescanPage, TrackRpcCall, ReadVersion, PollErr
  <2>3. Solo' => Solo
    BY <2>2 DEF Solo, OnePoller
  <2>4. ~cursor'.present => cursor'.last = 0 /\ \A q \in Pollers : pc'[q] # "update"
    BY <2>1 DEF MonoInv
  <2>5. ASSUME Solo, NEW q \in Pollers, pc'[q] \in InCycle \ {"plan"}
        PROVE  cursor'.last <= cycle'[q].target
    BY <2>1, <2>5 DEF MonoInv
  <2> QED BY <1>0, <2>1, <2>3, <2>4, <2>5 DEF MonoInv
<1>2. ASSUME NEW p \in Pollers, WriteProgress(p)
      PROVE  MonoInv' /\ (Solo => cursor'.last >= cursor.last)
  <2>1. /\ pc[p] = "update" /\ cursor'.last = cycle[p].target /\ crashes' = crashes
        /\ cursor'.present = cursor.present /\ pc' = [pc EXCEPT ![p] = "idle"]
    BY <1>2 DEF WriteProgress, TypeOK
  <2>2. cycle[p].target \in Int
    BY ChainAssumption DEF TypeOK, Cycle
  <2>3. Solo => cursor'.last >= cursor.last
    <3>1. Solo => cursor.last <= cycle[p].target
      BY <2>1 DEF MonoInv, InCycle
    <3> QED BY <1>0, <2>1, <2>2, <3>1
  <2>4. ASSUME Solo, NEW q \in Pollers, q # p PROVE pc'[q] \notin InCycle
    <3>1. ~OnePoller /\ crashes = 0
      BY <2>4 DEF Solo, OnePoller
    <3>2. holder = p
      BY <2>1, <3>1 DEF MonoInv, LeaderInv, Alive
    <3>3. ~Alive(q)
      BY <2>4, <3>1, <3>2 DEF MonoInv, LeaderInv
    <3> QED BY <2>1, <2>4, <3>3 DEF Alive, InCycle, TypeOK
  <2>5. pc'[p] \notin InCycle
    BY <2>1 DEF InCycle, TypeOK
  <2>6. Solo' => Solo
    BY <2>1 DEF Solo, OnePoller
  <2>7. cursor.present
    BY <2>1 DEF MonoInv
  <2> QED BY <1>0, <2>1, <2>3, <2>4, <2>5, <2>6, <2>7 DEF MonoInv
<1>3. ASSUME NEW p \in Pollers, ProcessStep(p)
      PROVE  MonoInv' /\ (Solo => cursor'.last >= cursor.last)
  <2>1. cursor' = cursor
    BY <1>3 DEF ProcessStep, AcquireLock, LoseLock, KeepaliveExit, Crash, Restart
  <2>2. crashes' = crashes \/ crashes' = crashes + 1
    BY <1>3 DEF ProcessStep, AcquireLock, LoseLock, KeepaliveExit, Crash, Restart
  <2>3. Solo' => Solo
    BY <1>0, <2>2 DEF Solo, OnePoller
  <2>4. \A q \in Pollers : pc'[q] \in InCycle \ {"plan"} =>
            pc[q] \in InCycle \ {"plan"} /\ cycle'[q] = cycle[q]
    BY <1>3 DEF ProcessStep, AcquireLock, LoseLock, KeepaliveExit, Crash, Restart,
                InCycle, TypeOK
  <2>5. \A q \in Pollers : pc'[q] = "update" => pc[q] = "update"
    BY <1>3 DEF ProcessStep, AcquireLock, LoseLock, KeepaliveExit, Crash, Restart, TypeOK
  <2> QED BY <1>0, <2>1, <2>3, <2>4, <2>5 DEF MonoInv
<1>4. CASE CloseLedger \/ RecoverGaps \/ UNCHANGED vars
  <2>1. pc' = pc /\ cycle' = cycle /\ cursor' = cursor /\ crashes' = crashes
    BY <1>4 DEF CloseLedger, RecoverGaps, GapsList, GapsNext, GapsPage, GapsMark,
                GapsFail, pollerVars, vars
  <2>2. Solo' => Solo
    BY <2>1 DEF Solo, OnePoller
  <2> QED BY <1>0, <2>1, <2>2 DEF MonoInv
<1> QED BY <1>1, <1>2, <1>3, <1>4 DEF Next

LEMMA MonoHolds == Spec => [](TypeOK /\ TipInv /\ MonoInv)
<1>1. Init => TypeOK /\ TipInv /\ MonoInv
  <2>1. Init => MonoInv
    BY DEF Init, MonoInv, LeaderInv, Alive, InCycle
  <2> QED BY <2>1, TypeInit
<1>2. TypeOK /\ TipInv /\ MonoInv /\ [Next]_vars => (TypeOK /\ TipInv /\ MonoInv)'
  BY TypeStep, MonoStep
<1> QED BY <1>1, <1>2, PTL DEF Spec

(* With one indexer process the cursor never moves back, whatever crashes, *)
(* failed cycles, lost locks and lagging endpoints there are (poll_once,   *)
(* write_progress).                                                        *)
THEOREM CursorMonotone ==
    ASSUME OnePoller
    PROVE  Spec => CursorNeverMovesBack
<1>1. TypeOK /\ TipInv /\ MonoInv /\ [Next]_vars => [cursor'.last >= cursor.last]_cursor
  BY MonoStep DEF Solo
<1> QED BY <1>1, MonoHolds, PTL DEF Spec, CursorNeverMovesBack

(* With any number of processes competing for the leader lock, the cursor  *)
(* does not move back as long as no process has been lost: only a leader   *)
(* that outlives its lock can do that (LeaderLock, spawn_keepalive).       *)
THEOREM CursorMonotoneUnderLock ==
    Spec => [][crashes = 0 => cursor'.last >= cursor.last]_cursor
<1>1. TypeOK /\ TipInv /\ MonoInv /\ [Next]_vars
        => [crashes = 0 => cursor'.last >= cursor.last]_cursor
  BY MonoStep DEF Solo
<1> QED BY <1>1, MonoHolds, PTL DEF Spec

-----------------------------------------------------------------------------
(* Backfill: types *)

BackfillState ==
    [pc : {"off", "page", "readver", "update", "done"},
     tip : 0..MaxTip, start : 1..(MaxTip + 1), token : 1..(NumEvents + 1),
     paged : BOOLEAN, last : 0..(MaxTip + 1), inserted : Nat,
     ended : BOOLEAN, final : BOOLEAN, sameVersion : BOOLEAN]

(* The backfill may be asked to start past the last ledger; what it writes *)
(* to the cursor lies within the chain, because no endpoint serves a first *)
(* page from beyond its tip.                                               *)
BackfillTypeOK ==
    /\ bf \in BackfillState
    /\ bf.paged => bf.last <= MaxTip
    /\ bf.pc = "page" /\ ~bf.paged => bf.last = bf.start
    /\ bf.pc \in {"readver", "update"} => bf.paged

(***************************************************************************)
(* What the paging loop has done: everything from its first ledger up to   *)
(* the next token is stored, and once a page ended the loop, everything up *)
(* to the tip the command read at its start.                               *)
(***************************************************************************)
Secured(e) == e \in stored \/ e \in BadTs

PagedInv ==
    /\ bf.tip <= tip
    /\ \A e \in Events : bf.start <= LedgerOf[e] /\ e < bf.token => Secured(e)
    /\ bf.ended => \A e \in Events :
            bf.start <= LedgerOf[e] /\ LedgerOf[e] <= bf.tip => Secured(e)
    /\ bf.pc = "page" => ~bf.final
    /\ bf.final => bf.ended
    /\ bf.pc = "done" => bf.ended

(* The rows of the page the backfill has not checkpointed yet are a share  *)
(* of the stored rows that no poller and no checkpoint has counted.        *)
BackfillCounts ==
    \E mine \in SUBSET Events :
        Cardinality(mine) = bf.inserted /\ CountInv(mine)

-----------------------------------------------------------------------------
(* The steps, in the form the invariants need them *)

(* A step of the pollers or of recover-gaps only takes the backfill's      *)
(* version away.                                                           *)
LEMMA LiveKeeps ==
    ASSUME bf \in BackfillState, LiveStep
    PROVE  /\ bf' \in BackfillState
           /\ bf'.pc = bf.pc /\ bf'.tip = bf.tip /\ bf'.start = bf.start
           /\ bf'.token = bf.token /\ bf'.paged = bf.paged /\ bf'.last = bf.last
           /\ bf'.inserted = bf.inserted /\ bf'.ended = bf.ended /\ bf'.final = bf.final
<1>1. bf' = bf \/ bf' = [bf EXCEPT !.sameVersion = FALSE]
  BY DEF LiveStep
<1> QED BY <1>1 DEF BackfillState

(* Where a backfill starts. *)
LEMMA StartEffect ==
    ASSUME TypeOK, BackfillStart
    PROVE  \E t \in 1..tip, first \in 1..(MaxTip + 1) :
                bf' = [NoBackfill EXCEPT !.pc = "page", !.tip = t, !.start = first,
                                         !.token = FirstToken(first), !.last = first]
<1>1. PICK from \in BackfillFrom, t \in EndpointTips(tip) :
        LET resume == IF from > 0 THEN from
                      ELSE IF cursor.present THEN cursor.last + 1 ELSE 0
            first == Larger(resume, Larger(t - MaxLookback, 1))
        IN bf' = [NoBackfill EXCEPT !.pc = "page", !.tip = t, !.start = first,
                                    !.token = FirstToken(first), !.last = first]
  BY DEF BackfillStart
<1> DEFINE resume == IF from > 0 THEN from
                     ELSE IF cursor.present THEN cursor.last + 1 ELSE 0
           first == Larger(resume, Larger(t - MaxLookback, 1))
<1>2. t \in 1..tip /\ tip \in 1..MaxTip
  BY DEF EndpointTips, TypeOK, Ledgers
<1>3. from \in 0..MaxTip /\ cursor.last \in 0..MaxTip
  BY BackfillAssumption DEF TypeOK
<1>4. resume \in 0..(MaxTip + 1)
  BY <1>3, ChainAssumption
<1> HIDE DEF resume
<1>5. first \in 1..(MaxTip + 1)
  BY <1>2, <1>4, ChainAssumption, IngestionAssumption DEF Larger
<1>6. bf' = [NoBackfill EXCEPT !.pc = "page", !.tip = t, !.start = first,
                               !.token = FirstToken(first), !.last = first]
  BY <1>1 DEF resume
<1> HIDE DEF first
<1> QED BY <1>2, <1>5, <1>6

(* A stored page. *)
LEMMA PageEffect ==
    ASSUME TypeOK, BackfillTypeOK, BackfillPage
    PROVE  \E t \in EndpointTips(tip) :
             LET page == Page(bf.token, t) IN
             /\ bf' \in BackfillState
             /\ stored' = stored \cup Parsed(page)
             /\ bf'.pc = "readver" /\ bf'.tip = bf.tip /\ bf'.start = bf.start
             /\ bf'.token = bf.token + Cardinality(page)
             /\ bf'.paged = TRUE /\ bf'.last <= MaxTip
             /\ bf'.inserted = Cardinality(Parsed(page) \ stored)
             /\ bf'.ended = ShortPage(Cardinality(page)) /\ bf'.final = bf.final
<1>1. PICK t \in EndpointTips(tip) :
        /\ Serves(t, bf.start, bf.token, bf.paged)
        /\ stored' = stored \cup Parsed(Page(bf.token, t))
        /\ bf' = [bf EXCEPT !.pc = "readver",
                            !.token = NextToken(@, Page(bf.token, t)),
                            !.paged = TRUE,
                            !.last = LastLedger(@, bf.token, Page(bf.token, t)),
                            !.inserted = NewRows(Parsed(Page(bf.token, t))),
                            !.ended = EndsBackfill(Page(bf.token, t))]
  BY DEF BackfillPage
<1> DEFINE page == Page(bf.token, t)
           k == NextToken(bf.token, page)
           l == LastLedger(bf.last, bf.token, page)
           n == NewRows(Parsed(page))
           b == EndsBackfill(page)
<1>2. t \in 1..MaxTip
  BY TipTypes DEF TypeOK, Ledgers, EndpointTips
<1>3. bf \in BackfillState /\ bf.token \in 1..(NumEvents + 1) /\ bf.last \in 0..(MaxTip + 1)
  BY DEF BackfillTypeOK, BackfillState
<1>4. k \in 1..(NumEvents + 1) /\ (page # {} => k - 1 \in Events)
  BY <1>2, <1>3, NextTokenType
<1>5. bf.last \in 0..MaxTip
  <2>1. bf.paged => bf.last \in 0..MaxTip
    BY <1>3, ChainAssumption DEF BackfillTypeOK
  <2>2. CASE ~bf.paged /\ bf.last = bf.start
    BY <1>1, <1>2, <1>3, <2>2, ChainAssumption DEF Serves
  <2> QED BY <2>1, <2>2 DEF BackfillTypeOK, BackfillPage
<1>6. l \in 0..MaxTip
  BY <1>4, <1>5, ChainAssumption DEF LastLedger, Larger, Events
<1>7. n = Cardinality(Parsed(page) \ stored) /\ n \in Nat
  BY EventSets DEF NewRows, Parsed, Page
<1>8. b = ShortPage(Cardinality(page)) /\ b \in BOOLEAN
  BY DEF EndsBackfill, ShortPage
<1>9. k = bf.token + Cardinality(page)
  BY DEF NextToken
<1>10. bf' = [bf EXCEPT !.pc = "readver", !.token = k, !.paged = TRUE, !.last = l,
                        !.inserted = n, !.ended = b]
  BY <1>1
<1> HIDE DEF page, k, l, n, b
<1>11. /\ bf' \in BackfillState
       /\ bf'.pc = "readver" /\ bf'.tip = bf.tip /\ bf'.start = bf.start
       /\ bf'.token = k /\ bf'.paged = TRUE /\ bf'.last = l
       /\ bf'.inserted = n /\ bf'.ended = b /\ bf'.final = bf.final
  <2>1. k \in 1..(NumEvents + 1) /\ l \in 0..(MaxTip + 1) /\ n \in Nat /\ b \in BOOLEAN
    BY <1>4, <1>6, <1>7, <1>8, ChainAssumption
  <2> QED BY <1>3, <1>10, <2>1 DEF BackfillState
<1>12. l <= MaxTip
  BY <1>6, ChainAssumption
<1> QED BY <1>1, <1>7, <1>8, <1>9, <1>11, <1>12 DEF page

(* A checkpoint or the final advance. *)
LEMMA CheckpointEffect ==
    ASSUME BackfillTypeOK, BackfillCheckpoint
    PROVE  /\ bf' \in BackfillState
           /\ bf.paged /\ bf'.paged /\ bf'.pc \in {"done", "readver", "page"}
           /\ bf'.tip = bf.tip /\ bf'.start = bf.start /\ bf'.token = bf.token
           /\ bf'.last = bf.last \/ bf'.last = bf.tip
           /\ bf'.inserted = 0 /\ bf'.ended = bf.ended
           /\ bf'.pc = "page" => ~bf'.final
           /\ bf'.final => bf.final \/ bf.ended
           /\ bf'.pc = "done" => bf.final
<1>1. bf.paged /\ bf \in BackfillState
  BY DEF BackfillTypeOK, BackfillCheckpoint
<1>2. CASE bf' = [bf EXCEPT !.pc = "done", !.inserted = 0] /\ bf.final
  BY <1>1, <1>2 DEF BackfillState
<1>3. CASE bf' = [bf EXCEPT !.pc = "readver", !.last = bf.tip, !.inserted = 0, !.final = TRUE]
           /\ bf.ended
  <2>1. bf.tip \in 0..(MaxTip + 1)
    BY <1>1, ChainAssumption DEF BackfillState
  <2> QED BY <1>1, <1>3, <2>1 DEF BackfillState
<1>4. CASE bf' = [bf EXCEPT !.pc = "page", !.inserted = 0] /\ ~bf.final
  BY <1>1, <1>4 DEF BackfillState
<1> QED BY <1>2, <1>3, <1>4 DEF BackfillCheckpoint

-----------------------------------------------------------------------------
LEMMA BackfillTypeStep ==
    ASSUME TypeOK, TipInv, BackfillTypeOK, [BackfillNext]_bfVars
    PROVE  TypeOK' /\ TipInv' /\ BackfillTypeOK'
<1> USE ChainAssumption
<1>1. CASE UNCHANGED bfVars
  BY <1>1, TypeStep DEF bfVars, BackfillTypeOK
<1>2. CASE LiveStep
  <2>1. TypeOK' /\ TipInv'
    BY <1>2, TypeStep DEF LiveStep
  <2> QED BY <1>2, <2>1, LiveKeeps DEF BackfillTypeOK
<1>3. CASE BackfillStart
  <2>1. TypeOK' /\ TipInv'
    BY <1>3, TypeStep DEF BackfillStart
  <2>2. PICK t \in 1..tip, first \in 1..(MaxTip + 1) :
                bf' = [NoBackfill EXCEPT !.pc = "page", !.tip = t, !.start = first,
                                         !.token = FirstToken(first), !.last = first]
    BY <1>3, StartEffect
  <2>3. PICK k \in 1..(NumEvents + 1) : k = FirstToken(first)
    <3>1. first \in Int
      OBVIOUS
    <3> QED BY <3>1, FirstTokenSplits
  <2>4. t \in 0..MaxTip /\ first \in 0..(MaxTip + 1)
    BY DEF TypeOK, Ledgers
  <2>5. bf' = [pc |-> "page", tip |-> t, start |-> first, token |-> k, paged |-> FALSE,
               last |-> first, inserted |-> 0, ended |-> FALSE, final |-> FALSE,
               sameVersion |-> FALSE]
    BY <2>2, <2>3 DEF NoBackfill
  <2>6. bf' \in BackfillState /\ ~bf'.paged /\ bf'.pc = "page" /\ bf'.last = bf'.start
    BY <2>4, <2>5 DEF BackfillState
  <2> QED BY <2>1, <2>6 DEF BackfillTypeOK
<1>4. CASE BackfillPage
  <2>1. bf' \in BackfillState /\ bf'.pc = "readver" /\ bf'.paged /\ bf'.last <= MaxTip
    BY <1>4, PageEffect
  <2>2. stored' \subseteq Events
    BY <1>4 DEF BackfillPage, TypeOK, Parsed, Page
  <2>3. TypeOK' /\ TipInv'
    BY <1>4, <2>2 DEF BackfillPage, pollerVars, TypeOK, TipInv
  <2> QED BY <2>1, <2>3 DEF BackfillTypeOK
<1>5. CASE BackfillReadVersion
  <2>1. TypeOK' /\ TipInv'
    BY <1>5, TypeStep DEF BackfillReadVersion
  <2>2. bf' \in BackfillState /\ bf'.pc = "update" /\ bf'.paged = bf.paged /\ bf'.last = bf.last
    BY <1>5 DEF BackfillReadVersion, BackfillTypeOK, BackfillState
  <2> QED BY <1>5, <2>1, <2>2 DEF BackfillReadVersion, BackfillTypeOK
<1>6. CASE BackfillCheckpoint
  <2>1. bf.last \in 0..MaxTip /\ bf.inserted \in Nat /\ bf.tip \in 0..MaxTip
    <3>1. bf.paged /\ bf.last <= MaxTip
      BY <1>6 DEF BackfillCheckpoint, BackfillTypeOK
    <3> QED BY <3>1 DEF BackfillTypeOK, BackfillState
  <2>2. cursor' \in CursorRow
    <3>1. cursor \in CursorRow /\ cursor.ingested + bf.inserted \in Nat
      BY <2>1 DEF TypeOK, CursorRow
    <3>2. cursor' = [cursor EXCEPT !.last = bf.last,
                                   !.ingested = cursor.ingested + bf.inserted,
                                   !.written = TRUE]
      BY <1>6 DEF BackfillCheckpoint
    <3> QED BY <2>1, <3>1, <3>2 DEF CursorRow
  <2>3. cycle' \in [Pollers -> Cycle] /\ \A q \in Pollers : cycle'[q].latest = cycle[q].latest
    BY <1>6 DEF BackfillCheckpoint, TypeOK, Cycle
  <2>4. TypeOK' /\ TipInv'
    BY <1>6, <2>2, <2>3 DEF BackfillCheckpoint, TypeOK, TipInv, CursorRow
  <2>5. BackfillTypeOK'
    BY <1>6, <2>1, CheckpointEffect DEF BackfillTypeOK
  <2> QED BY <2>4, <2>5
<1>7. CASE BackfillFail
  <2>1. TypeOK' /\ TipInv'
    BY <1>7, TypeStep DEF BackfillFail
  <2> QED BY <1>7, <2>1 DEF BackfillFail, NoBackfill, BackfillTypeOK, BackfillState
<1> QED BY <1>1, <1>2, <1>3, <1>4, <1>5, <1>6, <1>7 DEF BackfillNext, BackfillStep

(* Types of the indexer with a backfill beside it: in particular the       *)
(* ledger a backfill checkpoints never lies beyond the chain, although it  *)
(* may be asked to start there (run, write_progress in backfill.rs).       *)
THEOREM BackfillTypeCorrect == BackfillSpec => [](TypeOK /\ BackfillTypeOK)
<1>1. BackfillInit => TypeOK /\ TipInv /\ BackfillTypeOK
  BY TypeInit, ChainAssumption DEF BackfillInit, BackfillTypeOK, BackfillState, NoBackfill
<1>2. TypeOK /\ TipInv /\ BackfillTypeOK /\ [BackfillNext]_bfVars
        => (TypeOK /\ TipInv /\ BackfillTypeOK)'
  BY BackfillTypeStep
<1> QED BY <1>1, <1>2, PTL DEF BackfillSpec

-----------------------------------------------------------------------------
(* A finished backfill is complete *)

(* Securing an event lasts: rows are only added. *)
LEMMA SecuredKept ==
    ASSUME TypeOK, TipInv, BackfillTypeOK, [BackfillNext]_bfVars
    PROVE  stored \subseteq stored' /\ tip <= tip'
<1>0. tip \in Int
  BY DEF TypeOK, Ledgers
<1>1. CASE [Next]_vars
  BY <1>0, <1>1, StepGrows, TipMoves DEF Grows
<1>2. CASE BackfillPage \/ BackfillCheckpoint
  <2>1. tip' = tip /\ stored \subseteq stored'
    BY <1>2 DEF BackfillPage, BackfillCheckpoint, pollerVars
  <2> QED BY <1>0, <2>1
<1> QED BY <1>1, <1>2 DEF BackfillNext, LiveStep, BackfillStep, BackfillStart,
            BackfillReadVersion, BackfillFail, bfVars

LEMMA PagedStep ==
    ASSUME MaxLag = 0, TypeOK, TipInv, BackfillTypeOK, PagedInv, [BackfillNext]_bfVars
    PROVE  PagedInv'
<1> USE ChainAssumption
<1>0. /\ \A e \in Events : e \in Int /\ LedgerOf[e] \in Int
      /\ tip \in Int /\ tip' \in Int /\ tip <= tip'
      /\ bf.tip \in Int /\ bf.start \in Int /\ bf.token \in Int
  <2>1. \A e \in Events : e \in Int /\ LedgerOf[e] \in Int
    BY DEF Events
  <2>2. tip <= tip' /\ TypeOK'
    BY SecuredKept, BackfillTypeStep
  <2>3. tip \in Int /\ tip' \in Int
    BY <2>2 DEF TypeOK, Ledgers
  <2>4. bf.tip \in Int /\ bf.start \in Int /\ bf.token \in Int
    BY DEF BackfillTypeOK, BackfillState
  <2> QED BY <2>1, <2>2, <2>3, <2>4
<1>1. \A e \in Events : Secured(e) => Secured(e)'
  BY SecuredKept DEF Secured
<1>2. ASSUME bf'.tip = bf.tip, bf'.start = bf.start, bf'.token = bf.token,
             bf'.ended = bf.ended,
             bf'.pc = "page" => ~bf'.final,
             bf'.final => bf.ended, bf'.pc = "done" => bf.ended
      PROVE  PagedInv'
  BY <1>0, <1>1, <1>2 DEF PagedInv
<1>3. CASE UNCHANGED bfVars
  BY <1>2, <1>3 DEF bfVars, PagedInv
<1>4. CASE LiveStep
  BY <1>2, <1>4, LiveKeeps DEF PagedInv, BackfillTypeOK
<1>5. CASE BackfillStart
  <2>1. PICK t \in 1..tip, first \in 1..(MaxTip + 1) :
                bf' = [NoBackfill EXCEPT !.pc = "page", !.tip = t, !.start = first,
                                         !.token = FirstToken(first), !.last = first]
    BY <1>5, StartEffect
  <2>2. /\ bf'.tip = t /\ bf'.start = first /\ bf'.token = FirstToken(first)
        /\ bf'.pc = "page" /\ ~bf'.ended /\ ~bf'.final
    BY <2>1 DEF NoBackfill
  <2>3. \A e \in Events : e < FirstToken(first) => ~(first <= LedgerOf[e])
    <3>1. first \in Int
      OBVIOUS
    <3>2. \A e \in Events : e < FirstToken(first) => LedgerOf[e] < first
      BY <3>1, FirstTokenSplits
    <3> QED BY <1>0, <3>1, <3>2
  <2>4. t <= tip'
    BY <1>0
  <2> QED BY <2>2, <2>3, <2>4 DEF PagedInv
<1>6. CASE BackfillPage
  <2>1. PICK t \in EndpointTips(tip) :
             LET page == Page(bf.token, t) IN
             /\ stored' = stored \cup Parsed(page)
             /\ bf'.pc = "readver" /\ bf'.tip = bf.tip /\ bf'.start = bf.start
             /\ bf'.token = bf.token + Cardinality(page)
             /\ bf'.ended = ShortPage(Cardinality(page)) /\ bf'.final = bf.final
    BY <1>6, PageEffect
  <2> DEFINE page == Page(bf.token, t)
  <2>2. t = tip /\ t \in Int
    BY <1>0 DEF EndpointTips
  <2>3. bf.token \in Nat \ {0}
    BY DEF BackfillTypeOK, BackfillState
  <2>4. \A e \in page : Secured(e)'
    BY <2>1 DEF Secured, Parsed
  <2>5. Cardinality(page) \in Nat
        /\ \A e \in Events : bf.token <= e => (e \in page <=> e < bf.token + Cardinality(page))
    BY <2>2, <2>3, PageIsRun
  <2>6. ASSUME ShortPage(Cardinality(page)), NEW e \in Events,
               bf.token + Cardinality(page) <= e
        PROVE  LedgerOf[e] > tip
    BY <2>2, <2>3, <2>6, ShortPageIsLast
  <2> HIDE DEF page
  <2>7. ASSUME NEW e \in Events, bf.start <= LedgerOf[e], e < bf.token + Cardinality(page)
        PROVE  Secured(e)'
    BY <1>0, <1>1, <2>4, <2>5, <2>7 DEF PagedInv
  <2>8. ASSUME ShortPage(Cardinality(page)), NEW e \in Events,
               bf.start <= LedgerOf[e], LedgerOf[e] <= bf.tip
        PROVE  Secured(e)'
    <3>1. ~(LedgerOf[e] > tip)
      BY <1>0, <2>8 DEF PagedInv
    <3>2. e < bf.token + Cardinality(page)
      BY <1>0, <2>5, <2>6, <2>8, <3>1
    <3> QED BY <2>7, <2>8, <3>2
  <2>9. ~bf'.final
    BY <1>6, <2>1 DEF BackfillPage, PagedInv
  <2>10. bf'.tip <= tip'
    BY <1>0, <2>1 DEF PagedInv
  <2> QED BY <2>1, <2>7, <2>8, <2>9, <2>10 DEF PagedInv, page
<1>7. CASE BackfillReadVersion
  <2>1. /\ bf'.pc = "update" /\ bf'.tip = bf.tip /\ bf'.start = bf.start
        /\ bf'.token = bf.token /\ bf'.ended = bf.ended /\ bf'.final = bf.final
    BY <1>7 DEF BackfillReadVersion, BackfillTypeOK, BackfillState
  <2> QED BY <1>2, <2>1 DEF PagedInv
<1>8. CASE BackfillCheckpoint
  BY <1>2, <1>8, CheckpointEffect DEF PagedInv
<1>9. CASE BackfillFail
  <2>1. bf' = NoBackfill /\ \A e \in Events : ~(e < 1)
    BY <1>9 DEF BackfillFail, Events
  <2>2. 0 <= tip'
    BY <1>9 DEF BackfillFail, vars, TypeOK, Ledgers
  <2> QED BY <2>1, <2>2 DEF NoBackfill, PagedInv
<1> QED BY <1>3, <1>4, <1>5, <1>6, <1>7, <1>8, <1>9 DEF BackfillNext, BackfillStep

(* A backfill that finishes has stored every event with a usable timestamp *)
(* from its first ledger to the tip it read, beside any pollers and        *)
(* recover-gaps, and although its pages come while the chain grows (run in *)
(* backfill.rs).  The endpoints answer at the chain's tip: behind it, a    *)
(* short page would end the loop early.                                    *)
THEOREM BackfillDoneHolds ==
    ASSUME MaxLag = 0
    PROVE  BackfillSpec => []BackfillDoneMeansStored
<1> DEFINE BInv == TypeOK /\ TipInv /\ BackfillTypeOK /\ PagedInv
<1>1. BackfillInit => BInv
  <2>1. ASSUME BackfillInit PROVE BackfillTypeOK
    BY <2>1, ChainAssumption DEF BackfillInit, BackfillTypeOK, BackfillState, NoBackfill
  <2>2. ASSUME BackfillInit PROVE PagedInv
    BY <2>2, ChainAssumption DEF BackfillInit, Init, NoBackfill, PagedInv, Events
  <2> QED BY <2>1, <2>2, TypeInit DEF BackfillInit
<1>2. BInv /\ [BackfillNext]_bfVars => BInv'
  BY BackfillTypeStep, PagedStep
<1>3. BInv => BackfillDoneMeansStored
  BY DEF PagedInv, Secured, BackfillDoneMeansStored
<1> HIDE DEF BInv
<1> QED BY <1>1, <1>2, <1>3, PTL DEF BackfillSpec

-----------------------------------------------------------------------------
(* The shared counter *)

(* A stored page: its new rows become the backfill's share. *)
LEMMA CountPage ==
    ASSUME TypeOK, BackfillTypeOK, BackfillCounts, BackfillPage
    PROVE  BackfillCounts'
<1>1. PICK t \in EndpointTips(tip) :
            /\ stored' = stored \cup Parsed(Page(bf.token, t))
            /\ bf'.inserted = Cardinality(Parsed(Page(bf.token, t)) \ stored)
  BY PageEffect
<1>2. PICK mine \in SUBSET Events : CountInv(mine)
  BY DEF BackfillCounts
<1>3. PICK own \in [Pollers -> SUBSET Events], counted \in SUBSET Events :
            Divided(own, counted, mine)
  BY <1>2 DEF CountInv
<1>4. PICK new \in SUBSET Events :
            new = Parsed(Page(bf.token, t)) \ stored
  BY DEF Parsed, Page
<1>5. /\ new \cap stored = {} /\ stored' = stored \cup new
      /\ cursor' = cursor /\ cycle' = cycle
  BY <1>1, <1>4 DEF BackfillPage, pollerVars
<1>6. Divided(own, counted, new)'
  <2>1. counted \subseteq stored' /\ new \subseteq stored' /\ new \cap counted = {}
    BY <1>3, <1>5 DEF Divided
  <2>2. \A p \in Pollers : own[p] \subseteq stored' /\ own[p] \cap new = {}
    BY <1>3, <1>5 DEF Divided
  <2> QED BY <1>3, <1>5, <2>1, <2>2 DEF Divided
<1>7. CountInv(new)'
  BY <1>6 DEF CountInv
<1> QED BY <1>1, <1>4, <1>7 DEF BackfillCounts

(* A checkpoint: the cursor row takes the share over. *)
LEMMA CountCheckpoint ==
    ASSUME TypeOK, BackfillTypeOK, BackfillCounts, BackfillCheckpoint
    PROVE  BackfillCounts'
<1>1. PICK mine \in SUBSET Events : Cardinality(mine) = bf.inserted /\ CountInv(mine)
  BY DEF BackfillCounts
<1>2. PICK own \in [Pollers -> SUBSET Events], counted \in SUBSET Events :
            Divided(own, counted, mine)
  BY <1>1 DEF CountInv
<1>3. PICK taken \in SUBSET Events : taken = counted \cup mine
  OBVIOUS
<1>4. Cardinality(taken) = cursor.ingested + bf.inserted
  <2>1. /\ IsFiniteSet(counted) /\ IsFiniteSet(mine)
        /\ Cardinality(counted) \in Nat /\ Cardinality(mine) \in Nat
    BY EventSets
  <2>2. Cardinality(taken)
            = Cardinality(counted) + Cardinality(mine) - Cardinality(counted \cap mine)
    BY <1>3, <2>1, FS_Union
  <2>3. counted \cap mine = {}
    BY <1>2 DEF Divided
  <2>4. Cardinality(counted \cap mine) = 0
    BY <2>3, FS_EmptySet
  <2> QED BY <1>1, <1>2, <2>1, <2>2, <2>4 DEF Divided
<1>5. /\ stored' = stored /\ cursor'.ingested = cursor.ingested + bf.inserted
      /\ \A q \in Pollers : cycle'[q].inserted = cycle[q].inserted
  BY DEF BackfillCheckpoint, TypeOK, Cycle
<1>6. Divided(own, taken, {})'
  <2>1. taken \subseteq stored' /\ {} \subseteq stored'
    BY <1>2, <1>3, <1>5 DEF Divided
  <2>2. \A p \in Pollers : /\ own[p] \subseteq stored'
                           /\ own[p] \cap taken = {} /\ own[p] \cap {} = {}
    BY <1>2, <1>3, <1>5 DEF Divided
  <2> QED BY <1>2, <1>4, <1>5, <2>1, <2>2 DEF Divided
<1>7. CountInv({})' /\ Cardinality({}) = 0 /\ {} \in SUBSET Events
  BY <1>6, FS_EmptySet DEF CountInv
<1>8. bf'.inserted = 0
  BY CheckpointEffect
<1> QED BY <1>7, <1>8 DEF BackfillCounts

LEMMA BackfillCountStep ==
    ASSUME TypeOK, TipInv, BackfillTypeOK, BackfillCounts, [BackfillNext]_bfVars
    PROVE  BackfillCounts'
<1>1. PICK mine \in SUBSET Events : Cardinality(mine) = bf.inserted /\ CountInv(mine)
  BY DEF BackfillCounts
<1>2. ASSUME [Next]_vars, bf'.inserted = bf.inserted
      PROVE  BackfillCounts'
  <2>1. CountInv(mine)'
    BY <1>1, <1>2, CountStep
  <2> QED BY <1>1, <1>2, <2>1 DEF BackfillCounts
<1>3. ASSUME UNCHANGED vars, bf'.inserted = 0
      PROVE  BackfillCounts'
  <2>1. PICK own \in [Pollers -> SUBSET Events], counted \in SUBSET Events :
            Divided(own, counted, mine)
    BY <1>1 DEF CountInv
  <2>2. Divided(own, counted, {})'
    BY <1>3, <2>1 DEF Divided, vars
  <2>3. CountInv({})' /\ Cardinality({}) = 0 /\ {} \in SUBSET Events
    BY <2>2, FS_EmptySet DEF CountInv
  <2> QED BY <1>3, <2>3 DEF BackfillCounts
<1>4. CASE UNCHANGED bfVars
  BY <1>2, <1>4 DEF bfVars
<1>5. CASE LiveStep
  <2>1. bf'.inserted = bf.inserted
    BY <1>5, LiveKeeps DEF BackfillTypeOK
  <2> QED BY <1>2, <1>5, <2>1 DEF LiveStep
<1>6. CASE BackfillStart
  <2>1. bf'.inserted = 0
    BY <1>6, StartEffect DEF NoBackfill
  <2> QED BY <1>3, <1>6, <2>1 DEF BackfillStart
<1>7. CASE BackfillReadVersion
  <2>1. bf'.inserted = bf.inserted
    BY <1>7 DEF BackfillReadVersion, BackfillTypeOK, BackfillState
  <2> QED BY <1>2, <1>7, <2>1 DEF BackfillReadVersion
<1>8. CASE BackfillFail
  BY <1>3, <1>8 DEF BackfillFail, NoBackfill
<1> QED BY <1>4, <1>5, <1>6, <1>7, <1>8, CountPage, CountCheckpoint
        DEF BackfillNext, BackfillStep

(* events_ingested_total never exceeds the rows stored, with a backfill    *)
(* writing the same counter beside any number of pollers, failing between  *)
(* a page and its checkpoint and starting again (backfill.rs: insert_events *)
(* and write_progress).                                                    *)
THEOREM BackfillIngestedHolds == BackfillSpec => []IngestedNeverOvercounts
<1> DEFINE BInv == TypeOK /\ TipInv /\ BackfillTypeOK /\ BackfillCounts
<1>1. BackfillInit => BInv
  <2>1. ASSUME BackfillInit PROVE BackfillTypeOK
    BY <2>1, ChainAssumption DEF BackfillInit, BackfillTypeOK, BackfillState, NoBackfill
  <2>2. ASSUME BackfillInit PROVE BackfillCounts
    <3>1. CountInv({}) /\ Cardinality({}) = 0 /\ {} \in SUBSET Events
      BY <2>2, CountInit, FS_EmptySet DEF BackfillInit
    <3>2. bf.inserted = 0
      BY <2>2 DEF BackfillInit, NoBackfill
    <3> QED BY <3>1, <3>2 DEF BackfillCounts
  <2> QED BY <2>1, <2>2, TypeInit DEF BackfillInit
<1>2. BInv /\ [BackfillNext]_bfVars => BInv'
  BY BackfillTypeStep, BackfillCountStep
<1>3. BInv => IngestedNeverOvercounts
  BY CountBounds DEF BackfillCounts
<1> HIDE DEF BInv
<1> QED BY <1>1, <1>2, <1>3, PTL DEF BackfillSpec

=============================================================================
