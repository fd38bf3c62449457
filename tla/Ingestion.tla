----------------------------- MODULE Ingestion ------------------------------
(***************************************************************************)
(* The live indexer: poller.rs (poll_once and the paging loops), the       *)
(* single-row progress cursor of cursor.rs, the missed_ranges table, the   *)
(* leader lock of main.rs and the recover-gaps command.                    *)
(*                                                                         *)
(* Every await that another process can slip through is a step boundary:   *)
(* the RPC reads, the cursor read, each stored page, the trailing rescan,  *)
(* the counter upsert and the two statements of write_progress.            *)
(*                                                                         *)
(* Two abstractions of data.  The cursor row's version number is only ever *)
(* compared for equality with the value a writer just read, so it is       *)
(* modelled by what the comparison tells apart: cycle[p].sameVersion holds *)
(* while the version p read is current, cursor.written once it is not 0.   *)
(* The local variables of poll_once are reset when the cycle ends.         *)
(*                                                                         *)
(* RETENTION_LEDGERS is 0, the default: run() then prunes nothing after a  *)
(* cycle.                                                                  *)
(***************************************************************************)
EXTENDS RpcChain

CONSTANTS
    Pollers,       \* processes started with the `run` command
    NoPoller,      \* the leader lock is free
    StartLedger,   \* START_LEDGER, 0 when unset
    MaxCatchup,    \* MAX_CATCHUP_LEDGERS
    MaxLookback,   \* MAX_LOOKBACK_LEDGERS, the fallback retention window
    ReorgOverlap,  \* REORG_OVERLAP_LEDGERS, 0 when disabled
    MaxCrashes     \* bound: process losses in one behaviour

ASSUME IngestionAssumption ==
    /\ NoPoller \notin Pollers
    /\ StartLedger \in Nat /\ StartLedger <= MaxTip
    /\ MaxCatchup \in Nat
    /\ MaxLookback \in Nat
    /\ ReorgOverlap \in Nat
    /\ MaxCrashes \in Nat

VARIABLES
    tip,       \* the chain's latest closed ledger
    stored,    \* contract_events
    cursor,    \* the indexer_cursor row
    missed,    \* missed_ranges
    holder,    \* which process holds INDEXER_LOCK_ID
    crashes,   \* process losses so far
    pc,        \* where each poller is
    cycle,     \* each poller's local variables in poll_once
    origin,    \* history: highest ledger a cursor-less poll started from
    gap        \* the recover-gaps command

vars == <<tip, stored, cursor, missed, holder, crashes, pc, cycle, origin, gap>>

-----------------------------------------------------------------------------
(* State *)

MissedRow == [from : 1..MaxTip, to : 0..MaxTip,
              recoverable : BOOLEAN, recovered : BOOLEAN]

PollerStates ==
    {"down", "standby", "idle", "plan", "fetch", "rescan", "track",
     "readver", "update"}

(* The states inside poll_once. *)
InCycle == {"plan", "fetch", "rescan", "track", "readver", "update"}

Alive(p) == pc[p] \notin {"down", "standby"}

Cycle ==
    [latest : 0..MaxTip,           \* tip reported by getLatestLedger
     oldest : 1..MaxTip,           \* oldest_available
     start : 1..MaxTip,            \* first ledger of the range being paged
     token : 1..(NumEvents + 1),   \* paging token of the next page
     paged : BOOLEAN,              \* has this loop had a page yet
     seen : 1..MaxTip,             \* last_seen_ledger
     inserted : Nat,               \* total_inserted
     target : 0..MaxTip,           \* what write_progress will record
     sameVersion : BOOLEAN]        \* the version read is still current

NoCycle ==
    [latest |-> 0, oldest |-> 1, start |-> 1, token |-> 1, paged |-> FALSE,
     seen |-> 1, inserted |-> 0, target |-> 0, sameVersion |-> FALSE]

Gap == [pc : {"off", "next", "page", "more", "mark"},
        queue : SUBSET MissedRow,      \* ranges listed and not yet replayed
        range : MissedRow,             \* the range being replayed
        token : 1..(NumEvents + 1)]

MissedRange(from, to, recoverable) ==
    [from |-> from, to |-> to, recoverable |-> recoverable,
     recovered |-> FALSE]

NoGap == [pc |-> "off", queue |-> {}, range |-> MissedRange(1, 0, TRUE),
          token |-> 1]

(***************************************************************************)
(* The counters of cursor.rs are upserts: they create the row with         *)
(* last_processed_ledger = 0 when it is not there yet.                     *)
(***************************************************************************)
RowStartsOver(c) == [c EXCEPT !.present = TRUE, !.last = 0]   \* mutant
WithRow(c) == [c EXCEPT !.present = TRUE]

Init ==
    /\ tip = 1
    /\ stored = {}
    /\ cursor = [present |-> FALSE, last |-> 0, ingested |-> 0, written |-> FALSE]
    /\ missed = {}
    /\ holder = NoPoller
    /\ crashes = 0
    /\ pc = [p \in Pollers |-> "standby"]
    /\ cycle = [p \in Pollers |-> NoCycle]
    /\ origin = 1
    /\ gap = NoGap

-----------------------------------------------------------------------------
(* Environment *)

(* A ledger closes. *)
CloseLedger ==
    /\ tip < MaxTip
    /\ tip' = tip + 1
    /\ UNCHANGED <<stored, cursor, missed, holder, crashes, pc, cycle, origin, gap>>

-----------------------------------------------------------------------------
(* Leader lock and process life cycle *)

(* LeaderLock::acquire: a standby blocks on the advisory lock. *)
AcquireLock(p) ==
    /\ pc[p] = "standby"
    /\ holder = NoPoller
    /\ holder' = p
    /\ pc' = [pc EXCEPT ![p] = "idle"]
    /\ UNCHANGED <<tip, stored, cursor, missed, crashes, cycle, origin, gap>>

(* The lock connection drops: Postgres frees the lock at once, the process *)
(* runs on until its next keepalive notices.                               *)
LoseLock(p) ==
    /\ holder = p
    /\ crashes < MaxCrashes
    /\ crashes' = crashes + 1
    /\ holder' = NoPoller
    /\ UNCHANGED <<tip, stored, cursor, missed, pc, cycle, origin, gap>>

(* spawn_keepalive: the SELECT 1 on a lost connection fails and the        *)
(* process exits, wherever the poll loop is.                               *)
KeepaliveExit(p) ==
    /\ Alive(p)
    /\ holder # p
    /\ pc' = [pc EXCEPT ![p] = "down"]
    /\ cycle' = [cycle EXCEPT ![p] = NoCycle]
    /\ UNCHANGED <<tip, stored, cursor, missed, holder, crashes, origin, gap>>

(* The process dies, exits on an RPC error that is not worth a retry, or   *)
(* sees the shutdown token at the head of the paging loop: in all cases    *)
(* poll_once ends without touching the cursor.                             *)
Crash(p) ==
    /\ Alive(p)
    /\ crashes < MaxCrashes
    /\ crashes' = crashes + 1
    /\ pc' = [pc EXCEPT ![p] = "down"]
    /\ cycle' = [cycle EXCEPT ![p] = NoCycle]
    /\ holder' = IF holder = p THEN NoPoller ELSE holder
    /\ UNCHANGED <<tip, stored, cursor, missed, origin, gap>>

(* The supervisor starts the process again. *)
Restart(p) ==
    /\ pc[p] = "down"
    /\ pc' = [pc EXCEPT ![p] = "standby"]
    /\ UNCHANGED <<tip, stored, cursor, missed, holder, crashes, cycle, origin, gap>>

-----------------------------------------------------------------------------
(* poll_once *)

(***************************************************************************)
(* An Err anywhere in the cycle: run() counts it (incr_errors and          *)
(* set_consecutive_errors, whose own failure is ignored) and polls again.  *)
(* A getEvents error after the first page is not one: see FetchPageError.  *)
(***************************************************************************)
PollErr(p) ==
    /\ pc[p] = "idle" \/ pc[p] \in InCycle
    /\ pc' = [pc EXCEPT ![p] = "idle"]
    /\ cycle' = [cycle EXCEPT ![p] = NoCycle]
    /\ cursor' \in {cursor, WithRow(cursor)}
    /\ UNCHANGED <<tip, stored, missed, holder, crashes, origin, gap>>

(* getLatestLedger and getHealth; when the latter fails or reports nothing *)
(* the window falls back to MAX_LOOKBACK_LEDGERS.                          *)
BeginPoll(p) ==
    /\ pc[p] = "idle"
    /\ \E t \in EndpointTips(tip) :
        \E o \in {OldestAt(h) : h \in EndpointTips(tip)}
                    \cup {Larger(t - MaxLookback, 1)} :
            cycle' = [cycle EXCEPT ![p] = [NoCycle EXCEPT !.latest = t, !.oldest = o]]
    /\ pc' = [pc EXCEPT ![p] = "plan"]
    /\ UNCHANGED <<tip, stored, cursor, missed, holder, crashes, origin, gap>>

(* Where the cycle starts before clamping. *)
ResumeAt(p) ==
    IF cursor.present THEN cursor.last + 1
    ELSE IF StartLedger > 0 THEN StartLedger
    ELSE cycle[p].latest

(* Clamp to the RPC's retention window, then to the catch-up window. *)
Unclamped(p) == ResumeAt(p)   \* mutant: the window is not looked at
WindowStart(p) == Larger(ResumeAt(p), cycle[p].oldest)
AlwaysClamped(p) == cycle[p].latest - MaxCatchup   \* mutant: no test first
ClampedStart(p) ==
    IF cycle[p].latest - WindowStart(p) > MaxCatchup
    THEN cycle[p].latest - MaxCatchup
    ELSE WindowStart(p)

(* The missed_ranges rows the two clamps insert. *)
Skipped(from, to, recoverable) ==
    IF from <= to THEN {MissedRange(from, to, recoverable)} ELSE {}
RetentionSkipOnly(p) ==   \* mutant: the catch-up skip is only logged
    Skipped(ResumeAt(p), WindowStart(p) - 1, FALSE)
SkippedRanges(p) ==
    Skipped(ResumeAt(p), WindowStart(p) - 1, FALSE)
        \cup Skipped(WindowStart(p), ClampedStart(p) - 1, TRUE)

NoteOrigin(p) ==
    origin' = IF cursor.present THEN origin ELSE Larger(origin, ResumeAt(p))

(* Nothing new closed: only the observed tip is recorded. *)
PlanNothing(p) ==
    /\ pc[p] = "plan"
    /\ ResumeAt(p) > cycle[p].latest
    /\ cycle' = [cycle EXCEPT ![p].target = ResumeAt(p) - 1]
    /\ pc' = [pc EXCEPT ![p] = "readver"]
    /\ NoteOrigin(p)
    /\ UNCHANGED <<tip, stored, cursor, missed, holder, crashes, gap>>

(* Reads the cursor, records what the clamps skip and starts paging. *)
PlanRange(p) ==
    /\ pc[p] = "plan"
    /\ ResumeAt(p) <= cycle[p].latest
    /\ missed' = missed \cup SkippedRanges(p)
    /\ cycle' = [cycle EXCEPT ![p].start = ClampedStart(p),
                              ![p].seen = ClampedStart(p),
                              ![p].token = FirstToken(ClampedStart(p)),
                              ![p].target = cycle[p].latest]
    /\ pc' = [pc EXCEPT ![p] = "fetch"]
    /\ NoteOrigin(p)
    /\ UNCHANGED <<tip, stored, cursor, holder, crashes, gap>>

(* The insert of the catch-up range fails after the one of the retention   *)
(* range went through: the cycle ends, the row stays.                      *)
PlanFails(p) ==
    /\ pc[p] = "plan"
    /\ ResumeAt(p) <= cycle[p].latest
    /\ WindowStart(p) < ClampedStart(p)
    /\ missed' = missed \cup Skipped(ResumeAt(p), WindowStart(p) - 1, FALSE)
    /\ pc' = [pc EXCEPT ![p] = "idle"]
    /\ cycle' = [cycle EXCEPT ![p] = NoCycle]
    /\ cursor' \in {cursor, WithRow(cursor)}
    /\ UNCHANGED <<tip, stored, holder, crashes, origin, gap>>

-----------------------------------------------------------------------------
(* Paging *)

(* The RPC answers a page request whose position is inside its window. *)
Serves(t, from, token, continued) ==
    IF continued
    THEN token \in Events => LedgerOf[token] >= OldestAt(t)
    ELSE OldestAt(t) <= from /\ from <= t

(* A page is a run of consecutive events from its token on. *)
NextToken(token, page) == token + Cardinality(page)

LastLedger(before, token, page) ==
    IF page = {} THEN before
    ELSE Larger(before, LedgerOf[NextToken(token, page) - 1])

(* track_enrichment is reached when the cycle converted any event. *)
SawEvent(from, token) == (FirstToken(from)..(token - 1)) \ BadTs # {}

(* fetch_and_store is over: rescan the trailing window or go on. *)
WillRescan(p) == ReorgOverlap > 0 /\ cycle[p].latest > ReorgOverlap
EndFetch(p, c) ==
    IF WillRescan(p)
    THEN [c EXCEPT !.start = c.latest - ReorgOverlap,
                   !.token = FirstToken(c.latest - ReorgOverlap),
                   !.paged = FALSE]
    ELSE c
AfterFetch(p) == IF WillRescan(p) THEN "rescan" ELSE "track"

(* What insert_events returns: ON CONFLICT DO NOTHING affects new rows     *)
(* only.  The mutant counts the whole batch.                               *)
BatchRows(batch) == Cardinality(batch)
NewRows(batch) == Cardinality(batch \ stored)

(* One page of fetch_and_store_with_shutdown, stored in one transaction.   *)
(* The loop ends on a page that yields fewer rows than were asked for.     *)
FetchPage(p) ==
    /\ pc[p] = "fetch"
    /\ \E t \in EndpointTips(tip) :
        LET page == Page(cycle[p].token, t)
            last == ShortPage(Cardinality(Parsed(page)))
            next == [cycle[p] EXCEPT
                        !.token = NextToken(@, page),
                        !.seen = LastLedger(@, cycle[p].token, page),
                        !.inserted = @ + NewRows(Parsed(page)),
                        !.paged = TRUE]
        IN
        /\ Serves(t, cycle[p].start, cycle[p].token, cycle[p].paged)
        /\ stored' = stored \cup Parsed(page)
        /\ \/ /\ last
              /\ cursor' = IF SawEvent(next.start, next.token)
                           THEN WithRow(cursor) ELSE cursor
              /\ cycle' = [cycle EXCEPT ![p] = EndFetch(p, next)]
              /\ pc' = [pc EXCEPT ![p] = AfterFetch(p)]
           \/ /\ ~last
              /\ cycle' = [cycle EXCEPT ![p] = next]
              /\ UNCHANGED <<cursor, pc>>
    /\ UNCHANGED <<tip, missed, holder, crashes, origin, gap>>

(* getEvents fails on a later page: what is left becomes a missed range    *)
(* and the cycle goes on as if it had reached the tip.                     *)
FetchPageError(p) ==
    /\ pc[p] = "fetch"
    /\ cycle[p].paged
    /\ missed' = missed \cup {MissedRange(cycle[p].seen, cycle[p].latest, TRUE)}
    /\ cursor' = WithRow(cursor)
    /\ cycle' = [cycle EXCEPT ![p] = EndFetch(p, cycle[p])]
    /\ pc' = [pc EXCEPT ![p] = AfterFetch(p)]
    /\ UNCHANGED <<tip, stored, holder, crashes, origin, gap>>

(* One page of fetch_and_upsert.  An event past the window ends the rescan *)
(* before the events of its page are written.                              *)
RescanPage(p) ==
    /\ pc[p] = "rescan"
    /\ \E t \in EndpointTips(tip) :
        LET page == Page(cycle[p].token, t)
            past == \E e \in page : LedgerOf[e] > cycle[p].latest
            last == past \/ ShortPage(Cardinality(Parsed(page)))
        IN
        /\ Serves(t, cycle[p].start, cycle[p].token, cycle[p].paged)
        /\ stored' = IF past THEN stored ELSE stored \cup Parsed(page)
        /\ cycle' = [cycle EXCEPT ![p].token = NextToken(@, page),
                                  ![p].paged = TRUE]
        /\ pc' = [pc EXCEPT ![p] = IF last THEN "track" ELSE "rescan"]
    /\ UNCHANGED <<tip, cursor, missed, holder, crashes, origin, gap>>

(* track_rpc_call: an upsert, so the cursor row exists from here on. *)
TrackRpcCall(p) ==
    /\ pc[p] = "track"
    /\ cursor' = WithRow(cursor)
    /\ pc' = [pc EXCEPT ![p] = "readver"]
    /\ UNCHANGED <<tip, stored, missed, holder, crashes, cycle, origin, gap>>

-----------------------------------------------------------------------------
(* write_progress *)

(* read_version; without a row fetch_one fails, which is a PollErr. *)
ReadVersion(p) ==
    /\ pc[p] = "readver"
    /\ cursor.present
    /\ cycle' = [cycle EXCEPT ![p].sameVersion = TRUE]
    /\ pc' = [pc EXCEPT ![p] = "update"]
    /\ UNCHANGED <<tip, stored, cursor, missed, holder, crashes, origin, gap>>

(* The guarded UPDATE.  A version mismatch affects no row: a PollErr. *)
WriteProgress(p) ==
    /\ pc[p] = "update"
    /\ cycle[p].sameVersion
    /\ cursor' = [cursor EXCEPT !.last = cycle[p].target,
                                !.ingested = @ + cycle[p].inserted,
                                !.written = TRUE]
    /\ cycle' = [q \in Pollers |->
                    IF q = p THEN NoCycle
                    ELSE [cycle[q] EXCEPT !.sameVersion = FALSE]]
    /\ pc' = [pc EXCEPT ![p] = "idle"]
    /\ UNCHANGED <<tip, stored, missed, holder, crashes, origin, gap>>

-----------------------------------------------------------------------------
(* recover-gaps, which takes no lock and may run beside the pollers *)

pollerVars == <<tip, cursor, holder, crashes, pc, cycle, origin>>

(* Lists the unrecovered, recoverable ranges. *)
GapsList ==
    /\ gap.pc = "off"
    /\ \E r \in missed : r.recoverable /\ ~r.recovered
    /\ gap' = [gap EXCEPT !.pc = "next",
                          !.queue = {r \in missed : r.recoverable /\ ~r.recovered}]
    /\ UNCHANGED <<stored, missed, pollerVars>>

(* Takes the next range, ORDER BY from_ledger. *)
GapsNext ==
    /\ gap.pc = "next"
    /\ \E r \in gap.queue :
        /\ \A q \in gap.queue : r.from <= q.from
        /\ gap' = [pc |-> "page", queue |-> gap.queue \ {r}, range |-> r,
                   token |-> FirstToken(r.from)]
    /\ UNCHANGED <<stored, missed, pollerVars>>

(* One page of the replay: events past the range are left out, and end it. *)
GapsPage ==
    /\ gap.pc \in {"page", "more"}
    /\ \E t \in EndpointTips(tip) :
        LET page == Page(gap.token, t)
            inRange == {e \in page : LedgerOf[e] <= gap.range.to}
            last == inRange # page \/ ShortPage(Cardinality(Parsed(inRange)))
        IN
        /\ Serves(t, gap.range.from, gap.token, gap.pc = "more")
        /\ stored' = stored \cup Parsed(inRange)
        /\ gap' = [gap EXCEPT !.token = NextToken(@, page),
                              !.pc = IF last THEN "mark" ELSE "more"]
    /\ UNCHANGED <<missed, pollerVars>>

(* Mutant of GapsMark: the UPDATE is not restricted to one range. *)
MarksWholeList ==
    /\ gap.pc = "mark"
    /\ LET all == gap.queue \cup {gap.range} IN
        missed' = (missed \ all) \cup {[r EXCEPT !.recovered = TRUE] : r \in all}
    /\ gap' = IF gap.queue = {} THEN NoGap ELSE [gap EXCEPT !.pc = "next"]
    /\ UNCHANGED <<stored, pollerVars>>

(* SET recovered_at, then the next range or the end of the command. *)
GapsMark ==
    /\ gap.pc = "mark"
    /\ missed' = (missed \ {gap.range}) \cup {[gap.range EXCEPT !.recovered = TRUE]}
    /\ gap' = IF gap.queue = {} THEN NoGap ELSE [gap EXCEPT !.pc = "next"]
    /\ UNCHANGED <<stored, pollerVars>>

(* Any error, or the end of the process, leaves the rest unrecovered. *)
GapsFail ==
    /\ gap.pc # "off"
    /\ gap' = NoGap
    /\ UNCHANGED <<stored, missed, pollerVars>>

-----------------------------------------------------------------------------
(* Specification *)

PollStep(p) ==
    \/ BeginPoll(p) \/ PlanNothing(p) \/ PlanRange(p) \/ PlanFails(p)
    \/ FetchPage(p) \/ FetchPageError(p) \/ RescanPage(p)
    \/ TrackRpcCall(p) \/ ReadVersion(p) \/ WriteProgress(p) \/ PollErr(p)

ProcessStep(p) ==
    \/ AcquireLock(p) \/ LoseLock(p) \/ KeepaliveExit(p) \/ Crash(p) \/ Restart(p)

RecoverGaps == GapsList \/ GapsNext \/ GapsPage \/ GapsMark \/ GapsFail

Next ==
    \/ CloseLedger
    \/ \E p \in Pollers : PollStep(p) \/ ProcessStep(p)
    \/ RecoverGaps

Spec == Init /\ [][Next]_vars

(* No endpoint serves the page p asks for, or the cursor row is not the    *)
(* one write_progress expects: the poll can only fail.                     *)
Rejected(p) ==
    \/ /\ pc[p] \in {"fetch", "rescan"}
       /\ \A t \in EndpointTips(tip) :
            ~Serves(t, cycle[p].start, cycle[p].token, cycle[p].paged)
    \/ pc[p] = "readver" /\ ~cursor.present
    \/ pc[p] = "update" /\ ~cycle[p].sameVersion

(* A poll that fails for a reason of its own, an RPC or database outage,   *)
(* rather than one that ends in the same state by completing.              *)
Outage(p) == PlanFails(p) \/ (PollErr(p) /\ ~WriteProgress(p) /\ ~Rejected(p))

(***************************************************************************)
(* Fairness.  The poll loop never stops by itself and every call it makes  *)
(* returns, with an answer or an error; the supervisor restarts a dead     *)
(* process and the lock is granted to it; outages end.  Nothing is assumed *)
(* of the polls the RPC's window or the cursor row rejects.                *)
(***************************************************************************)
Fairness ==
    /\ WF_vars(CloseLedger)
    /\ \A p \in Pollers :
        /\ WF_vars(PollStep(p))
        /\ WF_vars(Restart(p)) /\ WF_vars(KeepaliveExit(p)) /\ WF_vars(AcquireLock(p))
        /\ <>[][~Outage(p)]_vars

FairSpec == Spec /\ Fairness

-----------------------------------------------------------------------------
(* Properties *)

(* The types of all variables; in particular the ledger a poller is about  *)
(* to record never lies beyond the chain.                                  *)
TypeOK ==
    /\ tip \in Ledgers
    /\ stored \subseteq Events
    /\ cursor \in [present : BOOLEAN, last : 0..MaxTip, ingested : Nat,
                   written : BOOLEAN]
    /\ missed \subseteq MissedRow
    /\ holder \in Pollers \cup {NoPoller}
    /\ crashes \in Nat
    /\ pc \in [Pollers -> PollerStates]
    /\ cycle \in [Pollers -> Cycle]
    /\ origin \in Ledgers
    /\ gap \in Gap

(* An event is accounted for when it is stored, was dropped for its        *)
(* timestamp, or lies in a recorded missed range.                          *)
Accounted(e) ==
    \/ e \in stored
    \/ e \in BadTs
    \/ \E r \in missed : r.from <= LedgerOf[e] /\ LedgerOf[e] <= r.to

(* "Last fully-processed ledger" (cursor.rs): every event up to the cursor *)
(* is accounted for, whatever page errors, failed cycles, clamps, crashes  *)
(* and overlapping leaders did before the cursor was written.              *)
CursorCovers ==
    \A e \in Events :
        origin <= LedgerOf[e] /\ LedgerOf[e] <= cursor.last => Accounted(e)

(* A range marked recovered was replayed to its end: all its events are    *)
(* stored, except those without a usable timestamp.                        *)
RecoveredRangesComplete ==
    \A r \in missed : r.recovered =>
        \A e \in Events : r.from <= LedgerOf[e] /\ LedgerOf[e] <= r.to
            => e \in stored \/ e \in BadTs

(* events_ingested_total never counts a row twice: it stays within the     *)
(* rows stored, although ranges are fetched again after errors, crashes    *)
(* and by a backfill beside the poller.                                    *)
IngestedNeverOvercounts == cursor.ingested <= Cardinality(stored)

(* A poll cycle never moves the cursor back while one process leads, even  *)
(* when a lagging endpoint reports a tip below the cursor.                 *)
CursorNeverMovesBack == [][cursor'.last >= cursor.last]_cursor

(* The poller catches up with a chain that has stopped growing. *)
CatchesUp == (tip = MaxTip) ~> (cursor.last = MaxTip)
=============================================================================
