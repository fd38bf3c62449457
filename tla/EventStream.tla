----------------------------- MODULE EventStream -----------------------------
(***************************************************************************)
(* The server-sent event stream of one contract (routes/stream.rs).  One   *)
(* listener task per process LISTENs for the store's NOTIFY, reads the     *)
(* rows after its cursor in seq order and publishes them on a bounded      *)
(* broadcast channel.  Each connection keeps a position (ledger,           *)
(* event_id), sends what the channel brings beyond it, and reads the       *)
(* table itself only when it fell behind the channel or the listener is    *)
(* down.  A row is its position, a number; seq is its place in the log,    *)
(* taken when it is inserted, and the row is visible once it is committed. *)
(* An aborted insert is a row that is never committed.  The SSE stream     *)
(* caps are left out: nothing acquires them.                               *)
(***************************************************************************)
EXTENDS Naturals, FiniteSets, SequencesExt

CONSTANTS
    Clients,
    MaxEvents,              \* positions 1..MaxEvents exist
    OfContract,             \* positions of the contract asked for
    Matching,               \* those of them with the event name asked for
    SSE_BROADCAST_CAPACITY, CATCH_UP_BATCH,
    LIMIT,                  \* rows fetch_new_events reads (100)
    None,
    MaxFailures, MaxOpens   \* bounds: listener and query failures, connections

ASSUME EventStreamAssumption ==
    /\ None \notin Nat /\ MaxEvents \in Nat
    /\ Matching \subseteq OfContract /\ OfContract \subseteq 1..MaxEvents
    /\ SSE_BROADCAST_CAPACITY \in Nat \ {0} /\ CATCH_UP_BATCH \in Nat \ {0}
    /\ LIMIT \in Nat \ {0} /\ MaxFailures \in Nat /\ MaxOpens \in Nat

VARIABLES
    log,        \* positions of the inserted rows, in seq order
    committed,  \* positions of the committed ones
    late,       \* history: positions committed out of order, see Commit
    listener,   \* [pc, up, last_seen, cursor, notified]
    published,  \* every position broadcast so far; the channel keeps the last ones
    client,     \* [Clients -> [pc, cursor, rx, buffer, lagged]]
    start,      \* [Clients -> position the first connection began after]
    got,        \* [Clients -> positions sent to the client, in order]
    lossy,      \* clients that may have missed rows, by one of the causes below
    failures, opens

vars == <<log, committed, late, listener, published, client, start, got, lossy, failures, opens>>

Positions == 1..MaxEvents

ListenerState ==
    [pc : {"down", "listening", "catch_up", "wait"}, up : BOOLEAN,
     last_seen : {None} \cup Nat, cursor : Nat, notified : BOOLEAN]
ClientState ==
    [pc : {"off", "opening", "wait", "fetch"}, cursor : 0..MaxEvents, rx : Nat,
     buffer : Seq(Positions), lagged : BOOLEAN]

TypeOK ==
    /\ log \in Seq(Positions) /\ IsInjective(log)
    /\ committed \subseteq ToSet(log) /\ late \subseteq committed
    /\ published \in Seq(Positions)
    /\ listener \in ListenerState
    /\ listener.cursor <= Len(log)
    /\ listener.last_seen # None => listener.last_seen <= listener.cursor
    /\ client \in [Clients -> ClientState]
    /\ \A c \in Clients :
          client[c].rx <= Len(published) /\ Len(client[c].buffer) <= LIMIT
    /\ start \in [Clients -> {None} \cup (0..MaxEvents)]
    /\ got \in [Clients -> Seq(Positions)]
    /\ lossy \subseteq Clients
    /\ failures \in 0..MaxFailures /\ opens \in 0..MaxOpens

Init ==
    /\ log = <<>> /\ committed = {} /\ late = {} /\ published = <<>>
    /\ listener = [pc |-> "down", up |-> FALSE, last_seen |-> None, cursor |-> 0,
                   notified |-> FALSE]
    /\ client = [c \in Clients |-> [pc |-> "off", cursor |-> 0, rx |-> 0, buffer |-> <<>>,
                                    lagged |-> FALSE]]
    /\ start = [c \in Clients |-> None]
    /\ got = [c \in Clients |-> <<>>]
    /\ lossy = {} /\ failures = 0 /\ opens = 0

(* Rows of the contract after a position.                                  *)
After(p) == {q \in committed \cap Matching : q > p}
Ascending(S) ==
    CHOOSE s \in [1..Cardinality(S) -> S] : \A i, j \in DOMAIN s : i < j => s[i] < s[j]

-----------------------------------------------------------------------------
\* The store: seq is BIGSERIAL, so the INSERT takes it; the commit makes the
\* row visible and sends the notification.

Insert(p) ==
    /\ p \notin ToSet(log)
    /\ log' = Append(log, p)
    /\ UNCHANGED <<committed, late, listener, published, client, start, got, lossy, failures, opens>>

Before(p, q) == \E i, j \in DOMAIN log : i < j /\ log[i] = p /\ log[j] = q
Passed(p) == \E i \in 1..listener.cursor : log[i] = p

(* Out of order is a row that is committed after one of a higher position, *)
(* or when the listener's cursor is beyond its seq already; and one that   *)
(* is overtaken by a higher row with a lower seq.                          *)
Commit(p) ==
    /\ p \in ToSet(log) \ committed
    /\ committed' = committed \cup {p}
    /\ late' = late \cup {q \in committed : q < p /\ Before(p, q)}
                    \cup (IF Passed(p) \/ \E q \in committed : q > p THEN {p} ELSE {})
    /\ listener' = [listener EXCEPT !.notified = @ \/ listener.pc # "down"]
    /\ UNCHANGED <<log, published, client, start, got, lossy, failures, opens>>

-----------------------------------------------------------------------------
\* The listener task: run_listener and listen_once.

Listen ==
    /\ listener.pc = "down"
    /\ listener' = [listener EXCEPT !.pc = "listening"]
    /\ UNCHANGED <<log, committed, late, published, client, start, got, lossy, failures, opens>>

(* The first session starts at head_seq, the largest committed seq: rows   *)
(* that a connected client has not polled yet and that lie below it are    *)
(* never broadcast.                                                        *)
CommittedSeqs == {i \in DOMAIN log : log[i] \in committed}
HeadSeq == IF CommittedSeqs = {} THEN 0 ELSE Max(CommittedSeqs)
FirstCursor == IF listener.last_seen = None THEN HeadSeq ELSE listener.last_seen
StartSession ==
    /\ listener.pc = "listening"
    /\ listener' = [listener EXCEPT !.pc = "catch_up", !.up = TRUE, !.cursor = FirstCursor]
    /\ lossy' = IF listener.last_seen # None THEN lossy
                ELSE lossy \cup {c \in Clients : /\ client[c].pc \in {"wait", "fetch"}
                                                 /\ After(client[c].cursor) # {}}
    /\ UNCHANGED <<log, committed, late, published, client, start, got, failures, opens>>

(* fetch_and_broadcast reads the committed rows beyond the cursor in seq   *)
(* order; catch_up repeats it until a batch is not full.                   *)
Unbroadcast == {i \in CommittedSeqs : i > listener.cursor}
Batch ==
    LET all == Ascending(Unbroadcast)
    IN  SubSeq(all, 1, IF Len(all) < CATCH_UP_BATCH THEN Len(all) ELSE CATCH_UP_BATCH)

DoneAfterOne(batch) == Len(batch) <= CATCH_UP_BATCH
Done(batch) == Len(batch) < CATCH_UP_BATCH
CatchUp ==
    /\ listener.pc = "catch_up"
    /\ LET batch == Batch
           end   == IF batch = <<>> THEN listener.cursor ELSE Last(batch)
       IN  /\ published' = published \o [i \in DOMAIN batch |-> log[batch[i]]]
           /\ listener' = IF Done(batch)
                          THEN [listener EXCEPT !.pc = "wait", !.cursor = end, !.last_seen = end]
                          ELSE [listener EXCEPT !.cursor = end]
    /\ UNCHANGED <<log, committed, late, client, start, got, lossy, failures, opens>>

Notified ==
    /\ listener.pc = "wait" /\ listener.notified
    /\ listener' = [listener EXCEPT !.pc = "catch_up", !.notified = FALSE]
    /\ UNCHANGED <<log, committed, late, published, client, start, got, lossy, failures, opens>>

(* The connection or a query fails: what was read since last_seen was      *)
(* written is read again by the next session.                              *)
ListenerFails ==
    /\ listener.pc # "down" /\ failures < MaxFailures
    /\ failures' = failures + 1
    /\ listener' = [listener EXCEPT !.pc = "down", !.up = FALSE, !.notified = FALSE,
                                    !.cursor = IF listener.last_seen = None THEN 0
                                               ELSE listener.last_seen]
    /\ UNCHANGED <<log, committed, late, published, client, start, got, lossy, opens>>

-----------------------------------------------------------------------------
\* A connection: stream_events.

(* A reconnecting client sends Last-Event-ID; a new one starts at the      *)
(* contract's head, current_head, whatever name it asks for.               *)
CurrentHead ==
    LET rows == committed \cap OfContract IN IF rows = {} THEN 0 ELSE Max(rows)
Open(c) ==
    /\ client[c].pc = "off" /\ opens < MaxOpens
    /\ opens' = opens + 1
    /\ LET from == IF got[c] = <<>> THEN CurrentHead ELSE Last(got[c])
       IN  /\ client' = [client EXCEPT ![c].pc = "opening", ![c].cursor = from,
                                       ![c].buffer = <<>>, ![c].lagged = FALSE]
           /\ start' = IF got[c] = <<>> THEN [start EXCEPT ![c] = from] ELSE start
    /\ UNCHANGED <<log, committed, late, listener, published, got, lossy, failures>>

(* The subscription sees what is published from now on.  Rows between the  *)
(* cursor and what the listener has read already are in neither.           *)
Subscribe(c) ==
    /\ client[c].pc = "opening"
    /\ client' = [client EXCEPT ![c].pc = "wait", ![c].rx = Len(published)]
    /\ lossy' = IF /\ listener.last_seen # None \/ listener.pc = "catch_up"
                   /\ \E q \in After(client[c].cursor) : Passed(q)
                THEN lossy \cup {c} ELSE lossy
    /\ UNCHANGED <<log, committed, late, listener, published, start, got, failures, opens>>

Deliver(c, p) == got' = [got EXCEPT ![c] = Append(@, p)]

(* Buffered rows go first.                                                 *)
EmitBuffered(c) ==
    /\ client[c].pc = "wait" /\ client[c].buffer # <<>>
    /\ client' = [client EXCEPT ![c].cursor = Head(client[c].buffer), ![c].buffer = Tail(@)]
    /\ Deliver(c, Head(client[c].buffer))
    /\ UNCHANGED <<log, committed, late, listener, published, start, lossy, failures, opens>>

Pending(c) == Len(published) - client[c].rx

(* A broadcast row: filtered by contract and name, and skipped when the    *)
(* client's position is at or beyond it.                                   *)
WantsAgain(c, p) == p \in Matching
Wants(c, p) == p \in Matching /\ p > client[c].cursor
Receive(c) ==
    /\ client[c].pc = "wait" /\ client[c].buffer = <<>>
    /\ Pending(c) \in 1..SSE_BROADCAST_CAPACITY
    /\ LET p == published[client[c].rx + 1]
       IN  IF Wants(c, p)
           THEN /\ client' = [client EXCEPT ![c].cursor = p, ![c].rx = @ + 1]
                /\ Deliver(c, p)
           ELSE /\ client' = [client EXCEPT ![c].rx = @ + 1]
                /\ UNCHANGED got
    /\ UNCHANGED <<log, committed, late, listener, published, start, lossy, failures, opens>>

(* RecvError::Lagged: the receiver moves to the oldest message kept, and   *)
(* the rows in between are read from the table.                            *)
Lagged(c) ==
    /\ client[c].pc = "wait" /\ client[c].buffer = <<>>
    /\ Pending(c) > SSE_BROADCAST_CAPACITY
    /\ client' = [client EXCEPT ![c].pc = "fetch", ![c].lagged = TRUE,
                                ![c].rx = Len(published) - SSE_BROADCAST_CAPACITY]
    /\ UNCHANGED <<log, committed, late, listener, published, start, got, lossy, failures, opens>>

(* A quiet poll interval: poll the table only while the listener is down.  *)
Polls == ~listener.up
QuietPeriod(c) ==
    /\ client[c].pc = "wait" /\ client[c].buffer = <<>> /\ Pending(c) = 0
    /\ Polls
    /\ client' = [client EXCEPT ![c].pc = "fetch"]
    /\ UNCHANGED <<log, committed, late, listener, published, start, got, lossy, failures, opens>>

(* fetch_new_events reads at most LIMIT rows.  After a lag that does not   *)
(* reach the messages the channel kept, the rest is skipped.               *)
Fetched(c) ==
    LET all == Ascending(After(client[c].cursor))
    IN  SubSeq(all, 1, IF Len(all) < LIMIT THEN Len(all) ELSE LIMIT)
Fetch(c) ==
    /\ client[c].pc = "fetch"
    /\ client' = [client EXCEPT ![c].pc = "wait", ![c].lagged = FALSE,
                                ![c].buffer = Fetched(c)]
    /\ lossy' = IF client[c].lagged /\ Cardinality(After(client[c].cursor)) > LIMIT
                THEN lossy \cup {c} ELSE lossy
    /\ UNCHANGED <<log, committed, late, listener, published, start, got, failures, opens>>

(* A failed read sends an error frame and goes back to the channel.        *)
FetchFails(c) ==
    /\ client[c].pc = "fetch" /\ failures < MaxFailures
    /\ failures' = failures + 1
    /\ client' = [client EXCEPT ![c].pc = "wait", ![c].lagged = FALSE]
    /\ lossy' = IF client[c].lagged THEN lossy \cup {c} ELSE lossy
    /\ UNCHANGED <<log, committed, late, listener, published, start, got, opens>>

(* The client goes away, or end_on_shutdown ends the stream.               *)
Close(c) ==
    /\ client[c].pc # "off" /\ opens < MaxOpens
    /\ client' = [client EXCEPT ![c].pc = "off"]
    /\ UNCHANGED <<log, committed, late, listener, published, start, got, lossy, failures, opens>>

ListenerStep == Listen \/ StartSession \/ CatchUp \/ Notified
ClientStep(c) == Subscribe(c) \/ EmitBuffered(c) \/ Receive(c) \/ Lagged(c)
                 \/ QuietPeriod(c) \/ Fetch(c)

Next ==
    \/ \E p \in Positions : Insert(p) \/ Commit(p)
    \/ ListenerStep \/ ListenerFails
    \/ \E c \in Clients : ClientStep(c) \/ Open(c) \/ FetchFails(c) \/ Close(c)

Spec == Init /\ [][Next]_vars

(* The runtime schedules the listener and the connections, and the         *)
(* listener reconnects after every failure.                                *)
Fairness == WF_vars(ListenerStep) /\ \A c \in Clients : WF_vars(ClientStep(c))
FairSpec == Spec /\ Fairness

-----------------------------------------------------------------------------
(* A client, through all its connections, is sent rows in strictly         *)
(* increasing position: no row twice, none before its Last-Event-ID, and   *)
(* none it did not ask for, whether a row comes from the channel, from a   *)
(* republished batch or from the table.                                    *)
SentInOrder ==
    \A c \in Clients :
        /\ \A i, j \in DOMAIN got[c] : i < j => got[c][i] < got[c][j]
        /\ ToSet(got[c]) \subseteq Matching

(* A connection that subscribed before its next row was read, to a         *)
(* listener that has a position, and that never fell more than a fetch     *)
(* behind, has sent every row up to its position, except rows committed    *)
(* out of order (Commit): the listener reads seq > last_seen, and a seq is *)
(* taken before the row can be seen.                                       *)
Gapless ==
    \A c \in Clients \ lossy :
        start[c] # None =>
            \A p \in (committed \cap Matching) \ late :
                start[c] < p /\ p <= client[c].cursor => p \in ToSet(got[c])

(* Such a connection is sent every row that is committed while it stays    *)
(* connected and in order, across failures of the listener and of its own  *)
(* reads.                                                                  *)
EventuallySent ==
    \A c \in Clients, p \in Matching :
        (p \in committed \ late /\ client[c].pc = "wait" /\ start[c] < p /\ c \notin lossy)
            ~> (p \in ToSet(got[c]) \cup late \/ client[c].pc = "off" \/ c \in lossy)

(* stream.rs:477, "While the shared listener is up it wakes us on every    *)
(* new event": a connected client is sent a new row, here one that is the  *)
(* highest of all and still ahead of it.                                   *)
WokenForEveryEvent ==
    \A c \in Clients, p \in Matching :
        (/\ p \in committed /\ \A q \in committed : q <= p
         /\ client[c].pc = "wait" /\ client[c].cursor < p /\ c \notin lossy)
            ~> (p \in ToSet(got[c]) \/ client[c].pc = "off" \/ c \in lossy)
=============================================================================
