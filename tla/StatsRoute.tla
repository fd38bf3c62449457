----------------------------- MODULE StatsRoute -----------------------------
(***************************************************************************)
(* GET /contracts/:id/stats (routes/stats.rs): the events of one contract, *)
(* counted per time unit or per ledger, and per name when grouped.  The    *)
(* range comes from a window, from bounds or from defaults, and is checked *)
(* against a cap before one query counts; events arrive between requests.  *)
(* Time is in ticks; a query is its parsed parameters, a window its length. *)
(***************************************************************************)
EXTENDS Integers, FiniteSetsExt

CONSTANTS
    History,      \* the events that may be stored: [id, at, ledger, name]
    Null,         \* an absent parameter, an event without a name
    Queries,      \* what clients ask
    Lower,        \* text -> its lower case, of the resolutions they write
    Seconds,      \* unit -> its length in ticks
    now,
    Span,         \* unit -> the default range: 7 days for hour, else 90
    LEDGER_SPAN,  \* 10_000
    MAX_BUCKETS

Aliases == [minute |-> {"1m", "minute", "min"}, hour |-> {"1h", "hour"}, day |-> {"1d", "day"},
            week |-> {"1w", "week"}, month |-> {"month"}]

StatsAssumption ==
    /\ IsFiniteSet(History) /\ \A e \in History : e.at \in Nat /\ e.ledger \in Nat
    /\ Null \notin Int
    /\ \A q \in Queries : /\ q # Null
                         /\ {q.window, q.from, q.to, q.from_ledger, q.to_ledger} \subseteq Int \cup {Null}
    /\ Lower["1m"] = "1m" /\ Lower["1M"] = "1m"
    /\ \A u \in DOMAIN Aliases : Seconds[u] \in Nat \ {0} /\ Span[u] \in Nat
    /\ now \in Nat /\ LEDGER_SPAN \in Nat /\ MAX_BUCKETS \in Nat

VARIABLES events, query, answer

vars == <<events, query, answer>>

Refused == [total |-> -1, data |-> {}]

Init == events = {} /\ query = Null /\ answer = Refused

(* The indexer stores an event. *)
Store(e) ==
    /\ e \notin events
    /\ events' = events \cup {e}
    /\ query' = Null /\ answer' = Refused

(* "1M" is a month and is looked at before the case is dropped.            *)
LowercaseFirst(v) == {u \in DOMAIN Aliases : Lower[v] \in Aliases[u]}
parse_trunc_alias(v) ==
    IF v = "1M" THEN {"month"} ELSE {u \in DOMAIN Aliases : Lower[v] \in Aliases[u]}

Value(q) == IF q.resolution # Null THEN q.resolution ELSE q.bucket
ByLedger(q) == Lower[Value(q)] = "ledger"
Unit(q) == CHOOSE u \in parse_trunc_alias(Value(q)) : TRUE

Or(v, default) == IF v # Null THEN v ELSE default

(* The bounds after the window, before the defaults.                       *)
WindowFirst(q) == IF q.window # Null THEN [from |-> now - q.window, to |-> now]
                  ELSE [from |-> q.from, to |-> q.to]
TimeBounds(q) ==
    IF q.window # Null THEN [from |-> Or(q.to, now) - q.window, to |-> Or(q.to, now)]
    ELSE [from |-> q.from, to |-> q.to]

Reversed(from, to) == from # Null /\ to # Null /\ from > to

(* A window of another form counts as one that is not positive.            *)
BadWindow(w) == w <= 0

BadQuery(q) ==
    \/ ~ByLedger(q) /\ parse_trunc_alias(Value(q)) = {}
    \/ q.group_by \notin {Null, "event_name"}
    \/ q.window # Null /\ BadWindow(q.window)
    \/ Reversed(TimeBounds(q).from, TimeBounds(q).to)
    \/ Reversed(q.from_ledger, q.to_ledger)

(* The range one query counts over.  Without an upper ledger there is none. *)
Counted(q) ==
    IF ByLedger(q)
    THEN [from |-> Or(q.from_ledger, IF q.to_ledger = Null THEN 0 ELSE q.to_ledger - LEDGER_SPAN),
          to   |-> q.to_ledger]
    ELSE [from |-> Or(TimeBounds(q).from, now - Span[Unit(q)]), to |-> Or(TimeBounds(q).to, now)]

trunc_bucket_count(unit, from, to) == (IF to > from THEN to - from ELSE 0) \div Seconds[unit] + 1

TooMany(q) ==
    LET r == Counted(q)
    IN  IF ByLedger(q) THEN r.to # Null /\ r.to - r.from > MAX_BUCKETS
        ELSE trunc_bucket_count(Unit(q), r.from, r.to) > MAX_BUCKETS

Place(q, e) == IF ByLedger(q) THEN e.ledger ELSE e.at
date_trunc(q, e) == (e.at \div Seconds[Unit(q)]) * Seconds[Unit(q)]
Bucket(q, e) == IF ByLedger(q) THEN e.ledger ELSE date_trunc(q, e)

(* WHERE: both bounds are inclusive.                                       *)
Open(q, e) == Counted(q).from < Place(q, e) /\ (Counted(q).to # Null => Place(q, e) <= Counted(q).to)
Selected(q, e) == Counted(q).from <= Place(q, e) /\ (Counted(q).to # Null => Place(q, e) <= Counted(q).to)

(* The rows of GROUP BY bucket [, event_name]; a NULL name is a group.     *)
Rows(q) ==
    LET in == {e \in events : Selected(q, e)}
        key(e) == <<Bucket(q, e), IF q.group_by = Null THEN Null ELSE e.name>>
    IN  {[bucket |-> key(e)[1], name |-> key(e)[2],
          count |-> Cardinality({f \in in : key(f) = key(e)})] : e \in in}

SumCounts(rows) == MapThenSumSet(LAMBDA r : r.count, rows)

(* The loop of the grouped queries: each row adds to its bucket, and to    *)
(* the breakdown if it has a name.                                         *)
NamedOnly(rows) == SumCounts({r \in rows : r.name # Null})
CountOf(rows) == SumCounts(rows)
Data(q) ==
    LET of(b) == {r \in Rows(q) : r.bucket = b}
    IN  {[bucket |-> b, count |-> CountOf(of(b)), breakdown |-> {r \in of(b) : r.name # Null}]
            : b \in {r.bucket : r \in Rows(q)}}

(* One request; a second one before the next event counts the same.        *)
Ask(q) ==
    /\ query = Null
    /\ query' = q
    /\ answer' = IF BadQuery(q) \/ TooMany(q) THEN Refused
                 ELSE [total |-> SumCounts(Data(q)), data |-> Data(q)]
    /\ UNCHANGED events

Next == (\E e \in History : Store(e)) \/ (\E q \in Queries : Ask(q))

Spec == Init /\ [][Next]_vars

-----------------------------------------------------------------------------
(* stats.rs:4: whatever bounds are given, a bucket counts exactly the      *)
(* contract's events of its unit that the caller's bounds admit, the total *)
(* counts every one of them once, grouping changes no count and splits     *)
(* only named events, and "1M" counts in months and "1m" in minutes.       *)
StatsAddUp ==
    query # Null /\ answer # Refused =>
        LET place(e) == IF Lower[Value(query)] = "ledger" THEN e.ledger ELSE e.at
            lower == IF Lower[Value(query)] = "ledger" THEN query.from_ledger
                     ELSE IF query.window # Null THEN Or(query.to, now) - query.window
                     ELSE query.from
            upper == IF Lower[Value(query)] = "ledger" THEN query.to_ledger ELSE query.to
            admitted == {e \in events : /\ lower # Null => lower <= place(e)
                                        /\ upper # Null => place(e) <= upper}
            width == CASE Lower[Value(query)] = "ledger" -> 1
                       [] Value(query) = "1M" -> Seconds["month"]
                       [] Value(query) = "1m" -> Seconds["minute"]
                       [] OTHER -> Seconds[Unit(query)]
            counted(b) == {e \in admitted : b <= place(e) /\ place(e) < b + width}
        IN  /\ \A d \in answer.data :
                  /\ d.bucket % width = 0
                  /\ \A c \in answer.data : c.bucket = d.bucket => c = d
                  /\ d.count <= Cardinality(counted(d.bucket))
                  /\ lower # Null /\ upper # Null => d.count = Cardinality(counted(d.bucket))
                  /\ \A r \in d.breakdown :
                        r.count <= Cardinality({e \in counted(d.bucket) : e.name = r.name})
                  /\ query.group_by # Null =>
                        d.count = SumCounts(d.breakdown)
                            + Cardinality({e \in counted(d.bucket) : e.name = Null /\ Selected(query, e)})
            /\ lower # Null /\ upper # Null => answer.total = Cardinality(admitted)

(* stats.rs:16, "Maximum number of buckets that may be returned in a       *)
(* single response".                                                       *)
BucketsCapped == query # Null /\ answer # Refused => Cardinality(answer.data) <= MAX_BUCKETS
=============================================================================
