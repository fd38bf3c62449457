----------------------------- MODULE Pagination -----------------------------
(***************************************************************************)
(* The list endpoints of lumenqraph-api and the client that walks them.    *)
(* A walk is a sequence of requests, each with the cursor of the last row  *)
(* of the page before; rows arrive, leave and move between two requests.   *)
(* No snapshot is kept: what a walk returns rests on the agreement of the  *)
(* cursor, the ORDER BY and the WHERE of each query alone.                 *)
(*                                                                         *)
(* A list is its ORDER BY and its keyset predicate, written as the order   *)
(* in which the cursor must come before a row, and how a row becomes a     *)
(* cursor.  Filters only restrict the table and are left out; so is the    *)
(* deprecated OFFSET, which promises nothing while rows arrive.            *)
(***************************************************************************)
EXTENDS Integers, Sequences, FiniteSets, SequencesExt

CONSTANTS
    Ids,          \* row ids, compared as event_id, contract_id, id or version
    Ranks,        \* ledgers, event counts or last_seen_ledger
    Limits,       \* what clients ask for
    max_limit,    \* the endpoint's cap
    MaxChanges    \* bound on changes of the table during a walk

PaginationAssumption ==
    /\ Ids \subseteq Nat \ {0} /\ Ranks \subseteq Nat /\ IsFiniteSet(Ids)
    /\ Limits \subseteq Int /\ max_limit \in Nat \ {0} /\ MaxChanges \in Nat

VARIABLES
    list,         \* the endpoint walked
    table,        \* its rows: id -> first sort key
    walk,         \* the client: pc, cursor and the rows returned so far
    steady,       \* rows present and unmoved since the walk began
    changes,      \* changes of the table so far
    excused       \* a cursor that does not identify its position was used

vars == <<list, table, walk, steady, changes, excused>>

NoCursor == [rank |-> 0, id |-> 0]

Less(dir, a, b) == IF dir = "ASC" THEN a < b ELSE a > b

Precedes(order, a, b) ==
    \/ Less(order[1], a.rank, b.rank)
    \/ a.rank = b.rank /\ Less(order[2], a.id, b.id)

-----------------------------------------------------------------------------
\* The endpoints.

Newest == <<"DESC", "DESC">>
Oldest == <<"ASC", "ASC">>
Busiest == <<"DESC", "ASC">>

(* `ledger < $1 OR (ledger = $1 AND event_id < $2)`, newest first.         *)
ByPosition == [orderBy |-> Newest, where |-> Newest, cursor |-> "position", ranked |-> "ledger"]

list_events           == ByPosition
list_transfers        == ByPosition
list_swaps            == ByPosition
list_nft_events       == ByPosition
list_liquidity_events == ByPosition
graphql_events        == ByPosition
graphql_transfers     == ByPosition

(* A transaction's events in the order they were emitted.                  *)
transaction_events == [ByPosition EXCEPT !.orderBy = Oldest, !.where = Oldest]

(* Tables with one sort key: `id < $2`, `version < $2`.                    *)
list_webhook_deliveries    == [ByPosition EXCEPT !.ranked = "none"]
contract_interface_history == [ByPosition EXCEPT !.ranked = "none"]

(* The cursor is the contract id; its event_count is looked up again.      *)
list_contracts == [orderBy |-> Busiest, where |-> Busiest, cursor |-> "lookup", ranked |-> "count"]

(* `(last_seen_ledger, contract_id) < ($1, $2)` against ids in ascending   *)
(* order.                                                                  *)
graphql_contracts ==
    [orderBy |-> Busiest, where |-> Newest, cursor |-> "position", ranked |-> "count"]

Lists == {list_events, list_transfers, list_swaps, list_nft_events, list_liquidity_events,
          graphql_events, graphql_transfers, transaction_events, list_webhook_deliveries,
          contract_interface_history, list_contracts, graphql_contracts}

RanksOf(l) == IF l.ranked = "none" THEN {0} ELSE Ranks

(* Two contracts, or one and the cursor, have the same last ledger.        *)
Tied(t, cursor) == \E i \in DOMAIN t :
    \/ \E j \in DOMAIN t \ {i} : t[i] = t[j]
    \/ t[i] = cursor.rank /\ i # cursor.id

-----------------------------------------------------------------------------
Init ==
    /\ list \in Lists
    /\ table \in UNION {[S -> RanksOf(list)] : S \in SUBSET Ids}
    /\ walk = [pc |-> "page", after |-> NoCursor, got |-> <<>>]
    /\ steady = DOMAIN table
    /\ changes = 0
    /\ excused = (list.where # list.orderBy /\ Tied(table, NoCursor))

(* What a change of row i to the table t does to the promises.             *)
Change(i, t) ==
    /\ changes < MaxChanges /\ changes' = changes + 1
    /\ table' = t
    /\ steady' = steady \ {i}
    /\ excused' = (\/ excused
                   \/ list.cursor = "lookup" /\ walk.after.id = i
                   \/ list.where # list.orderBy /\ Tied(t, walk.after))
    /\ UNCHANGED <<list, walk>>

(* The indexer stores a row; a backfill stores old ones.                   *)
Store(i, rank) ==
    /\ i \notin DOMAIN table
    /\ Change(i, [j \in DOMAIN table \cup {i} |-> IF j = i THEN rank ELSE table[j]])

(* Retention, or the delivery pruner, removes one.                         *)
Drop(i) ==
    /\ i \in DOMAIN table
    /\ Change(i, [j \in DOMAIN table \ {i} |-> table[j]])

(* The trigger on events changes a contract's count and last ledger.       *)
Touch(i, rank) ==
    /\ list.ranked = "count" /\ i \in DOMAIN table /\ rank # table[i]
    /\ Change(i, [table EXCEPT ![i] = rank])

-----------------------------------------------------------------------------
\* One request: PageRequest::parse, the query, PageRequest::finish.

clamp(limit) == IF limit < 1 THEN 1 ELSE IF limit > max_limit THEN max_limit ELSE limit

Rows == {[rank |-> table[i], id |-> i] : i \in DOMAIN table}

AfterInclusive(cursor, r) == cursor = NoCursor \/ ~Precedes(list.where, r, cursor)
After(cursor, r) == cursor = NoCursor \/ Precedes(list.where, cursor, r)

(* LIMIT limit + 1: the sentinel row tells whether there is another page.  *)
NoSentinel(limit) == limit
fetch_limit(limit) == limit + 1

(* ORDER BY.                                                               *)
Sorted(S) == CHOOSE s \in [1 .. Cardinality(S) -> S] :
                 \A i, j \in DOMAIN s : i < j => Precedes(list.orderBy, s[i], s[j])

Query(cursor, limit) ==
    LET sorted == Sorted({r \in Rows : After(cursor, r)})
    IN SubSeq(sorted, 1, IF Len(sorted) < fetch_limit(limit) THEN Len(sorted) ELSE fetch_limit(limit))

has_more(rows, limit) == Len(rows) > limit

(* The rows without the sentinel.                                          *)
Data(rows, limit) == IF has_more(rows, limit) THEN SubSeq(rows, 1, limit) ELSE rows

(* finish: the cursor is the position of the last row that is returned.    *)
CursorAtSentinel(rows, limit) == Last(rows)
next_cursor(rows, limit) == Last(Data(rows, limit))

FetchPage(limit) ==
    /\ walk.pc = IF list.cursor = "lookup" /\ walk.after # NoCursor THEN "query" ELSE "page"
    /\ LET rows == Query(walk.after, clamp(limit)) IN
       walk' = [pc    |-> IF has_more(rows, clamp(limit)) THEN "page" ELSE "done",
                after |-> IF has_more(rows, clamp(limit)) THEN next_cursor(rows, clamp(limit)) ELSE NoCursor,
                got   |-> walk.got \o Data(rows, clamp(limit))]
    /\ UNCHANGED <<list, table, steady, changes, excused>>

(* list_contracts reads the count of the cursor's contract in a query of   *)
(* its own; a contract that is gone ends the walk with an empty page.      *)
LookUp ==
    /\ walk.pc = "page" /\ list.cursor = "lookup" /\ walk.after # NoCursor
    /\ walk' = IF walk.after.id \in DOMAIN table
               THEN [walk EXCEPT !.pc = "query", !.after.rank = table[walk.after.id]]
               ELSE [walk EXCEPT !.pc = "done", !.after = NoCursor]
    /\ UNCHANGED <<list, table, steady, changes, excused>>

Next ==
    \/ \E i \in Ids : Drop(i) \/ \E r \in RanksOf(list) : Store(i, r) \/ Touch(i, r)
    \/ LookUp
    \/ \E l \in Limits : FetchPage(l)

Spec == Init /\ [][Next]_vars

-----------------------------------------------------------------------------
TypeOK ==
    /\ list \in Lists
    /\ DOMAIN table \subseteq Ids
    /\ \A i \in DOMAIN table : table[i] \in RanksOf(list)
    /\ walk.pc \in {"page", "query", "done"}
    /\ walk.after \in [rank : RanksOf(list) \cup {0}, id : Ids \cup {0}]
    /\ walk.got \in Seq([rank : RanksOf(list), id : Ids])
    /\ steady \subseteq DOMAIN table
    /\ changes \in 0 .. MaxChanges /\ excused \in BOOLEAN

(* pagination.rs: the pages of a walk, put together, are in the list's     *)
(* order with no position twice, and when has_more is false every row that *)
(* was there throughout has been returned, whatever was stored, removed or *)
(* moved between two requests.  Not promised when a contract at a cursor   *)
(* of list_contracts changes (routes/contracts.rs:91), nor by the GraphQL  *)
(* contracts when two share a ledger (graphql.rs:295).                     *)
WalkExact ==
    ~excused =>
    /\ \A p, q \in DOMAIN walk.got : p < q => Precedes(list.orderBy, walk.got[p], walk.got[q])
    /\ walk.pc = "done" => \A i \in steady : \E p \in DOMAIN walk.got : walk.got[p].id = i
=============================================================================
