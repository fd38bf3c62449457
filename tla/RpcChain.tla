------------------------------ MODULE RpcChain ------------------------------
(***************************************************************************)
(* The Soroban RPC as the indexer uses it: a chain of closed ledgers, the  *)
(* contract events in them, and getEvents' paging over those events.       *)
(*                                                                         *)
(* Events are numbered in chain order, so an event's number is also its    *)
(* paging token.  The RPC itself is outside the repository; what is        *)
(* modelled here is how rpc_client.rs calls it and what poller.rs, and     *)
(* backfill.rs make of the answer.                                         *)
(***************************************************************************)
EXTENDS Integers, FiniteSets

CONSTANTS
    NumEvents,   \* events 1..NumEvents exist once their ledger has closed
    LedgerOf,    \* the ledger each event was emitted in
    BadTs,       \* events whose ledgerClosedAt does not parse
    MaxTip,      \* bound: the last ledger that closes in the model
    PageSize,    \* PAGE_SIZE, the limit of one getEvents request
    RpcWindow,   \* how many ledgers below its tip an endpoint still serves
    MaxLag       \* how far behind the chain an endpoint may answer

ASSUME ChainAssumption ==
    /\ NumEvents \in Nat
    /\ MaxTip \in Nat \ {0}
    /\ PageSize \in Nat \ {0}
    /\ RpcWindow \in Nat
    /\ MaxLag \in Nat
    /\ LedgerOf \in [1..NumEvents -> 1..MaxTip]
    /\ \A i, j \in 1..NumEvents : i <= j => LedgerOf[i] <= LedgerOf[j]
    /\ BadTs \subseteq 1..NumEvents

Events == 1..NumEvents
Ledgers == 1..MaxTip
Larger(a, b) == IF a >= b THEN a ELSE b

(***************************************************************************)
(* The tips the endpoint that answers a call may report.  The client fails *)
(* over between endpoints from one call to the next, so consecutive calls  *)
(* of one cycle may be answered at different tips.                         *)
(***************************************************************************)
EndpointTips(tip) == {t \in 1..tip : tip - t <= MaxLag}

(* getHealth.oldestLedger of an endpoint whose latest ledger is t. *)
OldestAt(t) == Larger(t - RpcWindow, 1)

(* The token of the first event at or after ledger s. *)
FirstToken(s) ==
    CHOOSE k \in 1..(NumEvents + 1) :
        /\ \A i \in Events : i < k => LedgerOf[i] < s
        /\ \A i \in Events : i >= k => LedgerOf[i] >= s

(* One getEvents page: at most PageSize events from the token on. *)
Page(token, t) ==
    {e \in Events : token <= e /\ e < token + PageSize /\ LedgerOf[e] <= t}

(* to_new_event: an event whose timestamp does not parse is dropped. *)
Parsed(page) == page \ BadTs

(* The paging loops' stop condition, on the number n of events of the page *)
(* the loop looks at.  A full page always carries a cursor.                *)
ShortPage(n) == n < PageSize
=============================================================================
