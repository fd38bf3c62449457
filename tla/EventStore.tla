----------------------------- MODULE EventStore -----------------------------
(***************************************************************************)
(* The event tables (indexer/store.rs): `events` and the projections that  *)
(* are written in the same transaction. Several writers store overlapping  *)
(* batches; ON CONFLICT and RETURNING decide which of them projects.       *)
(***************************************************************************)
EXTENDS Naturals, FiniteSets, Sequences, Functions

CONSTANTS
    Ids,      \* event ids
    Event,    \* Event[i]: [ledger, contract, name, value, complete]
    Strkeys   \* the contract ids that look like one: 56 characters from a C

VARIABLES
    events,    \* events[i]: the decoded content and enrichment of a stored row
    transfers, \* transfers[i]: the projected row of token_transfers
    verticals  \* ids in amm_swaps, nft_events or liquidity_events

store == <<events, transfers, verticals>>

(* as_i128_amount: a decimal string, an integer, or, in the CAP-67 map, its *)
(* `amount` field.                                                         *)
HasAmount(i) == Event[i].value \in {"decimal", "integer", "mapAmount"}

(* extract_transfer and its sender and receiver by kind; "none" when the   *)
(* event is skipped.                                                       *)
Addresses(name) ==
    CASE name = "transfer"             -> {"from", "to"}
      [] name = "mint"                 -> {"to"}
      [] name \in {"burn", "clawback"} -> {"from"}
      [] OTHER                         -> {}

(* Every caller inserts with default_contract_kind, and so does            *)
(* upsert_events: whatever a contract is, an id that looks like one is an  *)
(* asset contract's.                                                       *)
default_contract_kind(c) == IF c \in Strkeys THEN "FungibleToken" ELSE "unknown"

IsTransfer(i) ==
    /\ Event[i].name \in {"transfer", "mint", "burn", "clawback"}
    /\ default_contract_kind(Event[i].contract) = "FungibleToken"
    /\ HasAmount(i)

Transfer(i, content) ==
    [kind |-> Event[i].name, amount |-> content,
     addresses |-> Addresses(Event[i].name)]

(* extract_swap, extract_nft_event, extract_liquidity_event.               *)
IsVertical(i) ==
    LET kind == default_contract_kind(Event[i].contract)
    IN  \/ kind = "Amm" /\ Event[i].name = "swap"
        \/ kind = "NonFungibleToken" /\ Event[i].name \in {"mint", "transfer", "burn"}
        \/ kind = "LiquidityPool" /\ Event[i].name \in {"deposit", "withdraw"}

(* The rows of a batch RETURNING reports as inserted.                      *)
NewOf(batch) == batch \ DOMAIN events

ProjectAnyone(new, content) ==
    transfers' = [i \in DOMAIN transfers \cup {j \in new : HasAmount(j)} |->
                     IF i \in DOMAIN transfers THEN transfers[i]
                                               ELSE Transfer(i, content)]
ProjectTransfers(new, content) ==
    transfers' = [i \in DOMAIN transfers \cup {j \in new : IsTransfer(j)} |->
                     IF i \in DOMAIN transfers THEN transfers[i]
                                               ELSE Transfer(i, content)]

(* project_verticals: the rows of amm_swaps, nft_events, liquidity_events. *)
ProjectVerticals(new) == verticals' = verticals \cup {i \in new : IsVertical(i)}

(* insert_events: rows that exist are left alone, also when another writer *)
(* stored them with other content.                                         *)
InsertEvents(batch, content) ==
    /\ events' = [i \in DOMAIN events \cup batch |-> IF i \in DOMAIN events THEN events[i] ELSE content]
    /\ ProjectTransfers(NewOf(batch), content)
    /\ ProjectVerticals(NewOf(batch))

(* upsert_events of the trailing rescan: decoded fields and enrichment are *)
(* overwritten; new rows get their transfer but no vertical row.           *)
UpsertEvents(batch, content) ==
    /\ events' = [i \in DOMAIN events \cup batch |-> IF i \in batch THEN content ELSE events[i]]
    /\ ProjectTransfers(NewOf(batch), content)
    /\ UNCHANGED verticals

(* A deleted event takes its projections with it (ON DELETE CASCADE).      *)
DeleteEvents(batch) ==
    /\ events' = Restrict(events, DOMAIN events \ batch)
    /\ transfers' = Restrict(transfers, DOMAIN transfers \ batch)
    /\ verticals' = verticals \ batch

StoreInit ==
    /\ events = [i \in {} |-> 0] /\ transfers = [i \in {} |-> 0]
    /\ verticals = {}

-----------------------------------------------------------------------------
(* The projections are neither behind nor ahead of `events`: whatever      *)
(* overlapping batches were stored, overwritten and pruned meanwhile,      *)
(* token_transfers holds exactly the stored transfers, mints, burns and    *)
(* clawbacks with an amount, of contracts whose id looks like one, those   *)
(* of tokens that are not fungible among them; and as no caller asks for   *)
(* another kind, the vertical tables stay empty (store.rs:78).             *)
ProjectionExact ==
    /\ DOMAIN transfers = {i \in DOMAIN events : /\ Event[i].name \in {"transfer", "mint", "burn", "clawback"}
                                                /\ Event[i].contract \in Strkeys
                                                /\ Event[i].value \in {"decimal", "integer", "mapAmount"}}
    /\ verticals = {}
=============================================================================
