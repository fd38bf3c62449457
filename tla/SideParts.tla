------------------------------ MODULE SideParts ------------------------------
(***************************************************************************)
(* The parts beside the poller and the API that can be reasoned about for  *)
(* any constants: deep backfill, snapshots of contract keys, event         *)
(* enrichment, interface diffs and the MCP server.  They share no state;   *)
(* as in MCApi each property is a conjunction of claims about single       *)
(* parts, and `focus` is the part that moves while the variables of the    *)
(* others rest.                                                            *)
(***************************************************************************)
CONSTANTS
    Resting,
    Ids, Event, Strkeys, Lines, From, To, contract_ids, batch_size, Contents, MaxPrunes, MaxRuns,
    Holders, Templates, BalanceSymbol, TokenEvents, MAX_BATCH_KEYS, MaxKeyLedger, MaxKeyFaults,
    EventInterfaces, ParamValues, EventKinds,
    Releases, MaxReleases,
    Clients, Handlers, auth_token, limit_per_min, global_limit_per_min, Window, MaxNow, MaxSessions

VARIABLES
    focus,
    events, transfers, verticals, deepPc, line, staging, next, batch, skipped, prunes, failures, gone,
    ledger, changes, keyPc, todo, chunk, answers, rows, keyFaults,
    spec, emitted, eventKind, mine, wire, enriched,
    releases, verdicts,
    transport, sessions, issued, held, ended, handler, answer, global, perClient, now, ran

deepVars == <<events, transfers, verticals, deepPc, line, staging, next, batch, skipped, prunes, failures, gone>>
keyVars  == <<ledger, changes, keyPc, todo, chunk, answers, rows, keyFaults>>
enrichVars == <<spec, emitted, eventKind, mine, wire, enriched>>
diffVars == <<releases, verdicts>>
mcpVars  == <<transport, sessions, issued, held, ended, handler, answer, global, perClient, now, ran>>

Deep == INSTANCE DeepBackfill WITH pc <- deepPc, crashes <- failures, MaxCrashes <- MaxRuns
Snapshots == INSTANCE KeySnapshots WITH
    pc <- keyPc, faults <- keyFaults, Addresses <- Holders, MaxLedger <- MaxKeyLedger, MaxFaults <- MaxKeyFaults
Enrichment == INSTANCE EventEnrichment WITH
    kind <- eventKind, shown <- enriched, Interfaces <- EventInterfaces, Values <- ParamValues, Kinds <- EventKinds
Diff == INSTANCE InterfaceDiff WITH versions <- releases, Interfaces <- Releases, MaxVersions <- MaxReleases
Mcp == INSTANCE McpServer

ASSUME SideAssumption ==
    /\ Deep!DeepAssumption /\ Snapshots!KeyAssumption /\ Mcp!McpAssumption
    /\ Enrichment!EnrichmentAssumption /\ Diff!DiffAssumption

-----------------------------------------------------------------------------
DeepAtRest ==
    /\ events = Resting /\ transfers = Resting /\ verticals = Resting /\ deepPc = Resting
    /\ line = Resting /\ staging = Resting /\ next = Resting /\ batch = Resting /\ skipped = Resting
    /\ prunes = Resting /\ failures = Resting /\ gone = Resting
SnapshotsAtRest ==
    /\ ledger = Resting /\ changes = Resting /\ keyPc = Resting /\ todo = Resting
    /\ chunk = Resting /\ answers = Resting /\ rows = Resting /\ keyFaults = Resting
EnrichmentAtRest ==
    /\ spec = Resting /\ emitted = Resting /\ eventKind = Resting /\ mine = Resting
    /\ wire = Resting /\ enriched = Resting
DiffAtRest == releases = Resting /\ verdicts = Resting
McpAtRest ==
    /\ transport = Resting /\ sessions = Resting /\ issued = Resting /\ held = Resting
    /\ ended = Resting /\ handler = Resting /\ answer = Resting /\ global = Resting
    /\ perClient = Resting /\ now = Resting /\ ran = Resting

SideInit ==
    /\ focus \in {"deep", "keys", "enrich", "diff", "mcp"}
    /\ IF focus = "deep" THEN Deep!Init ELSE DeepAtRest
    /\ IF focus = "keys" THEN Snapshots!Init ELSE SnapshotsAtRest
    /\ IF focus = "enrich" THEN Enrichment!Init ELSE EnrichmentAtRest
    /\ IF focus = "diff" THEN Diff!Init ELSE DiffAtRest
    /\ IF focus = "mcp" THEN Mcp!Init ELSE McpAtRest

SideNext ==
    /\ UNCHANGED focus
    /\ \/ focus = "deep" /\ Deep!Next /\ UNCHANGED <<keyVars, enrichVars, diffVars, mcpVars>>
       \/ focus = "keys" /\ Snapshots!Next /\ UNCHANGED <<deepVars, enrichVars, diffVars, mcpVars>>
       \/ focus = "enrich" /\ Enrichment!Next /\ UNCHANGED <<deepVars, keyVars, diffVars, mcpVars>>
       \/ focus = "diff" /\ Diff!Next /\ UNCHANGED <<deepVars, keyVars, enrichVars, mcpVars>>
       \/ focus = "mcp" /\ Mcp!Next /\ UNCHANGED <<deepVars, keyVars, enrichVars, diffVars>>

sideVars == <<deepVars, keyVars, enrichVars, diffVars, mcpVars>>
SideSpec == SideInit /\ [][SideNext]_<<focus, sideVars>>

-----------------------------------------------------------------------------
(* deep_backfill.rs, store.rs and state.rs: a finished import stored every *)
(* complete event in range that it does not report as skipped, the         *)
(* projections follow the events, and every snapshot row holds what its    *)
(* key held in that ledger (DeepBackfill, EventStore, KeySnapshots).       *)
JobsComplete ==
    /\ focus = "deep" => Deep!TypeOK /\ Deep!DoneMeansStored /\ Deep!ProjectionExact
    /\ focus = "keys" => Snapshots!TypeOK /\ Snapshots!RowsTrue

(* spec.rs and diff.rs: an event is shown as what was emitted, and the     *)
(* verdicts on upgrades hold for the clients of every earlier interface,   *)
(* but for finding an event whose leading topics an upgrade changed, which *)
(* no verdict covers (EventEnrichment, InterfaceDiff).                     *)
InterfacesTrue ==
    /\ focus = "enrich" => Enrichment!EnrichedTrue
    /\ focus = "diff" => Diff!VerdictsHold

(* The MCP server: simulations stay within the budget, run for callers     *)
(* with the token, and a session is served while and only while it lives   *)
(* (McpServer).                                                            *)
McpHonest ==
    focus = "mcp" => Mcp!TypeOK /\ Mcp!BudgetKept /\ Mcp!SessionsHonest /\ Mcp!SimulatesForKnown
=============================================================================
