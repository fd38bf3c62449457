---------------------------- MODULE DeepBackfill ----------------------------
(***************************************************************************)
(* deep-backfill (indexer/deep_backfill.rs): a one-shot command that reads *)
(* an export line by line, converts the events of a ledger range and stores *)
(* them in batches, beside the live poller, its rescan and retention. It   *)
(* may fail anywhere and is run again.                                     *)
(***************************************************************************)
EXTENDS EventStore, Integers

CONSTANTS
    Lines,        \* the export: a sequence of [shape, ids] lines
    From, To,     \* --from and --to
    contract_ids, \* the configured contracts; empty: all
    batch_size,   \* 1000
    Contents,     \* versions of an event's decoded content
    MaxPrunes, MaxCrashes \* bounds

DeepAssumption ==
    /\ batch_size \in Nat \ {0} /\ From \in Int /\ To \in Int
    /\ \A i \in Ids : Event[i].ledger \in Int
    /\ Lines \in Seq([shape : STRING, ids : Seq(Ids)])

VARIABLES
    pc,      \* "idle", "read", "convert" or "done"
    line,    \* lines read
    staging, \* HistoricalEvents in range, in file order
    next,    \* next one to convert
    batch,   \* NewEvents to flush
    skipped, \* the places of those that could not be converted; the command
             \* reports how many as total_skipped
    prunes, crashes,
    gone     \* history: ids pruned since the command started

run == <<pc, line, staging, next, batch, skipped>>
vars == <<store, run, prunes, crashes, gone>>

Init ==
    /\ StoreInit
    /\ pc = "idle" /\ line = 0 /\ staging = <<>> /\ next = 1 /\ batch = <<>> /\ skipped = {}
    /\ prunes = 0 /\ crashes = 0 /\ gone = {}

-----------------------------------------------------------------------------
(* The live poller stores any events with the spec it has, the trailing    *)
(* rescan overwrites them, and retention deletes some.  What an export     *)
(* calls a contract id may be anything.                                    *)
Complete == {i \in Ids : Event[i].complete}
Pollable == {i \in Complete : Event[i].contract \in Strkeys}

Poll ==
    /\ \E b \in SUBSET Pollable, c \in Contents :
          b # {} /\ InsertEvents(b, c)
    /\ UNCHANGED <<run, prunes, crashes, gone>>

Rescan ==
    /\ \E b \in SUBSET Pollable, c \in Contents :
          b # {} /\ UpsertEvents(b, c)
    /\ UNCHANGED <<run, prunes, crashes, gone>>

Prune ==
    /\ prunes < MaxPrunes /\ prunes' = prunes + 1
    /\ \E i \in DOMAIN events : DeleteEvents({i}) /\ gone' = gone \cup {i}
    /\ UNCHANGED <<run, crashes>>

-----------------------------------------------------------------------------
Start ==
    /\ pc \in {"idle", "done"}
    /\ pc' = "read" /\ line' = 0 /\ staging' = <<>> /\ next' = 1 /\ batch' = <<>> /\ skipped' = {}
    /\ gone' = {}
    /\ UNCHANGED <<store, prunes, crashes>>

(* The members of s that are in S, in order.                               *)
Filter(s, S) ==
    LET f[n \in 0 .. Len(s)] == IF n = 0 THEN <<>>
                                ELSE IF s[n] \in S THEN Append(f[n - 1], s[n]) ELSE f[n - 1]
    IN  f[Len(s)]

(* parse_line: an envelope drops entries without id or contract; a flat    *)
(* record without them, or a line that is not JSON, is skipped; blank and  *)
(* comment lines are too.                                                  *)
Parsed(l) ==
    CASE l.shape = "envelope" -> Filter(l.ids, Complete)
      [] l.shape = "flat"     -> IF \A j \in 1 .. Len(l.ids) : Event[l.ids[j]].complete
                                 THEN l.ids ELSE <<>>
      [] OTHER                -> <<>>

Wanted == {i \in Ids : /\ Event[i].ledger >= From /\ Event[i].ledger <= To
                       /\ contract_ids = {} \/ Event[i].contract \in contract_ids}

(* collect_range, one line; the end of the export starts the conversion.   *)
ReadLine ==
    /\ pc = "read" /\ line < Len(Lines)
    /\ line' = line + 1
    /\ staging' = staging \o Filter(Parsed(Lines[line + 1]), Wanted)
    /\ UNCHANGED <<store, pc, next, batch, skipped, prunes, crashes, gone>>

EndOfInput ==
    /\ pc = "read" /\ line = Len(Lines)
    /\ pc' = "convert"
    /\ UNCHANGED <<store, line, staging, next, batch, skipped, prunes, crashes, gone>>

(* historical_to_new_event and store::insert_events.                       *)
Flush(b) == \E c \in Contents : InsertEvents(Range(b), c)

FlushDue(b) == Len(b) >= batch_size

Convert ==
    /\ pc = "convert" /\ next <= Len(staging)
    /\ next' = next + 1
    /\ LET b == Append(batch, staging[next])
       IN  IF FlushDue(b)
           THEN Flush(b) /\ batch' = <<>>
           ELSE batch' = b /\ UNCHANGED store
    /\ UNCHANGED <<pc, line, staging, skipped, prunes, crashes, gone>>

(* A conversion that panics is counted, and the command goes on without    *)
(* the event.                                                              *)
Skip ==
    /\ pc = "convert" /\ next <= Len(staging)
    /\ next' = next + 1 /\ skipped' = skipped \cup {next}
    /\ UNCHANGED <<store, pc, line, staging, batch, prunes, crashes, gone>>

(* The rest of the batch.                                                  *)
DropRest == UNCHANGED store
FlushRest == IF batch # <<>> THEN Flush(batch) ELSE UNCHANGED store

Finish ==
    /\ pc = "convert" /\ next > Len(staging)
    /\ FlushRest
    /\ batch' = <<>> /\ pc' = "done"
    /\ UNCHANGED <<line, staging, next, skipped, prunes, crashes, gone>>

(* A file cannot be opened, a flush fails, or the process dies.            *)
Fail ==
    /\ pc \in {"read", "convert"} /\ crashes < MaxCrashes
    /\ crashes' = crashes + 1
    /\ pc' = "idle" /\ line' = 0 /\ staging' = <<>> /\ next' = 1 /\ batch' = <<>> /\ skipped' = {}
    /\ UNCHANGED <<store, prunes, gone>>

Next ==
    \/ Poll \/ Rescan \/ Prune
    \/ Start \/ ReadLine \/ EndOfInput \/ Convert \/ Skip \/ Finish \/ Fail

Spec == Init /\ [][Next]_vars

-----------------------------------------------------------------------------
TypeOK ==
    /\ DOMAIN events \subseteq Ids /\ DOMAIN transfers \subseteq Ids
    /\ \A i \in DOMAIN events : events[i] \in Contents
    /\ verticals \subseteq Ids
    /\ pc \in {"idle", "read", "convert", "done"}
    /\ line \in 0 .. Len(Lines) /\ staging \in Seq(Ids) /\ next \in Nat
    /\ batch \in Seq(Ids) /\ Len(batch) < batch_size
    /\ skipped \subseteq 1 .. Len(staging)

(* A command that reports completion has stored every event of the range   *)
(* that the export holds, although it flushes in batches, other writers    *)
(* store the same ids meanwhile, and an earlier run may have stopped       *)
(* anywhere; retention may have deleted some since it started, and the     *)
(* ones it reports as skipped may be missing (deep_backfill.rs:446): none  *)
(* is when it reports none.                                                *)
DoneMeansStored ==
    pc = "done" =>
        \A l \in 1 .. Len(Lines) : \A i \in Ids \ gone :
            /\ \E j \in 1 .. Len(Parsed(Lines[l])) : Parsed(Lines[l])[j] = i
            /\ Event[i].ledger \in From .. To
            /\ contract_ids = {} \/ Event[i].contract \in contract_ids
            => i \in DOMAIN events \/ \E k \in skipped : staging[k] = i
=============================================================================
