------------------------------ MODULE Backfill ------------------------------
(***************************************************************************)
(* The `backfill` command (backfill.rs) beside the live indexer.  It takes *)
(* no leader lock (main.rs) and shares contract_events and the cursor row  *)
(* with the pollers: it pages from a requested ledger, or from the cursor  *)
(* when none is given, and checkpoints the cursor after every stored page. *)
(***************************************************************************)
EXTENDS Ingestion

CONSTANT BackfillFrom   \* the ledgers it may be asked for; 0 = resume

ASSUME BackfillAssumption == BackfillFrom \subseteq 0..MaxTip

VARIABLE bf             \* the backfill process

bfVars == <<vars, bf>>

NoBackfill ==
    [pc |-> "off", tip |-> 0, start |-> 1, token |-> 1, paged |-> FALSE,
     last |-> 0, inserted |-> 0, ended |-> FALSE, final |-> FALSE,
     sameVersion |-> FALSE]

BackfillInit == Init /\ bf = NoBackfill

(* Reads the tip and, when asked to resume, the cursor. *)
BackfillStart ==
    /\ bf.pc \in {"off", "done"}
    /\ \E from \in BackfillFrom, t \in EndpointTips(tip) :
        LET resume == IF from > 0 THEN from
                      ELSE IF cursor.present THEN cursor.last + 1 ELSE 0
            first == Larger(resume, Larger(t - MaxLookback, 1))
        IN bf' = [NoBackfill EXCEPT !.pc = "page", !.tip = t, !.start = first,
                                    !.token = FirstToken(first), !.last = first]
    /\ UNCHANGED vars

(* Mutant of EndsBackfill: the rows made of the page are counted, as the   *)
(* live loop does.                                                         *)
EndsOnRows(page) == ShortPage(Cardinality(Parsed(page)))

(* Here the loop counts the events of the page, not the rows made of them. *)
EndsBackfill(page) == ShortPage(Cardinality(page))

(* Stores one page. *)
BackfillPage ==
    /\ bf.pc = "page"
    /\ \E t \in EndpointTips(tip) :
        LET page == Page(bf.token, t) IN
        /\ Serves(t, bf.start, bf.token, bf.paged)
        /\ stored' = stored \cup Parsed(page)
        /\ bf' = [bf EXCEPT !.pc = "readver",
                            !.token = NextToken(@, page),
                            !.paged = TRUE,
                            !.last = LastLedger(@, bf.token, page),
                            !.inserted = NewRows(Parsed(page)),
                            !.ended = EndsBackfill(page)]
    /\ UNCHANGED <<missed, gap, pollerVars>>

(* write_progress: read_version, which fails when there is no row ... *)
BackfillReadVersion ==
    /\ bf.pc = "readver"
    /\ cursor.present
    /\ bf' = [bf EXCEPT !.pc = "update", !.sameVersion = TRUE]
    /\ UNCHANGED vars

(* ... and the guarded UPDATE: the page's checkpoint, or the final advance *)
(* to the tip.                                                             *)
BackfillCheckpoint ==
    /\ bf.pc = "update"
    /\ bf.sameVersion
    /\ cursor' = [cursor EXCEPT !.last = bf.last,
                                !.ingested = @ + bf.inserted,
                                !.written = TRUE]
    /\ cycle' = [p \in Pollers |-> [cycle[p] EXCEPT !.sameVersion = FALSE]]
    /\ bf' = IF bf.final THEN [bf EXCEPT !.pc = "done", !.inserted = 0]
             ELSE IF bf.ended
             THEN [bf EXCEPT !.pc = "readver", !.last = bf.tip, !.inserted = 0,
                             !.final = TRUE]
             ELSE [bf EXCEPT !.pc = "page", !.inserted = 0]
    /\ UNCHANGED <<tip, stored, missed, holder, crashes, pc, origin, gap>>

(* Any error, or Ctrl-C, ends the command. *)
BackfillFail ==
    /\ bf.pc \notin {"off", "done"}
    /\ bf' = NoBackfill
    /\ UNCHANGED vars

BackfillStep ==
    \/ BackfillStart \/ BackfillPage \/ BackfillReadVersion
    \/ BackfillCheckpoint \/ BackfillFail

(* A poller's write changes the version under a backfill in progress. *)
LiveStep ==
    /\ Next
    /\ bf' = IF \E p \in Pollers : WriteProgress(p)
             THEN [bf EXCEPT !.sameVersion = FALSE] ELSE bf

BackfillNext == LiveStep \/ BackfillStep

BackfillSpec == BackfillInit /\ [][BackfillNext]_bfVars

-----------------------------------------------------------------------------
(* A finished backfill has stored every event from the ledger it started   *)
(* at to the tip it read, except those without a usable timestamp: the     *)
(* loop counts raw events, so a dropped one does not end it early.         *)
BackfillDoneMeansStored ==
    bf.pc = "done" =>
        \A e \in Events : bf.start <= LedgerOf[e] /\ LedgerOf[e] <= bf.tip
            => e \in stored \/ e \in BadTs

=============================================================================
