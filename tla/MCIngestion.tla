---------------------------- MODULE MCIngestion -----------------------------
(* Instances of Ingestion for TLC.  Two events share a ledger, so that a   *)
(* page can end inside one.                                                *)
EXTENDS Ingestion

ThreeEvents == <<1, 2, 2>>
FourInThree == <<1, 2, 2, 3>>
=============================================================================
