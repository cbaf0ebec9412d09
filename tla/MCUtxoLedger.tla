---------------------------- MODULE MCUtxoLedger ----------------------------
(* Small ledgers for UtxoLedger.                                           *)
EXTENDS UtxoLedger, TLC
=============================================================================
