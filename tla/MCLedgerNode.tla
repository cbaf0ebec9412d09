---------------------------- MODULE MCLedgerNode ----------------------------
(* A small instance of LedgerNode.                                         *)
EXTENDS LedgerNode, TLC
=============================================================================
