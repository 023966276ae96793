------------------------------ MODULE MCLedger ------------------------------
(***************************************************************************)
(* Ledger.tla with two concurrent callers, two keys and one period that is *)
(* sealed and re-opened at any moment.                                     *)
(***************************************************************************)
EXTENDS Ledger
=============================================================================
