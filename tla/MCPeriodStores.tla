--------------------------- MODULE MCPeriodStores ---------------------------
(***************************************************************************)
(* PeriodStores.tla with a few months.                                     *)
(***************************************************************************)
EXTENDS PeriodStores
=============================================================================
