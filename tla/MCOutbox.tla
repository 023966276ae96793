------------------------------ MODULE MCOutbox ------------------------------
(***************************************************************************)
(* Two sweepers, one endpoint and two events of one second.               *)
(***************************************************************************)
EXTENDS Outbox, TLC

CONSTANTS s1, s2, p1, x, y, t1

MCSweeper  == {s1, s2}
MCEndpoint == {p1}
MCEvent    == {x, y}
MCStamp    == {t1}
=============================================================================
