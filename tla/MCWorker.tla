------------------------------ MODULE MCWorker ------------------------------
(***************************************************************************)
(* Two workers, one briefing, two reports and one alert condition, which   *)
(* holds at first and may clear and appear again.                          *)
(***************************************************************************)
EXTENDS Worker, TLC

CONSTANTS w1, w2, b1, r1, r2, c1

MCWorkers   == {w1, w2}
MCBriefing  == {b1}
MCReport    == {r1, r2}
MCCondition == {c1}
MCPhase0    == [k \in {b1, r1, r2} |-> 0]

\* Workers are interchangeable, and so are the reports.
Symmetry == Permutations(MCWorkers) \cup Permutations(MCReport)
=============================================================================
