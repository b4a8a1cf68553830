---------------------------- MODULE MCHarnessTurn ----------------------------
(* HarnessTurn for TLC: two reports in one turn, one report over two turns, and   *)
(* three updates around a replay that may keep two.                               *)
EXTENDS HarnessTurn

Setup(mode, turns, frames) == [mode |-> mode, turns |-> turns, frames |-> frames]

MCSetups == {Setup("worker", 1, 2), Setup("worker", 2, 1), Setup("transcript", 1, 3)}
==============================================================================
