-------------------------- MODULE MC_Line6Timeline --------------------------
(* Line6Timeline with a period that is no whole number of ticks (28/3),    *)
(* two buffers to a period, and pauses of a tick and of more than two      *)
(* periods.                                                                *)
EXTENDS Line6Timeline, TLC

ClientSymmetry == Permutations(Clients)
=============================================================================
