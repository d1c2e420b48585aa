--------------------------- MODULE MC_Line6Plugin ---------------------------
(* Line6Plugin with the code's own stall limit and two host threads.       *)
EXTENDS Line6Plugin
=============================================================================
