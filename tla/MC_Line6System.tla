--------------------------- MODULE MC_Line6System ---------------------------
(* Line6System with the code's own periods, in ticks of 100 ms.            *)
EXTENDS Line6System
=============================================================================
