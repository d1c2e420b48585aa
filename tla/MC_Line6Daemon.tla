--------------------------- MODULE MC_Line6Daemon ---------------------------
(* Line6Daemon with two devices that can be swapped, a stall of two rounds *)
(* and the code's grace of three looks.                                    *)
EXTENDS Line6Daemon
=============================================================================
