---------------------------- MODULE MC_Line6Ring ----------------------------
(* Line6Ring on a ring of a few frames: small enough for the daemon to lap *)
(* a reader, large enough for a resync to leave jitter room on both sides. *)
EXTENDS Line6Ring, TLC

ClientSymmetry == Permutations(Clients)
=============================================================================
