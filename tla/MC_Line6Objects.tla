--------------------------- MODULE MC_Line6Objects ---------------------------
(* Line6Objects with a model of eight channels, as the table has them, and *)
(* one of four, the row docs/ADDING_DEVICES.md adds as its example.        *)
EXTENDS Line6Objects, TLC

CONSTANTS x3, hd500

ChannelsOf == x3 :> 8 @@ hd500 :> 4

StringSymmetry == Permutations(Strings)
=============================================================================
