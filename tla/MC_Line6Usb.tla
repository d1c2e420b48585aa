----------------------------- MODULE MC_Line6Usb -----------------------------
(* Line6Usb with two transfers in each direction: a start can fail in      *)
(* part, and one direction can die while the other lives.                  *)
EXTENDS Line6Usb
=============================================================================
