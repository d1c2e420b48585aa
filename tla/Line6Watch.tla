----------------------------- MODULE Line6Watch -----------------------------
(***************************************************************************)
(* What the presence monitor promises, with no counter, no thread and no   *)
(* clock: the device is present from the load on, and from the first poll  *)
(* exactly while the segment is mapped and fewer than StallMax polls in a  *)
(* row have found write_frames unchanged.  The monitor of Line6Plugin and  *)
(* that of Line6System, which adds the clock, both implement this.         *)
(***************************************************************************)
EXTENDS Naturals

CONSTANTS
  StallMax         \* the polls without change after which a device is withdrawn

VARIABLES
  mapped,          \* the segment is mapped
  moved,           \* the next poll will find write_frames changed
  stall,           \* the polls in a row that did not, up to StallMax
  present          \* the device is offered to the host

vars == <<mapped, moved, stall, present>>

Init == mapped \in BOOLEAN /\ moved = TRUE /\ stall = 0 /\ present = TRUE

(* Once mapped, the segment stays mapped.                                  *)
Maps == ~mapped /\ mapped' = TRUE /\ UNCHANGED <<moved, stall, present>>

(* write_frames grows, is reset, or comes back to what the monitor saw: it *)
(* has seen nothing of a segment that is not mapped.                       *)
Changes ==
  /\ moved' \in BOOLEAN
  /\ ~mapped => moved'
  /\ UNCHANGED <<mapped, stall, present>>

Polls ==
  /\ \/ ~mapped /\ UNCHANGED <<moved, stall>>
     \/ mapped /\ moved /\ moved' = FALSE /\ stall' = 0
     \/ mapped /\ ~moved /\ UNCHANGED moved /\ stall' = IF stall < StallMax THEN stall + 1 ELSE stall
  /\ present' = (mapped /\ stall' < StallMax)
  /\ UNCHANGED mapped

Next == Maps \/ Changes \/ Polls

Spec == Init /\ [][Next]_vars
=============================================================================
