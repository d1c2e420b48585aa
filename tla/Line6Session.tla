---------------------------- MODULE Line6Session ----------------------------
(***************************************************************************)
(* One run of the daemon as launchd and the user see it, with no devices,  *)
(* no header and no clock: it looks, captures or sleeps, dies at any       *)
(* moment, and exits of its own accord only on demand, at the last of      *)
(* ExitGrace looks that found nothing with no attempt to capture between   *)
(* them.  Each instance of Line6Daemon is one, and so is the daemon of     *)
(* Line6System: the main loop and its reduction to a clock agree.          *)
(***************************************************************************)
EXTENDS Naturals

CONSTANTS
  ExitGrace,       \* the looks that find nothing before an exit
  OnDemand         \* the values of --exit-when-absent

VARIABLES
  place,           \* off, exited, or what it does: look, capture, sleep
  misses,          \* the looks that found nothing, as far as they are counted
  onDemand         \* --exit-when-absent

vars == <<place, misses, onDemand>>

Up == place \notin {"off", "exited"}

Init == place = "off" /\ misses = 0 /\ onDemand \in OnDemand

Launched ==
  /\ ~Up
  /\ place' = "look" /\ misses' = 0
  /\ UNCHANGED onDemand

(* Signals, crashes and errors.                                            *)
Dies ==
  /\ Up
  /\ place' = "off"
  /\ UNCHANGED <<misses, onDemand>>

(* A device is there: it is captured, or it is busy.                       *)
Finds ==
  /\ place = "look"
  /\ place' \in {"capture", "sleep"} /\ misses' = 0
  /\ UNCHANGED onDemand

Misses ==
  /\ place = "look"
  /\ misses' = IF onDemand THEN misses + 1 ELSE misses
  /\ place' = IF misses' >= ExitGrace THEN "exited" ELSE "sleep"
  /\ UNCHANGED onDemand

(* A sleep ends, or the watchdog ends a capture.                           *)
LooksAgain ==
  /\ place \in {"sleep", "capture"}
  /\ place' = "look"
  /\ UNCHANGED <<misses, onDemand>>

Next == Launched \/ Dies \/ Finds \/ Misses \/ LooksAgain

Spec == Init /\ [][Next]_vars
=============================================================================
