----------------------------- MODULE Line6Engine -----------------------------
(***************************************************************************)
(* What the USB engine promises the main loop, with no counter and no      *)
(* libusb: start either leaves nothing or sets a nonempty set of transfers *)
(* circulating, all at once; from then on transfers only ever leave, one   *)
(* at a time; and stop lets go of the interface as soon as none circulates *)
(* or its time is up, and not before.  Line6Usb implements this.           *)
(***************************************************************************)
EXTENDS Naturals

CONSTANTS
  Transfers,       \* the transfers of an engine
  DrainLimit       \* the time stop allows them

VARIABLES
  engine,          \* down, running or stopping
  claimed,         \* the daemon has the device's interface
  circulating,     \* the transfers whose callback is still to come
  waited           \* how long stop has been waiting for them

vars == <<engine, claimed, circulating, waited>>

Init == engine = "down" /\ claimed = FALSE /\ circulating = {} /\ waited = 0

Claims ==
  /\ engine = "down" /\ ~claimed
  /\ claimed' = TRUE
  /\ UNCHANGED <<engine, circulating, waited>>

(* A start that fails gives the interface back.                            *)
StartFails ==
  /\ engine = "down" /\ claimed
  /\ claimed' = FALSE
  /\ UNCHANGED <<engine, circulating, waited>>

Starts ==
  /\ engine = "down" /\ claimed
  /\ engine' = "running"
  /\ circulating' \in (SUBSET Transfers) \ {{}}
  /\ UNCHANGED <<claimed, waited>>

Leaves(t) ==
  /\ engine # "down"
  /\ t \in circulating
  /\ circulating' = circulating \ {t}
  /\ UNCHANGED <<engine, claimed, waited>>

Cancels ==
  /\ engine = "running"
  /\ engine' = "stopping"
  /\ UNCHANGED <<claimed, circulating, waited>>

Waits ==
  /\ engine = "stopping" /\ circulating # {}
  /\ waited < DrainLimit
  /\ waited' = waited + 1
  /\ UNCHANGED <<engine, claimed, circulating>>

Stops ==
  /\ engine = "stopping"
  /\ circulating = {} \/ waited = DrainLimit
  /\ engine' = "down" /\ claimed' = FALSE /\ circulating' = {} /\ waited' = 0

Next ==
  \/ Claims \/ StartFails \/ Starts \/ Cancels \/ Waits \/ Stops
  \/ \E t \in Transfers : Leaves(t)

Spec == Init /\ [][Next]_vars
=============================================================================
