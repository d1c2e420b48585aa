------------------------------ MODULE Line6Usb ------------------------------
(***************************************************************************)
(* The isochronous USB engine (usb.rs): start with its error paths, the    *)
(* callbacks that resubmit a transfer or give it up, and stop, which       *)
(* cancels, drains for at most two seconds and releases everything.        *)
(*                                                                         *)
(* libusb and the kernel are external: any call may fail, and a submitted  *)
(* transfer completes when the device, a cancellation or an error makes it *)
(* complete, or never.  Callbacks run on the daemon's own thread, inside   *)
(* handle_events.  Where the frames go that a callback pushes is           *)
(* Line6Ring's subject, which bytes they are made of is part of this one's *)
(* (Line6Samples).  The error counters, which are only printed, are left   *)
(* out.                                                                    *)
(***************************************************************************)
EXTENDS Line6Samples, FiniteSets

CONSTANTS
  InTransfers,     \* the IN (capture) transfers
  OutTransfers,    \* the OUT (silence) transfers
  PacketLengths,   \* the lengths packets may arrive with
  DrainLimit       \* stop's two seconds, in units in which a cancelled transfer
                   \* of a device that answers completes

Transfers == InTransfers \cup OutTransfers

ASSUME UsbAssumption ==
  /\ IsFiniteSet(InTransfers) /\ IsFiniteSet(OutTransfers)
  /\ InTransfers \cap OutTransfers = {}
  /\ PacketLengths \subseteq 0 .. InPktLen
  /\ DrainLimit \in Nat \ {0}

VARIABLES
  pc,              \* where start, the main loop's servicing or stop is
  held,            \* the resources acquired: libusb context, handle, interface
  transfer,        \* each transfer: not allocated, idle, owned by libusb, or
                   \* completed with its callback still to run
  unsubmitted,     \* start: the transfers it has not tried to submit yet
  running,         \* StreamState::running
  inFlight,        \* StreamState::in_flight
  elapsed,         \* how long stop has been draining
  sine,            \* StreamState::sine
  capture          \* the last IN transfer handled: the lengths of its packets,
                   \* and the frames each pushed

vars == <<pc, held, transfer, unsubmitted, running, inFlight, elapsed, sine, capture>>

InFlight == {t \in Transfers : transfer[t] \in {"pending", "done"}}

Init ==
  /\ pc = "down"
  /\ held = {}
  /\ transfer = [t \in Transfers |-> "none"]
  /\ unsubmitted = {}
  /\ running = FALSE
  /\ inFlight = 0
  /\ elapsed = 0
  /\ sine \in BOOLEAN
  /\ capture = [actual |-> [i \in Packets |-> 0], frames |-> [i \in Packets |-> <<>>]]

-----------------------------------------------------------------------------
(* start.                                                                  *)

(* start_capture makes a fresh StreamState; libusb_init follows.           *)
StartInit ==
  /\ pc = "down"
  /\ running' = TRUE /\ inFlight' = 0
  /\ \/ pc' = "open" /\ held' = {"ctx"}
     \/ UNCHANGED <<pc, held>>
  /\ UNCHANGED <<transfer, unsubmitted, elapsed, sine, capture>>

(* libusb_open_device_with_vid_pid.                                        *)
StartOpen ==
  /\ pc = "open"
  /\ \/ pc' = "claim" /\ held' = held \cup {"handle"}
     \/ pc' = "down" /\ held' = held \ {"ctx"}
  /\ UNCHANGED <<transfer, unsubmitted, running, inFlight, elapsed, sine, capture>>

(* Mutant: a failed claim forgets to close the handle.                     *)
StartClaimLeaks ==
  /\ pc = "claim"
  /\ \/ pc' = "alt" /\ held' = held \cup {"interface"}
     \/ pc' = "down" /\ held' = held \ {"ctx"}
  /\ UNCHANGED <<transfer, unsubmitted, running, inFlight, elapsed, sine, capture>>

(* libusb_claim_interface fails while another process has the interface.   *)
StartClaim ==
  /\ pc = "claim"
  /\ \/ pc' = "alt" /\ held' = held \cup {"interface"}
     \/ pc' = "down" /\ held' = held \ {"handle", "ctx"}
  /\ UNCHANGED <<transfer, unsubmitted, running, inFlight, elapsed, sine, capture>>

(* libusb_set_interface_alt_setting, and the allocation of the transfers.  *)
(* make_iso panics if it gets none, and the process ends: Line6Daemon's    *)
(* subject, whose processes may end anywhere.                              *)
StartAlt ==
  /\ pc = "alt"
  /\ \/ /\ pc' = "submit"
        /\ transfer' = [t \in Transfers |-> "idle"]
        /\ unsubmitted' = Transfers
        /\ UNCHANGED held
     \/ /\ pc' = "down"
        /\ held' = held \ {"interface", "handle", "ctx"}
        /\ UNCHANGED <<transfer, unsubmitted>>
  /\ UNCHANGED <<running, inFlight, elapsed, sine, capture>>

(* libusb_submit_transfer for one transfer, the IN transfers first.        *)
StartSubmit(t) ==
  /\ pc = "submit"
  /\ t \in unsubmitted
  /\ t \in OutTransfers => unsubmitted \cap InTransfers = {}
  /\ unsubmitted' = unsubmitted \ {t}
  /\ \/ transfer' = [transfer EXCEPT ![t] = "pending"] /\ inFlight' = inFlight + 1
     \/ UNCHANGED <<transfer, inFlight>>
  /\ UNCHANGED <<pc, held, running, elapsed, sine, capture>>

(* The engine runs if at least one transfer does; otherwise start undoes   *)
(* everything.                                                             *)
StartFinish ==
  /\ pc = "submit" /\ unsubmitted = {}
  /\ \/ inFlight > 0 /\ pc' = "run" /\ UNCHANGED <<held, transfer>>
     \/ /\ inFlight = 0
        /\ pc' = "down"
        /\ transfer' = [t \in Transfers |-> "none"]
        /\ held' = held \ {"interface", "handle", "ctx"}
  /\ UNCHANGED <<unsubmitted, running, inFlight, elapsed, sine, capture>>

-----------------------------------------------------------------------------
(* The device, and the callbacks handle_events runs.                       *)

(* A transfer completes, with data, an error or as cancelled.              *)
Complete(t) ==
  /\ transfer[t] = "pending"
  /\ transfer' = [transfer EXCEPT ![t] = "done"]
  /\ UNCHANGED <<pc, held, unsubmitted, running, inFlight, elapsed, sine, capture>>

(* The loop of on_in over the packets of a transfer; on_out has none.      *)
Captures(t) ==
  \/ /\ t \in InTransfers
     /\ \E actual \in [Packets -> PacketLengths] :
          capture' = [actual |-> actual, frames |-> OnIn(actual, sine)]
  \/ t \in OutTransfers /\ UNCHANGED capture

(* Mutant: a failed resubmission is not counted.                           *)
CallbackUncounted(t) ==
  /\ pc \in {"run", "drain"}
  /\ transfer[t] = "done"
  /\ Captures(t)
  /\ \/ running /\ transfer' = [transfer EXCEPT ![t] = "pending"] /\ UNCHANGED inFlight
     \/ /\ transfer' = [transfer EXCEPT ![t] = "idle"]
        /\ inFlight' = IF running THEN inFlight ELSE inFlight - 1
  /\ UNCHANGED <<pc, held, unsubmitted, running, elapsed, sine>>

(* Mutant: in_flight is decremented whether or not the transfer goes on.   *)
CallbackCountsEach(t) ==
  /\ pc \in {"run", "drain"}
  /\ transfer[t] = "done"
  /\ Captures(t)
  /\ \/ running /\ transfer' = [transfer EXCEPT ![t] = "pending"]
     \/ transfer' = [transfer EXCEPT ![t] = "idle"]
  /\ inFlight' = inFlight - 1
  /\ UNCHANGED <<pc, held, unsubmitted, running, elapsed, sine>>

(* on_in and on_out: push what came and resubmit while running; a transfer *)
(* that cannot be resubmitted leaves circulation.                          *)
Callback(t) ==
  /\ pc \in {"run", "drain"}
  /\ transfer[t] = "done"
  /\ Captures(t)
  /\ \/ running /\ transfer' = [transfer EXCEPT ![t] = "pending"] /\ UNCHANGED inFlight
     \/ transfer' = [transfer EXCEPT ![t] = "idle"] /\ inFlight' = inFlight - 1
  /\ UNCHANGED <<pc, held, unsubmitted, running, elapsed, sine>>

-----------------------------------------------------------------------------
(* stop, called by the watchdog or at the end of the daemon.               *)

(* running is cleared and every transfer cancelled; a cancelled transfer   *)
(* still has to complete.                                                  *)
StopCancel ==
  /\ pc = "run"
  /\ running' = FALSE
  /\ pc' = "drain"
  /\ elapsed' = 0
  /\ UNCHANGED <<held, transfer, unsubmitted, inFlight, sine, capture>>

(* handle_events finds no callback to run, and the clock goes on.          *)
StopWaits ==
  /\ pc = "drain" /\ inFlight > 0
  /\ elapsed < DrainLimit
  /\ \A t \in Transfers : transfer[t] # "done"
  /\ elapsed' = elapsed + 1
  /\ UNCHANGED <<pc, held, transfer, unsubmitted, running, inFlight, sine, capture>>

(* Mutant: the drain has no limit.                                         *)
DrainEndsEmpty == inFlight <= 0

(* stop's loop ends when nothing is in flight, or after two seconds.       *)
DrainEnds == inFlight <= 0 \/ elapsed = DrainLimit

(* The transfers are freed, the interface released, the handle and the     *)
(* context closed and the StreamState dropped.                             *)
StopRelease ==
  /\ pc = "drain"
  /\ DrainEnds
  /\ pc' = "down"
  /\ transfer' = [t \in Transfers |-> "none"]
  /\ held' = held \ {"interface", "handle", "ctx"}
  /\ UNCHANGED <<unsubmitted, running, inFlight, elapsed, sine, capture>>

-----------------------------------------------------------------------------
Start ==
  StartInit \/ StartOpen \/ StartClaim \/ StartAlt \/ StartFinish
  \/ \E t \in Transfers : StartSubmit(t)

Stop == StopCancel \/ StopWaits \/ StopRelease

Next == Start \/ Stop \/ \E t \in Transfers : Complete(t) \/ Callback(t)

Spec == Init /\ [][Next]_vars

(* The daemon's thread goes on: start and stop run to their end, callbacks *)
(* run, and the drain's clock runs out.  Nothing makes the device complete *)
(* a transfer.                                                             *)
FairSpec ==
  /\ Spec
  /\ WF_vars(Start /\ pc # "down")
  /\ WF_vars(\E t \in Transfers : Callback(t))
  /\ WF_vars(StopWaits \/ StopRelease)

-----------------------------------------------------------------------------
(* Properties.                                                             *)

(* Every variable has its type; in_flight never goes below zero.           *)
TypeOK ==
  /\ pc \in {"down", "open", "claim", "alt", "submit", "run", "drain"}
  /\ held \subseteq {"ctx", "handle", "interface"}
  /\ transfer \in [Transfers -> {"none", "idle", "pending", "done"}]
  /\ unsubmitted \subseteq Transfers
  /\ running \in BOOLEAN
  /\ inFlight \in Nat
  /\ elapsed \in 0 .. DrainLimit
  /\ sine \in BOOLEAN
  /\ capture.actual \in [Packets -> 0 .. InPktLen]

(* in_flight is exactly the number of transfers whose callback is still to *)
(* come, through partial starts, failed resubmissions and the drain: stop  *)
(* relies on it to know when freeing is safe.                              *)
InFlightExact ==
  pc # "down" => inFlight = Cardinality(InFlight)

(* start and stop leave nothing behind on any path: whenever the daemon is *)
(* between engines it holds no USB resource and no transfer.               *)
NothingLeftBehind ==
  pc = "down" => held = {} /\ \A t \in Transfers : transfer[t] = "none"

(* usb.rs:235, "Cancels transfers, drains, and releases all resources": no *)
(* transfer is freed while its callback is still to come.                  *)
FreedOnlyWhenDrained ==
  [][pc = "drain" /\ pc' = "down" => InFlight = {}]_vars

(* stop returns, even if the device never answers a cancellation.          *)
StopReturns == (pc = "drain") ~> (pc = "down")

(* on_in keeps the channels apart (usb.rs:88, "Carrying a tail across      *)
(* packets would shift the boundary and rotate the channels permanently"): *)
(* every sample stored for a channel was received, whole, in that          *)
(* channel's place of its own packet, in order, and no frame that came     *)
(* whole is lost.                                                          *)
FramesAligned ==
  ~sine =>
    \A i \in Packets :
      LET frames == capture.frames[i]
          start == i * InPktLen
      IN
      /\ \A f \in DOMAIN frames, ch \in 0 .. Channels - 1 :
           LET o == frames[f][ch] - start IN
           /\ o >= 0 /\ o + SampleBytes <= capture.actual[i]
           /\ o % FrameBytes = ch * SampleBytes
           /\ f > 1 => frames[f][ch] = frames[f - 1][ch] + FrameBytes
      /\ FrameBytes * (Len(frames) + 1) > capture.actual[i]

(* s24_to_f32 gives every captured sample its value and sign, whatever its *)
(* bytes are, the extremes too.                                            *)
SamplesExact ==
  ~sine =>
    \A b \in [1 .. SampleBytes -> Byte] :
      SampleOf(b[1], b[2], b[3]) = S24(b[1], b[2], b[3])

(* What the abstract engine sees of start, the callbacks and stop.         *)
Engine == INSTANCE Line6Engine WITH
  engine <- IF pc = "run" THEN "running" ELSE IF pc = "drain" THEN "stopping" ELSE "down",
  claimed <- "interface" \in held,
  circulating <- IF pc \in {"run", "drain"} THEN InFlight ELSE {},
  waited <- IF pc = "drain" THEN elapsed ELSE 0

(* start, the callbacks and stop implement the abstract engine: although   *)
(* stop knows nothing but the counter, it gives up the interface exactly   *)
(* when no transfer circulates or the two seconds are over, and whatever   *)
(* libusb refuses, a transfer that has left never comes back.              *)
Implements == Engine!Spec
=============================================================================
