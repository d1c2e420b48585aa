---------------------------- MODULE Line6UsbProofs ----------------------------
(***************************************************************************)
(* The safety properties of the USB engine for any set of transfers, any   *)
(* drain limit, any failure of libusb and any packets; that it implements  *)
(* the abstract engine; that a drain uses itself up; and the samples it    *)
(* captures for any number of channels.                                    *)
(***************************************************************************)
EXTENDS Line6Usb, FiniteSetTheorems, TLAPS

(* What the engine has acquired at each stage, and whether callbacks may   *)
(* resubmit.                                                               *)
Acquired ==
  /\ pc = "open" => held = {"ctx"}
  /\ pc = "claim" => held = {"ctx", "handle"}
  /\ pc \in {"alt", "submit", "run", "drain"} => held = {"ctx", "handle", "interface"}
  /\ pc # "down" => running = (pc # "drain")

(* No transfer before the allocation; one that start has not come to yet   *)
(* is not in flight.                                                       *)
Untouched ==
  /\ pc \in {"down", "open", "claim", "alt"} => \A t \in Transfers : transfer[t] = "none"
  /\ pc = "submit" => \A t \in unsubmitted : transfer[t] = "idle"

EngineInv == TypeOK /\ Acquired /\ Untouched /\ NothingLeftBehind /\ InFlightExact

-----------------------------------------------------------------------------
LEMMA TransfersFinite ==
  /\ IsFiniteSet(Transfers) /\ IsFiniteSet(InFlight) /\ Cardinality(InFlight) \in Nat
<1>1. IsFiniteSet(Transfers)
  BY UsbAssumption, FS_Union DEF Transfers
<1>2. InFlight \subseteq Transfers
  BY DEF InFlight
<1>3. QED
  BY <1>1, <1>2, FS_Subset, FS_CardinalityType

LEMMA NoneInFlight ==
  ASSUME \A t \in Transfers : transfer[t] \in {"none", "idle"}
  PROVE  InFlight = {} /\ Cardinality(InFlight) = 0
<1>1. InFlight = {}
  BY DEF InFlight
<1>2. QED
  BY <1>1, FS_EmptySet

LEMMA TypeInit == Init => TypeOK
<1> SUFFICES ASSUME Init PROVE TypeOK
  OBVIOUS
<1>1. 0 \in 0 .. DrainLimit /\ 0 \in 0 .. InPktLen
  BY UsbAssumption, SamplesAssumption DEF InPktLen, FrameBytes, SampleBytes
<1>2. elapsed \in 0 .. DrainLimit /\ capture.actual \in [Packets -> 0 .. InPktLen]
  <2>1. capture.actual = [i \in Packets |-> 0] /\ elapsed = 0
    BY DEF Init
  <2>2. QED
    BY <1>1, <2>1
<1>3. /\ pc \in {"down", "open", "claim", "alt", "submit", "run", "drain"}
      /\ held \subseteq {"ctx", "handle", "interface"} /\ unsubmitted \subseteq Transfers
      /\ running \in BOOLEAN /\ inFlight \in Nat /\ sine \in BOOLEAN
  BY DEF Init
<1>4. transfer \in [Transfers -> {"none", "idle", "pending", "done"}]
  BY DEF Init
<1>5. QED
  BY <1>2, <1>3, <1>4 DEF TypeOK

(* What the packets of a transfer can be.                                  *)
LEMMA CaptureType ==
  ASSUME TypeOK, NEW t \in Transfers, Captures(t)
  PROVE  capture'.actual \in [Packets -> 0 .. InPktLen]
<1>1. CASE UNCHANGED capture
  BY <1>1 DEF TypeOK
<1>2. CASE \E actual \in [Packets -> PacketLengths] :
             capture' = [actual |-> actual, frames |-> OnIn(actual, sine)]
  <2>1. PICK actual \in [Packets -> PacketLengths] :
          capture' = [actual |-> actual, frames |-> OnIn(actual, sine)]
    BY <1>2
  <2>2. capture'.actual = actual
    BY <2>1
  <2>3. PacketLengths \subseteq 0 .. InPktLen
    BY UsbAssumption
  <2>4. QED
    BY <2>2, <2>3
<1>3. QED
  BY <1>1, <1>2 DEF Captures

-----------------------------------------------------------------------------
(* start.                                                                  *)
LEMMA StartStep == EngineInv /\ Start => EngineInv'
<1> SUFFICES ASSUME EngineInv, Start PROVE EngineInv'
  OBVIOUS
<1> USE DEF EngineInv, Acquired, Untouched, NothingLeftBehind, InFlightExact
<1>1. CASE StartInit
  <2>1. TypeOK' /\ Acquired' /\ Untouched' /\ NothingLeftBehind'
    BY <1>1 DEF StartInit, TypeOK
  <2>2. \A t \in Transfers : transfer'[t] \in {"none", "idle"}
    BY <1>1 DEF StartInit
  <2>3. InFlight' = {} /\ inFlight' = 0
    BY <1>1, <2>2 DEF StartInit, InFlight
  <2>4. QED
    BY <2>1, <2>3, FS_EmptySet
<1>2. CASE StartOpen \/ StartClaim
  <2>1. TypeOK' /\ Acquired' /\ Untouched' /\ NothingLeftBehind'
    BY <1>2 DEF StartOpen, StartClaim, TypeOK
  <2>2. UNCHANGED <<inFlight, transfer>> /\ pc # "down"
    BY <1>2 DEF StartOpen, StartClaim
  <2>3. QED
    BY <2>1, <2>2 DEF InFlight
<1>3. CASE StartAlt
  <2>1. TypeOK' /\ Acquired' /\ Untouched' /\ NothingLeftBehind'
    BY <1>3 DEF StartAlt, TypeOK
  <2>2. InFlight' = {} /\ InFlight = {} /\ UNCHANGED inFlight /\ pc # "down"
    BY <1>3 DEF StartAlt, InFlight
  <2>3. QED
    BY <2>1, <2>2
<1>4. ASSUME NEW t \in Transfers, StartSubmit(t) PROVE EngineInv'
  <2>1. t \in unsubmitted /\ transfer[t] = "idle" /\ pc = "submit" /\ pc' = "submit"
    BY <1>4 DEF StartSubmit
  <2>2. CASE transfer' = [transfer EXCEPT ![t] = "pending"] /\ inFlight' = inFlight + 1
    <3>1. TypeOK' /\ Acquired' /\ Untouched' /\ NothingLeftBehind'
      BY <1>4, <2>1, <2>2 DEF StartSubmit, TypeOK
    <3>2. InFlight' = InFlight \cup {t} /\ t \notin InFlight
      BY <2>1, <2>2 DEF InFlight, TypeOK
    <3>3. Cardinality(InFlight \cup {t}) = Cardinality(InFlight) + 1
      BY <3>2, TransfersFinite, FS_AddElement
    <3>4. inFlight = Cardinality(InFlight)
      BY <2>1
    <3>5. QED
      BY <2>2, <3>1, <3>2, <3>3, <3>4
  <2>3. CASE UNCHANGED <<transfer, inFlight>>
    <3>1. TypeOK' /\ Acquired' /\ Untouched' /\ NothingLeftBehind'
      BY <1>4, <2>1, <2>3 DEF StartSubmit, TypeOK
    <3>2. QED
      BY <2>1, <2>3, <3>1 DEF InFlight
  <2>4. QED
    BY <1>4, <2>2, <2>3 DEF StartSubmit
<1>5. CASE StartFinish
  <2>1. TypeOK' /\ Acquired' /\ Untouched' /\ NothingLeftBehind'
    BY <1>5 DEF StartFinish, TypeOK
  <2>2. pc' # "down" => UNCHANGED <<transfer, inFlight>> /\ pc # "down"
    BY <1>5 DEF StartFinish
  <2>3. QED
    BY <2>1, <2>2 DEF InFlight
<1>6. QED
  BY <1>1, <1>2, <1>3, <1>4, <1>5 DEF Start

-----------------------------------------------------------------------------
(* The device and the callbacks.                                           *)
LEMMA CompleteStep ==
  ASSUME EngineInv, NEW t \in Transfers, Complete(t)
  PROVE  EngineInv'
<1> USE DEF EngineInv, Acquired, Untouched, NothingLeftBehind, InFlightExact
<1>1. TypeOK' /\ Acquired' /\ Untouched' /\ NothingLeftBehind'
  BY DEF Complete, TypeOK
<1>2. InFlight' = InFlight /\ UNCHANGED <<pc, inFlight>>
  BY DEF Complete, InFlight, TypeOK
<1>3. QED
  BY <1>1, <1>2

LEMMA CallbackStep ==
  ASSUME EngineInv, NEW t \in Transfers, Callback(t)
  PROVE  EngineInv'
<1> USE DEF EngineInv, Acquired, Untouched, NothingLeftBehind, InFlightExact
<1>1. capture'.actual \in [Packets -> 0 .. InPktLen]
  BY CaptureType DEF Callback
<1>2. /\ pc \in {"run", "drain"} /\ transfer[t] = "done"
      /\ UNCHANGED <<pc, held, unsubmitted, running, elapsed, sine>>
  BY DEF Callback
<1>3. t \in InFlight
  BY <1>2 DEF InFlight
<1>4. CASE transfer' = [transfer EXCEPT ![t] = "pending"] /\ UNCHANGED inFlight
  <2>1. InFlight' = InFlight
    BY <1>3, <1>4 DEF InFlight, TypeOK
  <2>2. QED
    BY <1>1, <1>2, <1>4, <2>1 DEF TypeOK
<1>5. CASE transfer' = [transfer EXCEPT ![t] = "idle"] /\ inFlight' = inFlight - 1
  <2>1. InFlight' = InFlight \ {t}
    BY <1>3, <1>5 DEF InFlight, TypeOK
  <2>2. inFlight' = Cardinality(InFlight') /\ inFlight' \in Nat
    <3>1. Cardinality(InFlight \ {t}) = Cardinality(InFlight) - 1
      BY <1>3, TransfersFinite, FS_RemoveElement
    <3>2. Cardinality(InFlight \ {t}) \in Nat
      BY TransfersFinite, FS_RemoveElement, FS_CardinalityType
    <3>3. QED
      BY <1>2, <1>5, <2>1, <3>1, <3>2
  <2>3. QED
    BY <1>1, <1>2, <1>5, <2>2 DEF TypeOK
<1>6. QED
  BY <1>4, <1>5 DEF Callback

-----------------------------------------------------------------------------
(* stop.                                                                   *)
LEMMA StopStep == EngineInv /\ Stop => EngineInv'
<1> SUFFICES ASSUME EngineInv, Stop PROVE EngineInv'
  OBVIOUS
<1> USE DEF EngineInv, Acquired, Untouched, NothingLeftBehind, InFlightExact
<1>1. CASE StopCancel
  <2>1. 0 \in 0 .. DrainLimit
    BY UsbAssumption
  <2>2. QED
    BY <1>1, <2>1 DEF StopCancel, TypeOK, InFlight
<1>2. CASE StopWaits
  <2>1. elapsed' \in 0 .. DrainLimit
    BY <1>2, UsbAssumption DEF StopWaits, TypeOK
  <2>2. QED
    BY <1>2, <2>1 DEF StopWaits, TypeOK, InFlight
<1>3. CASE StopRelease
  BY <1>3 DEF StopRelease, TypeOK
<1>4. QED
  BY <1>1, <1>2, <1>3 DEF Stop

-----------------------------------------------------------------------------
LEMMA EngineInvariant == Spec => []EngineInv
<1>1. Init => EngineInv
  BY TypeInit DEF Init, EngineInv, Acquired, Untouched, NothingLeftBehind, InFlightExact
<1>2. EngineInv /\ UNCHANGED vars => EngineInv'
  BY DEF EngineInv, TypeOK, Acquired, Untouched, NothingLeftBehind, InFlightExact, vars, InFlight
<1>3. EngineInv /\ [Next]_vars => EngineInv'
  BY <1>2, StartStep, StopStep, CompleteStep, CallbackStep DEF Next
<1>4. QED
  BY <1>1, <1>3, PTL DEF Spec

(* Every variable keeps its type; in_flight never goes below zero.         *)
THEOREM TypeCorrect == Spec => []TypeOK
<1>1. EngineInv => TypeOK
  BY DEF EngineInv
<1>2. QED
  BY <1>1, EngineInvariant, PTL

(* in_flight is exact for any number of transfers, through partial starts, *)
(* failed resubmissions and the drain.                                     *)
THEOREM CountExact == Spec => []InFlightExact
<1>1. EngineInv => InFlightExact
  BY DEF EngineInv
<1>2. QED
  BY <1>1, EngineInvariant, PTL

(* No path through start or stop leaves a resource or a transfer behind.   *)
THEOREM NothingLeaks == Spec => []NothingLeftBehind
<1>1. EngineInv => NothingLeftBehind
  BY DEF EngineInv
<1>2. QED
  BY <1>1, EngineInvariant, PTL

-----------------------------------------------------------------------------
(* The abstract engine.  Before the engine runs and after it has stopped   *)
(* the abstract one sees only who has the interface.                       *)
LEMMA StartShown == EngineInv /\ Start => [Engine!Next]_(Engine!vars)
<1> SUFFICES ASSUME EngineInv, Start PROVE [Engine!Next]_(Engine!vars)
  OBVIOUS
<1> USE DEF EngineInv, Acquired, NothingLeftBehind
<1>1. CASE StartInit \/ StartOpen
  BY <1>1 DEF StartInit, StartOpen, Engine!vars
<1>2. CASE StartClaim
  <2>1. CASE pc' = "alt" /\ held' = held \cup {"interface"}
    BY <1>2, <2>1 DEF StartClaim, Engine!Claims, Engine!Next
  <2>2. CASE pc' = "down" /\ held' = held \ {"handle", "ctx"}
    BY <1>2, <2>2 DEF StartClaim, Engine!vars
  <2>3. QED
    BY <1>2, <2>1, <2>2 DEF StartClaim
<1>3. CASE StartAlt
  <2>1. CASE pc' = "submit" /\ UNCHANGED held
    BY <1>3, <2>1 DEF StartAlt, Engine!vars
  <2>2. CASE pc' = "down" /\ held' = held \ {"interface", "handle", "ctx"}
    BY <1>3, <2>2 DEF StartAlt, Engine!StartFails, Engine!Next
  <2>3. QED
    BY <1>3, <2>1, <2>2 DEF StartAlt
<1>4. CASE \E t \in Transfers : StartSubmit(t)
  BY <1>4 DEF StartSubmit, Engine!vars
<1>5. CASE StartFinish
  <2>1. CASE inFlight > 0 /\ pc' = "run" /\ UNCHANGED <<held, transfer>>
    <3>1. InFlight' = InFlight
      BY <2>1 DEF InFlight
    <3>2. InFlight # {}
      BY <1>5, <2>1, FS_EmptySet DEF StartFinish, InFlightExact
    <3>3. InFlight \in (SUBSET Transfers) \ {{}}
      <4>1. InFlight \in SUBSET Transfers
        BY DEF InFlight
      <4>2. InFlight \notin {{}}
        BY <3>2
      <4>3. QED
        BY <4>1, <4>2
    <3>4. QED
      BY <1>5, <2>1, <3>1, <3>3 DEF StartFinish, Engine!Starts, Engine!Next
  <2>2. CASE pc' = "down" /\ held' = held \ {"interface", "handle", "ctx"}
    BY <1>5, <2>2 DEF StartFinish, Engine!StartFails, Engine!Next
  <2>3. QED
    BY <1>5, <2>1, <2>2 DEF StartFinish
<1>6. QED
  BY <1>1, <1>2, <1>3, <1>4, <1>5 DEF Start

(* A transfer that is resubmitted has not left.                            *)
LEMMA TransferShown ==
  ASSUME EngineInv, NEW t \in Transfers, Complete(t) \/ Callback(t)
  PROVE  [Engine!Next]_(Engine!vars)
<1> USE DEF EngineInv, TypeOK
<1>1. UNCHANGED <<pc, held, elapsed>>
  BY DEF Complete, Callback
<1>2. CASE transfer[t] \in {"pending", "done"} /\ transfer'[t] \in {"pending", "done"}
           /\ transfer' = [transfer EXCEPT ![t] = transfer'[t]]
  <2>1. InFlight' = InFlight
    BY <1>2 DEF InFlight
  <2>2. QED
    BY <1>1, <2>1 DEF Engine!vars
<1>3. CASE pc \in {"run", "drain"} /\ transfer[t] = "done"
           /\ transfer' = [transfer EXCEPT ![t] = "idle"]
  <2>1. InFlight' = InFlight \ {t} /\ t \in InFlight
    BY <1>3 DEF InFlight
  <2>2. Engine!Leaves(t)
    BY <1>1, <1>3, <2>1 DEF Engine!Leaves
  <2>3. QED
    BY <2>2 DEF Engine!Next
<1>4. QED
  BY <1>2, <1>3 DEF Complete, Callback

(* The counter stop reads is zero exactly when no transfer circulates.     *)
LEMMA StopShown == EngineInv /\ Stop => [Engine!Next]_(Engine!vars)
<1> SUFFICES ASSUME EngineInv, Stop PROVE [Engine!Next]_(Engine!vars)
  OBVIOUS
<1> USE DEF EngineInv, Acquired
<1>1. pc # "down" => inFlight \in Nat /\ (inFlight = 0 <=> InFlight = {})
  BY TransfersFinite, FS_EmptySet DEF InFlightExact, TypeOK
<1>2. CASE StopCancel
  <2>1. InFlight' = InFlight
    BY <1>2 DEF StopCancel, InFlight
  <2>2. QED
    BY <1>2, <2>1 DEF StopCancel, Engine!Cancels, Engine!Next
<1>3. CASE StopWaits
  <2>1. InFlight' = InFlight /\ InFlight # {}
    BY <1>1, <1>3 DEF StopWaits, InFlight
  <2>2. QED
    BY <1>3, <2>1 DEF StopWaits, Engine!Waits, Engine!Next
<1>4. CASE StopRelease
  <2>1. InFlight = {} \/ elapsed = DrainLimit
    BY <1>1, <1>4 DEF StopRelease, DrainEnds
  <2>2. QED
    BY <1>4, <2>1 DEF StopRelease, Engine!Stops, Engine!Next
<1>5. QED
  BY <1>2, <1>3, <1>4 DEF Stop

(* start, the callbacks and stop implement the abstract engine, for any    *)
(* transfers, any drain limit and whatever libusb refuses.                 *)
THEOREM UsbImplementsEngine == Spec => Implements
<1>1. Init => Engine!Init
  BY DEF Init, Engine!Init
<1>2. EngineInv /\ [Next]_vars => [Engine!Next]_(Engine!vars)
  <2>1. EngineInv /\ UNCHANGED vars => [Engine!Next]_(Engine!vars)
    BY DEF vars, Engine!vars, InFlight
  <2>2. QED
    BY <2>1, StartShown, TransferShown, StopShown DEF Next
<1>3. QED
  BY <1>1, <1>2, EngineInvariant, PTL DEF Spec, Implements, Engine!Spec

-----------------------------------------------------------------------------
(* The drain.  What is left of it: the time, a completion for every        *)
(* transfer libusb still owns, and a callback for every one in flight.     *)
Pending == {t \in Transfers : transfer[t] = "pending"}
DrainWork == (DrainLimit - elapsed) + Cardinality(Pending) + Cardinality(InFlight)

(* Every step of the daemon, of libusb and of the device during a drain    *)
(* uses up some of what is left: no callback resubmits, so that stop       *)
(* cannot go round its loop more than DrainLimit times, and libusb answers *)
(* at most twice for each transfer.                                        *)
DrainProgresses ==
  [][pc = "drain" /\ pc' = "drain" =>
       DrainWork \in Nat /\ DrainWork' \in Nat /\ DrainWork' < DrainWork]_vars

LEMMA Sizes ==
  ASSUME TypeOK
  PROVE  /\ IsFiniteSet(Pending) /\ Cardinality(Pending) \in Nat
         /\ IsFiniteSet(InFlight) /\ Cardinality(InFlight) \in Nat
         /\ DrainLimit - elapsed \in Nat /\ DrainWork \in Nat
<1>1. Pending \subseteq Transfers
  BY DEF Pending
<1>2. DrainLimit - elapsed \in Nat
  BY UsbAssumption DEF TypeOK
<1>3. QED
  BY <1>1, <1>2, TransfersFinite, FS_Subset, FS_CardinalityType DEF DrainWork

LEMMA DrainStep ==
  ASSUME EngineInv, Next, pc = "drain", pc' = "drain"
  PROVE  DrainWork' \in Nat /\ DrainWork' < DrainWork
<1> USE DEF EngineInv
<1>0. /\ Cardinality(Pending) \in Nat /\ Cardinality(InFlight) \in Nat
      /\ DrainLimit - elapsed \in Nat /\ elapsed \in Nat /\ DrainLimit \in Nat
  BY Sizes, UsbAssumption DEF TypeOK
<1>1. ~running
  BY DEF Acquired
<1>2. CASE StopWaits
  <2>1. Pending' = Pending /\ InFlight' = InFlight /\ elapsed' = elapsed + 1
    BY <1>2 DEF StopWaits, Pending, InFlight
  <2>2. elapsed < DrainLimit
    BY <1>2 DEF StopWaits
  <2>3. QED
    BY <1>0, <2>1, <2>2 DEF DrainWork
<1>3. ASSUME NEW t \in Transfers, Complete(t) PROVE DrainWork' \in Nat /\ DrainWork' < DrainWork
  <2>1. Pending' = Pending \ {t} /\ t \in Pending
    BY <1>3 DEF Complete, Pending, TypeOK
  <2>2. InFlight' = InFlight /\ elapsed' = elapsed
    BY <1>3 DEF Complete, InFlight, TypeOK
  <2>3. Cardinality(Pending') = Cardinality(Pending) - 1 /\ Cardinality(Pending') \in Nat
    BY <2>1, Sizes, FS_RemoveElement, FS_CardinalityType
  <2>4. QED
    BY <1>0, <2>2, <2>3 DEF DrainWork
<1>4. ASSUME NEW t \in Transfers, Callback(t) PROVE DrainWork' \in Nat /\ DrainWork' < DrainWork
  <2>1. transfer[t] = "done" /\ transfer' = [transfer EXCEPT ![t] = "idle"]
        /\ elapsed' = elapsed
    BY <1>1, <1>4 DEF Callback
  <2>2. Pending' = Pending
    BY <2>1 DEF Pending, TypeOK
  <2>3. InFlight' = InFlight \ {t} /\ t \in InFlight
    BY <2>1 DEF InFlight, TypeOK
  <2>4. Cardinality(InFlight') = Cardinality(InFlight) - 1 /\ Cardinality(InFlight') \in Nat
    BY <2>3, Sizes, FS_RemoveElement, FS_CardinalityType
  <2>5. QED
    BY <1>0, <2>1, <2>2, <2>4 DEF DrainWork
<1>5. QED
  BY <1>2, <1>3, <1>4 DEF Next, Start, StartInit, StartOpen, StartClaim, StartAlt, StartSubmit,
     StartFinish, Stop, StopCancel, StopRelease

(* A drain uses itself up, for any transfers and drain limit.              *)
THEOREM DrainUsedUp == Spec => DrainProgresses
<1>1. EngineInv /\ [Next]_vars =>
        [pc = "drain" /\ pc' = "drain" =>
           DrainWork \in Nat /\ DrainWork' \in Nat /\ DrainWork' < DrainWork]_vars
  BY DrainStep, Sizes DEF EngineInv
<1>2. QED
  BY <1>1, EngineInvariant, PTL DEF Spec, DrainProgresses

-----------------------------------------------------------------------------
(* The samples.  Division by a frame's length, for any number of channels. *)
LEMMA Division ==
  ASSUME NEW a \in Nat, NEW d \in Nat, d > 0
  PROVE  /\ a \div d \in Nat
         /\ d * (a \div d) <= a /\ a < d * (a \div d) + d
         /\ a - (a % d) = d * (a \div d)
<1>1. a \div d \in Nat /\ d * (a \div d) \in Nat
  OBVIOUS
<1>2. d * (a \div d) <= a
  OBVIOUS
<1>3. a < d * (a \div d) + d
  OBVIOUS
<1>4. a - (a % d) = d * (a \div d)
  <2> DEFINE q == a \div d
             r == a - d * q
  <2>1. r \in Nat /\ r < d /\ a = d * q + r
    BY <1>1, <1>2, <1>3
  <2>2. q \in Nat
    BY <1>1
  <2> HIDE DEF q, r
  <2>3. (d * q + r) % d = r
    BY <2>1, <2>2
  <2>4. a % d = r /\ d * q \in Nat
    BY <2>1, <2>2, <2>3
  <2>5. a - r = d * q
    BY <2>1, <2>4
  <2>6. a - (a % d) = d * q
    BY <2>4, <2>5
  <2>7. QED
    BY <2>6 DEF q
<1>5. QED
  BY <1>1, <1>2, <1>3, <1>4

LEMMA Remainder ==
  ASSUME NEW q \in Nat, NEW r \in Nat, NEW d \in Nat, d > 0, r < d
  PROVE  (d * q + r) \div d = q /\ (d * q + r) % d = r
<1>1. (d * q + r) \div d = q
  OBVIOUS
<1>2. (d * q + r) % d = r
  OBVIOUS
<1>3. QED
  BY <1>1, <1>2

LEMMA FrameSize ==
  /\ Channels \in Nat /\ FrameBytes \in Nat /\ FrameBytes > 0 /\ FrameBytes = 3 * Channels
  /\ InPktLen \in Nat
  BY SamplesAssumption DEF FrameBytes, SampleBytes, InPktLen

(* The last transfer's frames are those of its packets.                    *)
CaptureInv == TypeOK /\ capture.frames = OnIn(capture.actual, sine)

LEMMA CaptureInvariant == Spec => []CaptureInv
<1>1. Init => capture.frames = OnIn(capture.actual, sine)
  <2> SUFFICES ASSUME Init PROVE capture.frames = OnIn(capture.actual, sine)
    OBVIOUS
  <2>1. capture.frames = [i \in Packets |-> <<>>] /\ \A i \in Packets : capture.actual[i] = 0
    BY DEF Init
  <2>2. Whole(0) = 0 /\ 0 \div FrameBytes = 0
    BY FrameSize DEF Whole
  <2>3. \A i \in Packets : PushSine(0) = <<>> /\ PushFrames(i * InPktLen, 0) = <<>>
    BY <2>2 DEF PushSine, PushFrames
  <2>4. QED
    BY <2>1, <2>2, <2>3 DEF OnIn
<1>2. CaptureInv /\ [Next]_vars => (capture.frames = OnIn(capture.actual, sine))'
  <2> SUFFICES ASSUME CaptureInv, [Next]_vars
               PROVE  (capture.frames = OnIn(capture.actual, sine))'
    OBVIOUS
  <2>1. UNCHANGED sine
    BY DEF Next, Start, StartInit, StartOpen, StartClaim, StartAlt, StartSubmit, StartFinish,
           Stop, StopCancel, StopWaits, StopRelease, Complete, Callback, vars
  <2>2. UNCHANGED capture \/ \E t \in Transfers : Captures(t)
    BY DEF Next, Start, StartInit, StartOpen, StartClaim, StartAlt, StartSubmit, StartFinish,
           Stop, StopCancel, StopWaits, StopRelease, Complete, Callback, vars
  <2>3. QED
    BY <2>1, <2>2 DEF CaptureInv, Captures
<1>3. QED
  BY <1>1, <1>2, TypeCorrect, PTL DEF Spec, CaptureInv

(* What FramesAligned says of one packet of a bytes at start.              *)
Aligned(frames, start, a) ==
  /\ \A f \in DOMAIN frames, ch \in 0 .. Channels - 1 :
       LET o == frames[f][ch] - start IN
       /\ o >= 0 /\ o + SampleBytes <= a
       /\ o % FrameBytes = ch * SampleBytes
       /\ f > 1 => frames[f][ch] = frames[f - 1][ch] + FrameBytes
  /\ FrameBytes * (Len(frames) + 1) > a

LEMMA PacketAligned ==
  ASSUME NEW a \in Nat, NEW start \in Nat
  PROVE  Aligned(PushFrames(start, Whole(a)), start, a)
<1> DEFINE q == a \div FrameBytes
           frames == PushFrames(start, Whole(a))
           At(f, ch) == start + (f - 1) * FrameBytes + ch * SampleBytes
<1>1. q \in Nat /\ FrameBytes * q <= a /\ a < FrameBytes * q + FrameBytes
      /\ Whole(a) = FrameBytes * q
  BY FrameSize, Division DEF Whole
<1>2. Whole(a) \div FrameBytes = q
  <2>1. (FrameBytes * q + 0) \div FrameBytes = q
    BY <1>1, FrameSize, Remainder
  <2>2. FrameBytes * q + 0 = FrameBytes * q
    BY <1>1, FrameSize
  <2>3. QED
    BY <1>1, <2>1, <2>2
<1>3. frames = [f \in 1 .. q |-> [ch \in 0 .. Channels - 1 |-> At(f, ch)]]
  BY <1>2 DEF PushFrames
<1>4. DOMAIN frames = 1 .. q /\ Len(frames) = q
  BY <1>1, <1>3
<1>5. \A f \in 1 .. q, ch \in 0 .. Channels - 1 : frames[f][ch] = At(f, ch)
  BY <1>3
<1> HIDE DEF q, frames
<1>6. ASSUME NEW f \in 1 .. q, NEW ch \in 0 .. Channels - 1
      PROVE  LET o == frames[f][ch] - start IN
             /\ o >= 0 /\ o + SampleBytes <= a
             /\ o % FrameBytes = ch * SampleBytes
             /\ f > 1 => frames[f][ch] = frames[f - 1][ch] + FrameBytes
  <2> DEFINE o == FrameBytes * (f - 1) + ch * SampleBytes
  <2>1. /\ f - 1 \in Nat /\ ch * SampleBytes \in Nat /\ f \in Nat /\ f <= q
        /\ ch * SampleBytes + SampleBytes <= FrameBytes /\ ch \in Nat /\ SampleBytes = 3
    BY <1>1, FrameSize DEF SampleBytes
  <2>2. o \in Nat /\ At(f, ch) = start + o
    BY <2>1, FrameSize
  <2>3. o % FrameBytes = ch * SampleBytes
    <3>1. ch * SampleBytes < FrameBytes
      BY <2>1, FrameSize
    <3>2. QED
      BY <2>1, <3>1, FrameSize, Remainder
  <2>4. o + SampleBytes <= a
    <3>1. o + SampleBytes <= FrameBytes * (f - 1) + FrameBytes
      BY <2>1, <2>2, FrameSize
    <3>2. FrameBytes * (f - 1) + FrameBytes = FrameBytes * f
      BY <2>1, FrameSize
    <3>3. FrameBytes * f <= FrameBytes * q
      BY <1>1, <2>1, FrameSize
    <3>4. FrameBytes * f \in Nat /\ FrameBytes * q \in Nat
      BY <1>1, <2>1, FrameSize
    <3>5. QED
      BY <1>1, <2>1, <2>2, <3>1, <3>2, <3>3, <3>4
  <2>5. ASSUME f > 1
        PROVE  frames[f][ch] = frames[f - 1][ch] + FrameBytes
    <3>1. f - 1 \in 1 .. q
      BY <1>1, <2>1, <2>5
    <3>2. frames[f - 1][ch] = At(f - 1, ch)
      BY <1>5, <3>1
    <3>3. At(f, ch) = At(f - 1, ch) + FrameBytes
      BY <2>1, <3>1, FrameSize
    <3>4. QED
      BY <1>5, <3>2, <3>3
  <2>6. frames[f][ch] - start = o
    BY <1>5, <2>2
  <2> HIDE DEF o
  <2>7. QED
    BY <2>2, <2>3, <2>4, <2>5, <2>6
<1>7. FrameBytes * (Len(frames) + 1) > a
  <2>1. FrameBytes * (q + 1) = FrameBytes * q + FrameBytes
    BY <1>1, FrameSize
  <2>2. QED
    BY <1>1, <1>4, <2>1, FrameSize
<1>8. QED
  BY <1>4, <1>6, <1>7 DEF frames, Aligned

(* For any number of channels, packets and frames per packet, on_in keeps  *)
(* the channels apart and loses no whole frame.                            *)
THEOREM ChannelsKeptApart == Spec => []FramesAligned
<1>1. CaptureInv => FramesAligned
  <2> SUFFICES ASSUME CaptureInv, ~sine, NEW i \in Packets
               PROVE  Aligned(capture.frames[i], i * InPktLen, capture.actual[i])
    BY DEF FramesAligned, Aligned
  <2>1. capture.frames[i] = PushFrames(i * InPktLen, Whole(capture.actual[i]))
    BY DEF CaptureInv, OnIn
  <2>2. i * InPktLen \in Nat
    BY FrameSize, SamplesAssumption DEF Packets
  <2>3. capture.actual[i] \in Nat
    BY FrameSize DEF CaptureInv, TypeOK
  <2>4. QED
    BY <2>1, <2>2, <2>3, PacketAligned
<1>2. QED
  BY <1>1, CaptureInvariant, PTL

(* With bytes of 256 values, s24_to_f32 is exact on all 2^24 samples.      *)
THEOREM ConversionExact ==
  ASSUME ByteSize = 256
  PROVE  Spec => []SamplesExact
<1>1. ASSUME NEW b0 \in 0 .. 255, NEW b1 \in 0 .. 255, NEW b2 \in 0 .. 255
      PROVE  SampleOf(b0, b1, b2) = S24(b0, b1, b2)
  BY DEF SampleOf, S24, Signed
<1>2. SamplesExact
  <2>1. \A b \in [1 .. SampleBytes -> Byte] :
          b[1] \in 0 .. 255 /\ b[2] \in 0 .. 255 /\ b[3] \in 0 .. 255
    BY DEF SampleBytes, Byte
  <2>2. QED
    BY <1>1, <2>1 DEF SamplesExact
<1>3. QED
  BY <1>2, PTL
=============================================================================
