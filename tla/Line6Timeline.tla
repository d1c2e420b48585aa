---------------------------- MODULE Line6Timeline ----------------------------
(***************************************************************************)
(* The device's clock as the host sees it: StartIO anchors a session at    *)
(* the host time, GetZeroTimeStamp counts the periods since.               *)
(*                                                                         *)
(* The count moves by at most one period per call, so what a host is told  *)
(* depends on how it calls.  It calls as haltest's iosim does and as the   *)
(* HAL's IO threads do: one call per buffer, on a schedule that is fixed   *)
(* when the thread starts; a thread that wakes late makes the calls it     *)
(* missed one after the other.  Several clients share the one count.       *)
(*                                                                         *)
(* Ticks per frame are a fraction, and the Float64 products of the code    *)
(* are exact: with fewer than 2^53 ticks they are rounded by less than a   *)
(* tick.                                                                   *)
(***************************************************************************)
EXTENDS Integers, FiniteSets

CONSTANTS
  TicksNum,        \* gHostTicksPerFrame as a fraction: numerator,
  TicksDen,        \* denominator
  RingPeriod,      \* kDevice_RingPeriod
  Buffer,          \* frames per IO cycle
  Clients,         \* the IO threads of the host
  Pauses,          \* by how much the clock may advance between two steps
  MaxTime          \* bound: host time

ASSUME TimelineAssumption ==
  /\ TicksNum \in Nat \ {0} /\ TicksDen \in Nat \ {0}
  /\ RingPeriod \in Nat \ {0}
  /\ Buffer \in 1 .. RingPeriod
  /\ IsFiniteSet(Clients)
  /\ Pauses \subseteq Nat
  /\ MaxTime \in Nat

VARIABLES
  now,                \* mach_absolute_time
  gIORunning,         \* gIO_Running
  gAnchorHostTime,
  gNumberTimeStamps,
  client,             \* each IO thread: off, started, or on its schedule, and then
                      \* when that began and when its next call is due
  stamp               \* the last outSampleTime and outHostTime, and the anchor then

pluginVars == <<gIORunning, gAnchorHostTime, gNumberTimeStamps>>
vars == <<now, pluginVars, client, stamp>>

Off == [pc |-> "off", start |-> 0, next |-> 0]

Init ==
  /\ now = 0
  /\ gIORunning = 0
  /\ gAnchorHostTime = 0
  /\ gNumberTimeStamps = 0
  /\ client = [c \in Clients |-> Off]
  /\ stamp = [sample |-> 0, host |-> 0, anchor |-> 0]

(* Mutant: the product of truncated factors.                               *)
TicksTruncated(frames) == frames * (TicksNum \div TicksDen)

(* A number of frames in ticks, truncated as the casts to UInt64 do.       *)
Ticks(frames) == (frames * TicksNum) \div TicksDen

PeriodStart(n) == gAnchorHostTime + Ticks(n * RingPeriod)

TickPerBuf == Ticks(Buffer)

-----------------------------------------------------------------------------
ClockAdvances ==
  /\ \E d \in Pauses : now' = now + d /\ now' <= MaxTime
  /\ UNCHANGED <<pluginVars, client, stamp>>

(* Mutant: a new session starts the count but not the anchor.              *)
StartIOKeepsAnchor(c) ==
  /\ client[c].pc = "off"
  /\ gNumberTimeStamps' = IF gIORunning = 0 THEN 0 ELSE gNumberTimeStamps
  /\ gIORunning' = gIORunning + 1
  /\ client' = [client EXCEPT ![c] = [Off EXCEPT !.pc = "started"]]
  /\ UNCHANGED <<now, gAnchorHostTime, stamp>>

(* StartIO: the first client anchors the timeline.                         *)
StartIO(c) ==
  /\ client[c].pc = "off"
  /\ \/ gIORunning = 0 /\ gAnchorHostTime' = now /\ gNumberTimeStamps' = 0
     \/ gIORunning > 0 /\ UNCHANGED <<gAnchorHostTime, gNumberTimeStamps>>
  /\ gIORunning' = gIORunning + 1
  /\ client' = [client EXCEPT ![c] = [Off EXCEPT !.pc = "started"]]
  /\ UNCHANGED <<now, stamp>>

(* The IO thread fixes its schedule: the first call a buffer from now.     *)
Schedule(c) ==
  /\ client[c].pc = "started"
  /\ client' = [client EXCEPT ![c] = [pc |-> "paced", start |-> now, next |-> now + TickPerBuf]]
  /\ UNCHANGED <<now, pluginVars, stamp>>

(* Mutants: the count moves with every call; it moves only when the next   *)
(* period is over as well.                                                 *)
StampsUnasked == gNumberTimeStamps + 1
StampsLate ==
  IF now >= PeriodStart(gNumberTimeStamps + 2) THEN gNumberTimeStamps + 1 ELSE gNumberTimeStamps

(* The count after a call: one more if the next period has begun.          *)
StampsNow ==
  IF now >= PeriodStart(gNumberTimeStamps + 1) THEN gNumberTimeStamps + 1 ELSE gNumberTimeStamps

(* A call that is due: GetZeroTimeStamp (the DoIO that follows it is       *)
(* Line6Ring's subject), and the schedule moves on by a buffer.            *)
GetZeroTimeStamp(c) ==
  /\ client[c].pc = "paced"
  /\ now >= client[c].next
  /\ gNumberTimeStamps' = StampsNow
  /\ stamp' = [sample |-> StampsNow * RingPeriod, host |-> PeriodStart(StampsNow),
               anchor |-> gAnchorHostTime]
  /\ client' = [client EXCEPT ![c].next = @ + TickPerBuf]
  /\ UNCHANGED <<now, gIORunning, gAnchorHostTime>>

StopIO(c) ==
  /\ client[c].pc \in {"started", "paced"}
  /\ gIORunning' = IF gIORunning > 0 THEN gIORunning - 1 ELSE 0
  /\ client' = [client EXCEPT ![c] = Off]
  /\ UNCHANGED <<now, gAnchorHostTime, gNumberTimeStamps, stamp>>

Next ==
  \/ ClockAdvances
  \/ \E c \in Clients : StartIO(c) \/ Schedule(c) \/ GetZeroTimeStamp(c) \/ StopIO(c)

Spec == Init /\ [][Next]_vars

-----------------------------------------------------------------------------
(* Properties.                                                             *)

(* Every variable has its type.                                            *)
TypeOK ==
  /\ now \in Nat /\ gIORunning \in Nat
  /\ gAnchorHostTime \in Nat /\ gNumberTimeStamps \in Nat
  /\ client \in [Clients -> [pc : {"off", "started", "paced"}, start : Nat, next : Nat]]
  /\ stamp \in [sample : Nat, host : Nat, anchor : Nat]

(* GetZeroTimeStamp never tells of a moment that is still to come.         *)
NeverAhead == stamp.host <= now /\ PeriodStart(gNumberTimeStamps) <= now

(* docs/ARCHITECTURE.md:78, "every period boundary lies exactly on a line  *)
(* through the anchor": the truncation is of less than a tick, and does    *)
(* not add up however long the session runs.                               *)
OnTheLine ==
  LET ticks == stamp.host - stamp.anchor
  IN  ticks * TicksDen <= stamp.sample * TicksNum
      /\ stamp.sample * TicksNum < (ticks + 1) * TicksDen

(* One period per call is enough: whatever pauses an IO thread makes, and  *)
(* however many clients come and go, the timeline lags less than a period  *)
(* behind the schedule of a thread that began it in the session's first.   *)
KeepsPace ==
  \A c \in Clients :
    client[c].pc = "paced" /\ client[c].start < PeriodStart(1) =>
      client[c].next - TickPerBuf < PeriodStart(gNumberTimeStamps + 1)

(* docs/ARCHITECTURE.md:77, "stable, monotone": of two answers the later   *)
(* never names an earlier host time, not even across sessions, and within  *)
(* one never an earlier sample.                                            *)
Monotone ==
  [][/\ stamp'.host >= stamp.host
     /\ stamp'.anchor = stamp.anchor => stamp'.sample >= stamp.sample]_vars
=============================================================================
