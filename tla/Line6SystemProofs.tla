-------------------------- MODULE Line6SystemProofs --------------------------
(***************************************************************************)
(* What the periods of the daemon's and the monitor's clocks imply for     *)
(* each other, for any periods: how late the monitor withdraws a device,   *)
(* that it sees frames that flow, what the daemon's grace must be for its  *)
(* exit to leave no device listed, what the watchdog must be for a short   *)
(* recovery to stay unseen, and the retry sleep for the device to be back  *)
(* in time; and that this daemon and monitor are runs of the abstract ones. *)
(***************************************************************************)
EXTENDS Line6System, Integers, TLAPS

Limits == {WatchdogStall, DrainLimit, RetrySleep, ExitGrace, PollPeriod, StallMax}

DaemonType ==
  [pc : {"off", "exited", "look", "capture", "drain", "sleep"}, t : Nat, absent : Nat,
   fresh : BOOLEAN, onDemand : BOOLEAN]

(* The ticks since the last poll.                                          *)
SincePoll == PollPeriod - monitor.t

Types ==
  /\ daemon \in DaemonType
  /\ monitor \in [t : 0 .. PollPeriod, moved : BOOLEAN, stall : 0 .. StallMax]
  /\ gDevicePresent \in BOOLEAN
  /\ still \in Nat /\ flowing \in Nat

(* The stall count measures the time without growth from below and, up to  *)
(* its limit, from above.                                                  *)
MonitorClock ==
  /\ gDevicePresent <=> monitor.stall < StallMax
  /\ monitor.moved => still <= SincePoll
  /\ ~monitor.moved => monitor.stall * PollPeriod + SincePoll <= still
  /\ ~monitor.moved /\ monitor.stall < StallMax =>
       still <= (monitor.stall + 1) * PollPeriod + SincePoll

(* A flow that has lasted since before the last poll was seen by it.       *)
FlowClock ==
  /\ flowing > 0 /\ SincePoll > 0 => monitor.moved
  /\ flowing > SincePoll => gDevicePresent

MonitorInv == Types /\ MonitorClock /\ FlowClock

(* Every look that found nothing, but the last, cost a sleep without       *)
(* growth.                                                                 *)
GraceClock ==
  /\ daemon.pc \in {"capture", "drain"} => daemon.absent = 0
  /\ daemon.pc = "look" => daemon.absent * RetrySleep <= still \/ WithdrawnBy < still
  /\ daemon.pc = "sleep" =>
       \/ daemon.absent = 0
       \/ daemon.absent * RetrySleep + daemon.t <= still + RetrySleep
       \/ WithdrawnBy < still
  /\ daemon.pc = "exited" => WithdrawnBy < still

-----------------------------------------------------------------------------
LEMMA Constants ==
  /\ \A k \in Limits : k \in Nat /\ k > 0
  /\ PollPeriod \in Nat /\ PollPeriod > 0 /\ StallMax \in Nat /\ StallMax > 0
  /\ RetrySleep \in Nat /\ RetrySleep > 0 /\ ExitGrace \in Nat /\ ExitGrace > 0
  /\ WithdrawnBy \in Nat /\ WithdrawnBy = StallMax * PollPeriod + PollPeriod
  /\ \A k \in Nat : k * PollPeriod \in Nat /\ (k + 1) * PollPeriod = k * PollPeriod + PollPeriod
  /\ \A k \in Nat : k * RetrySleep \in Nat /\ (k + 1) * RetrySleep = k * RetrySleep + RetrySleep
<1>1. \A k \in Limits : k \in Nat /\ k > 0
  BY SystemAssumption DEF Limits
<1>2. /\ PollPeriod \in Nat /\ PollPeriod > 0 /\ StallMax \in Nat /\ StallMax > 0
      /\ RetrySleep \in Nat /\ RetrySleep > 0 /\ ExitGrace \in Nat /\ ExitGrace > 0
  BY <1>1 DEF Limits
<1>3. \A k \in Nat : k * PollPeriod \in Nat /\ (k + 1) * PollPeriod = k * PollPeriod + PollPeriod
  BY <1>2
<1>4. \A k \in Nat : k * RetrySleep \in Nat /\ (k + 1) * RetrySleep = k * RetrySleep + RetrySleep
  BY <1>2
<1>5. WithdrawnBy \in Nat /\ WithdrawnBy = StallMax * PollPeriod + PollPeriod
  BY <1>2, <1>3 DEF WithdrawnBy
<1>6. QED
  BY <1>1, <1>2, <1>3, <1>4, <1>5

LEMMA MonitorInit == Init => MonitorInv /\ GraceClock
<1> SUFFICES ASSUME Init PROVE MonitorInv /\ GraceClock
  OBVIOUS
<1>1. /\ daemon.pc = "off" /\ daemon \in DaemonType
      /\ monitor = [t |-> PollPeriod, moved |-> TRUE, stall |-> 0]
      /\ gDevicePresent = TRUE /\ still = 0 /\ flowing = 0
  <2>1. daemon \in [pc : {"off"}, t : {0}, absent : {0}, fresh : {TRUE}, onDemand : ExitWhenAbsent]
    BY DEF Init
  <2>2. ExitWhenAbsent \subseteq BOOLEAN
    BY SystemAssumption
  <2>3. daemon.pc = "off" /\ daemon \in DaemonType
    <3>1. /\ daemon = [pc |-> daemon.pc, t |-> daemon.t, absent |-> daemon.absent,
                       fresh |-> daemon.fresh, onDemand |-> daemon.onDemand]
          /\ daemon.pc = "off" /\ daemon.t = 0 /\ daemon.absent = 0 /\ daemon.fresh = TRUE
          /\ daemon.onDemand \in ExitWhenAbsent
      BY <2>1
    <3>2. daemon.onDemand \in BOOLEAN
      BY <2>2, <3>1
    <3>3. /\ daemon.pc \in {"off", "exited", "look", "capture", "drain", "sleep"}
          /\ daemon.t \in Nat /\ daemon.absent \in Nat
      BY <3>1
    <3>4. daemon.fresh \in BOOLEAN
      BY <3>1, Zenon
    <3>5. daemon \in DaemonType
      BY <3>1, <3>2, <3>3, <3>4, Zenon DEF DaemonType
    <3>6. QED
      BY <3>1, <3>5
  <2>4. QED
    BY <2>3 DEF Init
<1>2. QED
  BY <1>1, Constants DEF MonitorInv, Types, MonitorClock, FlowClock, GraceClock, SincePoll

-----------------------------------------------------------------------------
(* What each step does to the monitor's state and to the histories it is   *)
(* compared with.                                                          *)
LEMMA TickDoes ==
  ASSUME MonitorInv, Tick
  PROVE  /\ monitor.t > 0 /\ UNCHANGED gDevicePresent
         /\ monitor' = [monitor EXCEPT !.t = monitor.t - 1, !.moved = monitor.moved \/ Growing]
         /\ monitor'.t = monitor.t - 1 /\ monitor'.moved = (monitor.moved \/ Growing)
         /\ monitor'.stall = monitor.stall
         /\ still' = IF Growing THEN 0 ELSE IF still < WithdrawnBy + 1 THEN still + 1 ELSE still
         /\ flowing' = IF Growing THEN IF flowing < PollPeriod + 1 THEN flowing + 1 ELSE flowing ELSE 0
         /\ daemon' = [daemon EXCEPT !.t = IF Growing \/ ~Running THEN 0 ELSE daemon.t + 1]
<1>1. monitor \in [t : 0 .. PollPeriod, moved : BOOLEAN, stall : 0 .. StallMax]
  BY DEF MonitorInv, Types
<1>2. QED
  BY <1>1 DEF Tick, CountTo, SeenBy

LEMMA TickStep == MonitorInv /\ Tick => MonitorInv'
<1> SUFFICES ASSUME MonitorInv, Tick PROVE MonitorInv'
  OBVIOUS
<1>0. /\ monitor.t \in 0 .. PollPeriod /\ monitor.moved \in BOOLEAN /\ monitor.stall \in 0 .. StallMax
      /\ still \in Nat /\ flowing \in Nat /\ daemon \in DaemonType
      /\ gDevicePresent \in BOOLEAN
      /\ monitor \in [t : 0 .. PollPeriod, moved : BOOLEAN, stall : 0 .. StallMax]
  BY DEF MonitorInv, Types
<1>1. Types'
  <2>1. monitor' \in [t : 0 .. PollPeriod, moved : BOOLEAN, stall : 0 .. StallMax]
    <3>1. monitor.t - 1 \in 0 .. PollPeriod
      BY <1>0, TickDoes, Constants
    <3>2. (monitor.moved \/ Growing) \in BOOLEAN
      OBVIOUS
    <3>3. QED
      BY <1>0, <3>1, <3>2, TickDoes
  <2>2. daemon' \in DaemonType
    <3>1. daemon.t \in Nat
      BY <1>0 DEF DaemonType
    <3>2. (IF Growing \/ ~Running THEN 0 ELSE daemon.t + 1) \in Nat
      BY <3>1
    <3>3. QED
      BY <1>0, <3>2, TickDoes DEF DaemonType
  <2>3. still' \in Nat /\ flowing' \in Nat
    BY <1>0, TickDoes, Constants
  <2>4. QED
    BY <1>0, <2>1, <2>2, <2>3, TickDoes DEF Types
<1>2. SincePoll' = SincePoll + 1 /\ SincePoll \in Nat /\ SincePoll + 1 <= PollPeriod
  BY <1>0, TickDoes, Constants DEF SincePoll
<1>3. monitor.stall * PollPeriod \in Nat /\ monitor.stall * PollPeriod <= StallMax * PollPeriod
      /\ monitor.stall \in Nat
  BY <1>0, Constants
<1>4. MonitorClock'
  <2> DEFINE stalled == monitor.stall * PollPeriod
  <2>1. /\ monitor'.stall = monitor.stall
        /\ monitor'.moved = (monitor.moved \/ Growing)
        /\ gDevicePresent' = gDevicePresent
    BY TickDoes
  <2>2. gDevicePresent' <=> monitor'.stall < StallMax
    BY <2>1 DEF MonitorInv, MonitorClock
  <2>3. Growing => still' = 0
    BY TickDoes
  <2>4. ~Growing => still' = IF still < WithdrawnBy + 1 THEN still + 1 ELSE still
    BY TickDoes
  <2>5. (monitor.moved \/ Growing) => still' <= SincePoll + 1
    <3>1. CASE Growing
      BY <1>2, <2>3, <3>1
    <3>2. CASE ~Growing /\ monitor.moved
      <4>1. still <= SincePoll
        BY <3>2 DEF MonitorInv, MonitorClock
      <4>2. QED
        BY <1>0, <1>2, <2>4, <3>2, <4>1
    <3>3. QED
      BY <3>1, <3>2
  <2>6. ASSUME ~(monitor.moved \/ Growing) PROVE stalled + (SincePoll + 1) <= still'
    <3>1. stalled + SincePoll <= still
      BY <2>6 DEF MonitorInv, MonitorClock
    <3>2. CASE still < WithdrawnBy + 1
      <4>1. still' = still + 1
        BY <2>4, <2>6, <3>2
      <4>2. QED
        BY <1>0, <1>2, <1>3, <3>1, <4>1
    <3>3. CASE ~(still < WithdrawnBy + 1)
      <4>1. still' = still
        BY <2>4, <2>6, <3>3
      <4>2. StallMax * PollPeriod \in Nat /\ WithdrawnBy = StallMax * PollPeriod + PollPeriod
        BY Constants
      <4>3. PollPeriod \in Nat
        BY Constants
      <4>4. QED
        BY <1>0, <1>2, <1>3, <3>3, <4>1, <4>2, <4>3
    <3>4. QED
      BY <3>2, <3>3
  <2>7. ASSUME ~(monitor.moved \/ Growing), monitor.stall < StallMax
        PROVE  still' <= (monitor.stall + 1) * PollPeriod + (SincePoll + 1)
    <3>1. still <= (monitor.stall + 1) * PollPeriod + SincePoll
      BY <2>7 DEF MonitorInv, MonitorClock
    <3>2. (monitor.stall + 1) * PollPeriod \in Nat
      BY <1>3, Constants
    <3>3. still' <= still + 1
      BY <1>0, <2>4, <2>7
    <3>4. still' \in Nat
      BY <1>1 DEF Types
    <3>5. QED
      BY <1>0, <1>2, <3>1, <3>2, <3>3, <3>4
  <2>8. QED
    BY <1>2, <2>1, <2>2, <2>5, <2>6, <2>7 DEF MonitorClock
<1>5. FlowClock'
  <2>1. monitor'.moved = (monitor.moved \/ Growing) /\ gDevicePresent' = gDevicePresent
    BY TickDoes
  <2>2. CASE Growing
    <3>1. flowing' <= flowing + 1 /\ flowing' \in Nat
      <4>1. flowing' = IF flowing < PollPeriod + 1 THEN flowing + 1 ELSE flowing
        BY <2>2, TickDoes
      <4>2. QED
        BY <1>0, <4>1
    <3>2. flowing' > SincePoll + 1 => flowing > SincePoll
      BY <1>0, <1>2, <3>1
    <3>3. flowing' > SincePoll' => gDevicePresent'
      BY <1>2, <2>1, <3>2 DEF MonitorInv, FlowClock
    <3>4. QED
      BY <2>1, <2>2, <3>3 DEF FlowClock
  <2>3. CASE ~Growing
    <3>1. flowing' = 0
      BY <2>3, TickDoes
    <3>2. QED
      BY <1>2, <3>1 DEF FlowClock
  <2>4. QED
    BY <2>2, <2>3
<1>6. QED
  BY <1>1, <1>4, <1>5 DEF MonitorInv

LEMMA PollStep == MonitorInv /\ MonitorPolls => MonitorInv'
<1> SUFFICES ASSUME MonitorInv, MonitorPolls PROVE MonitorInv'
  OBVIOUS
<1>0. /\ monitor.moved \in BOOLEAN /\ monitor.stall \in 0 .. StallMax /\ monitor.t = 0
      /\ still \in Nat /\ flowing \in Nat /\ daemon \in DaemonType
  BY DEF MonitorInv, Types, MonitorPolls
<1>1. /\ monitor' = [t |-> PollPeriod, moved |-> FALSE, stall |-> StallNext]
      /\ gDevicePresent' = (StallNext < StallMax)
      /\ UNCHANGED <<still, flowing, daemon>>
      /\ StallNext = IF monitor.moved THEN 0
                     ELSE IF monitor.stall < StallMax THEN monitor.stall + 1 ELSE monitor.stall
  BY DEF MonitorPolls, Present, histories, StallNext, CountTo
<1>2. StallNext \in 0 .. StallMax /\ monitor.stall \in Nat
  BY <1>0, <1>1, Constants
<1>3. SincePoll = PollPeriod /\ SincePoll' = 0
  BY <1>0, <1>1, Constants DEF SincePoll
<1>4. Types'
  BY <1>0, <1>1, <1>2, Constants DEF Types
<1>5. MonitorClock'
  <2>1. monitor'.stall = StallNext /\ monitor'.moved = FALSE
    BY <1>1
  <2>2. 0 * PollPeriod = 0 /\ (0 + 1) * PollPeriod = PollPeriod
    BY Constants
  <2>3. CASE monitor.moved
    <3>1. StallNext = 0
      BY <1>1, <2>3
    <3>2. still <= PollPeriod
      BY <1>3, <2>3 DEF MonitorInv, MonitorClock
    <3>3. gDevicePresent' = (0 < StallMax) /\ 0 < StallMax
      BY <1>1, <3>1, Constants
    <3>4. PollPeriod \in Nat
      BY Constants
    <3>5. QED
      BY <1>0, <1>1, <1>3, <2>1, <2>2, <3>1, <3>2, <3>3, <3>4 DEF MonitorClock
  <2>4. CASE ~monitor.moved /\ monitor.stall < StallMax
    <3>1. StallNext = monitor.stall + 1 /\ monitor.stall + 1 \in Nat
      BY <1>1, <1>2, <2>4
    <3>2. /\ (monitor.stall + 1) * PollPeriod = monitor.stall * PollPeriod + PollPeriod
          /\ (monitor.stall + 1 + 1) * PollPeriod = (monitor.stall + 1) * PollPeriod + PollPeriod
          /\ monitor.stall * PollPeriod \in Nat
      BY <1>2, <3>1, Constants
    <3>3. /\ monitor.stall * PollPeriod + PollPeriod <= still
          /\ still <= (monitor.stall + 1) * PollPeriod + PollPeriod
      BY <1>3, <2>4 DEF MonitorInv, MonitorClock
    <3>4. still' = still /\ monitor'.stall = monitor.stall + 1
      BY <1>1, <2>1, <3>1
    <3>5. PollPeriod \in Nat /\ gDevicePresent' = (monitor.stall + 1 < StallMax)
      BY <1>1, <3>1, Constants
    <3>6. /\ (monitor.stall + 1) * PollPeriod + 0 <= still
          /\ still <= (monitor.stall + 1 + 1) * PollPeriod + 0
      BY <1>0, <3>2, <3>3, <3>5
    <3>7. QED
      BY <1>3, <2>1, <3>4, <3>5, <3>6 DEF MonitorClock
  <2>5. CASE ~monitor.moved /\ ~(monitor.stall < StallMax)
    <3>1. monitor.stall * PollPeriod + PollPeriod <= still
      BY <1>3, <2>5 DEF MonitorInv, MonitorClock
    <3>2. StallNext = monitor.stall /\ monitor.stall * PollPeriod \in Nat
      BY <1>1, <1>2, <2>5, Constants
    <3>3. QED
      BY <1>0, <1>1, <1>2, <1>3, <2>1, <2>5, <3>1, <3>2, Constants DEF MonitorClock
  <2>6. QED
    BY <2>3, <2>4, <2>5
<1>6. FlowClock'
  BY <1>0, <1>1, <1>3, Constants DEF MonitorInv, FlowClock
<1>7. QED
  BY <1>4, <1>5, <1>6 DEF MonitorInv

(* The device and the daemon touch the monitor's state only where the      *)
(* daemon resets write_frames.                                             *)
LEMMA OthersDo ==
  ASSUME MonitorInv, Bus \/ Daemon
  PROVE  /\ daemon' \in DaemonType
         /\ UNCHANGED <<gDevicePresent, flowing>>
         /\ \/ UNCHANGED <<monitor, still>>
            \/ monitor' = [monitor EXCEPT !.moved = TRUE] /\ still' = 0 /\ daemon'.absent = 0
<1> DEFINE Untouched == UNCHANGED <<gDevicePresent, flowing, monitor, still>>
<1>0. daemon \in DaemonType
  BY DEF MonitorInv, Types
<1>1. ASSUME Bus PROVE Untouched /\ daemon' \in DaemonType
  <2>1. CASE Plug
    <3>1. PICK other \in BOOLEAN : daemon' = [daemon EXCEPT !.fresh = daemon.fresh \/ other]
      BY <2>1 DEF Plug
    <3>2. daemon.fresh \in BOOLEAN
      BY <1>0 DEF DaemonType
    <3>3. (daemon.fresh \/ other) \in BOOLEAN
      OBVIOUS
    <3>4. daemon' \in DaemonType
      BY <1>0, <3>1, <3>3 DEF DaemonType
    <3>5. QED
      BY <2>1, <3>4 DEF Plug, Disturbed
  <2>2. CASE Unplug
    BY <1>0, <2>2 DEF Unplug, Disturbed
  <2>3. CASE Wedge
    BY <1>0, <2>3 DEF Wedge
  <2>4. QED
    BY <1>1, <2>1, <2>2, <2>3 DEF Bus
<1>2. ASSUME Stops \/ Drained \/ Wakes \/ Dies PROVE Untouched /\ daemon' \in DaemonType
  <2>1. PICK pc \in {"drain", "look", "off"} : daemon' = [daemon EXCEPT !.pc = pc, !.t = 0]
    BY <1>2 DEF Stops, Drained, Wakes, Dies, Enters
  <2>2. daemon' \in DaemonType
    BY <1>0, <2>1 DEF DaemonType
  <2>3. QED
    BY <1>2, <2>2 DEF Stops, Drained, Wakes, Dies, Disturbed, histories
<1>3. ASSUME Launch PROVE Untouched /\ daemon' \in DaemonType
  <2>1. daemon' = [daemon EXCEPT !.pc = "look", !.t = 0, !.absent = 0, !.fresh = TRUE]
    BY <1>0, <1>3 DEF Launch, Enters, DaemonType
  <2>2. daemon' \in DaemonType
    BY <1>0, <2>1 DEF DaemonType
  <2>3. QED
    BY <1>3, <2>2 DEF Launch, Disturbed
<1>4. ASSUME Starts \/ StartFails
      PROVE  /\ daemon' \in DaemonType /\ UNCHANGED <<gDevicePresent, flowing>>
             /\ \/ UNCHANGED <<monitor, still>>
                \/ monitor' = [monitor EXCEPT !.moved = TRUE] /\ still' = 0 /\ daemon'.absent = 0
  <2>1. PICK pc \in {"capture", "sleep"} :
          daemon' = [daemon EXCEPT !.pc = pc, !.t = 0, !.absent = 0, !.fresh = FALSE]
    BY <1>0, <1>4 DEF Starts, StartFails, Enters, DaemonType
  <2>2. daemon' \in DaemonType /\ daemon'.absent = 0
    BY <1>0, <2>1 DEF DaemonType
  <2>3. Creates /\ UNCHANGED <<gDevicePresent, flowing>>
    BY <1>4 DEF Starts, StartFails
  <2>4. QED
    BY <2>2, <2>3 DEF Creates
<1>5. ASSUME LookMisses PROVE Untouched /\ daemon' \in DaemonType
  <2>1. PICK pc \in {"exited", "sleep"}, absent \in {daemon.absent, daemon.absent + 1} :
          daemon' = [daemon EXCEPT !.pc = pc, !.t = 0, !.absent = absent]
    BY <1>0, <1>5 DEF LookMisses, Enters, DaemonType
  <2>2. absent \in Nat
    BY <1>0 DEF DaemonType
  <2>3. daemon' \in DaemonType
    BY <1>0, <2>1, <2>2 DEF DaemonType
  <2>4. QED
    BY <1>5, <2>3 DEF LookMisses, Disturbed
<1>6. QED
  BY <1>1, <1>2, <1>3, <1>4, <1>5 DEF Daemon

(* Frames pushed in a drain are a change for the monitor and nothing else. *)
LEMMA PushesDo ==
  ASSUME DrainPushes
  PROVE  /\ daemon.pc = "drain"
         /\ UNCHANGED <<plugged, daemon, delivers, gDevicePresent, flowing, calm, hitch>>
         /\ monitor' = [monitor EXCEPT !.moved = TRUE] /\ still' = 0
  BY DEF DrainPushes

LEMMA OthersStep == MonitorInv /\ (Bus \/ Daemon \/ DrainPushes) => MonitorInv'
<1> SUFFICES ASSUME MonitorInv, Bus \/ Daemon \/ DrainPushes PROVE MonitorInv'
  OBVIOUS
<1>0. /\ monitor \in [t : 0 .. PollPeriod, moved : BOOLEAN, stall : 0 .. StallMax]
      /\ still \in Nat /\ flowing \in Nat /\ gDevicePresent \in BOOLEAN
  BY DEF MonitorInv, Types
<1>1. /\ daemon' \in DaemonType
      /\ UNCHANGED <<gDevicePresent, flowing>>
      /\ \/ UNCHANGED <<monitor, still>>
         \/ monitor' = [monitor EXCEPT !.moved = TRUE] /\ still' = 0
  <2>1. CASE DrainPushes
    BY <2>1, PushesDo DEF MonitorInv, Types
  <2>2. QED
    BY <2>1, OthersDo
<1>2. CASE UNCHANGED <<monitor, still>>
  BY <1>1, <1>2 DEF MonitorInv, Types, MonitorClock, FlowClock, SincePoll
<1>3. CASE monitor' = [monitor EXCEPT !.moved = TRUE] /\ still' = 0
  <2>1. /\ monitor'.t = monitor.t /\ monitor'.moved = TRUE /\ monitor'.stall = monitor.stall
        /\ monitor' \in [t : 0 .. PollPeriod, moved : BOOLEAN, stall : 0 .. StallMax]
    BY <1>0, <1>3
  <2>2. SincePoll' = SincePoll /\ 0 <= SincePoll
    BY <1>0, <2>1, Constants DEF SincePoll
  <2>3. QED
    BY <1>1, <1>0, <1>3, <2>1, <2>2 DEF MonitorInv, Types, MonitorClock, FlowClock
<1>4. QED
  BY <1>1, <1>2, <1>3

LEMMA MonitorStep == MonitorInv /\ [Next]_vars => MonitorInv'
<1>1. MonitorInv /\ UNCHANGED vars => MonitorInv'
  BY DEF MonitorInv, Types, MonitorClock, FlowClock, SincePoll, vars, histories
<1>2. QED
  BY <1>1, TickStep, PollStep, OthersStep DEF Next

LEMMA MonitorInvariant == Spec => []MonitorInv
  BY MonitorInit, MonitorStep, PTL DEF Spec

LEMMA InTime == MonitorInv => WithdrawnInTime
<1> SUFFICES ASSUME MonitorInv PROVE WithdrawnInTime
  OBVIOUS
<1>0. /\ monitor.t \in 0 .. PollPeriod /\ monitor.moved \in BOOLEAN /\ monitor.stall \in 0 .. StallMax
      /\ still \in Nat /\ gDevicePresent \in BOOLEAN
  BY DEF MonitorInv, Types
<1>1. SincePoll \in Nat /\ SincePoll <= PollPeriod /\ monitor.stall \in Nat
  BY <1>0, Constants DEF SincePoll
<1>2. ASSUME gDevicePresent PROVE still <= WithdrawnBy
  <2>1. monitor.stall + 1 <= StallMax
    BY <1>0, <1>2, Constants DEF MonitorInv, MonitorClock
  <2>2. (monitor.stall + 1) * PollPeriod <= StallMax * PollPeriod /\ StallMax * PollPeriod \in Nat
        /\ (monitor.stall + 1) * PollPeriod \in Nat
    BY <1>1, <2>1, Constants
  <2>3. still <= SincePoll \/ still <= (monitor.stall + 1) * PollPeriod + SincePoll
    BY <1>0, <1>2 DEF MonitorInv, MonitorClock
  <2>4. QED
    BY <1>0, <1>1, <2>2, <2>3, Constants
<1>3. ASSUME ~gDevicePresent, ~monitor.moved PROVE still >= StallMax * PollPeriod
  <2>1. monitor.stall = StallMax
    BY <1>0, <1>3, Constants DEF MonitorInv, MonitorClock
  <2>2. StallMax * PollPeriod + SincePoll <= still /\ StallMax * PollPeriod \in Nat
    BY <1>3, <2>1, Constants DEF MonitorInv, MonitorClock
  <2>3. QED
    BY <1>0, <1>1, <2>2
<1>4. QED
  BY <1>2, <1>3 DEF WithdrawnInTime

-----------------------------------------------------------------------------
(* The monitor withdraws the device after StallMax periods without growth  *)
(* and before one more, whatever the daemon does.                          *)
THEOREM MonitorInTime == Spec => []WithdrawnInTime
  BY MonitorInvariant, InTime, PTL

(* Frames that have flowed for a period and a tick are seen.               *)
THEOREM FlowIsSeen == Spec => []FlowingIsPresent
<1>1. MonitorInv => FlowingIsPresent
  <2> SUFFICES ASSUME MonitorInv, flowing = PollPeriod + 1 PROVE gDevicePresent
    BY DEF FlowingIsPresent, SeenBy
  <2>1. monitor.t \in 0 .. PollPeriod
    BY DEF MonitorInv, Types
  <2>2. flowing > SincePoll
    BY <2>1, Constants DEF SincePoll
  <2>3. QED
    BY <2>2 DEF MonitorInv, FlowClock
<1>2. QED
  BY <1>1, MonitorInvariant, PTL

-----------------------------------------------------------------------------
LEMMA GraceTick == MonitorInv /\ GraceClock /\ Tick => GraceClock'
<1> SUFFICES ASSUME MonitorInv, GraceClock, Tick PROVE GraceClock'
  OBVIOUS
<1>0. /\ daemon \in DaemonType /\ daemon.t \in Nat /\ daemon.absent \in Nat /\ still \in Nat
      /\ WithdrawnBy \in Nat /\ daemon.absent * RetrySleep \in Nat /\ RetrySleep \in Nat
  BY Constants DEF MonitorInv, Types, DaemonType
<1>1. daemon'.pc = daemon.pc /\ daemon'.absent = daemon.absent
  BY <1>0, TickDoes DEF DaemonType
<1>2. CASE daemon.pc \in {"look", "sleep", "exited"}
  <2>1. ~Growing
    BY <1>2 DEF Growing, Capturing
  <2>2. still' = IF still < WithdrawnBy + 1 THEN still + 1 ELSE still
    BY <2>1, TickDoes
  <2>3. daemon'.t = IF ~Running THEN 0 ELSE daemon.t + 1
    BY <1>0, <2>1, TickDoes DEF DaemonType
  <2>4. daemon'.t <= daemon.t + 1 /\ daemon'.t \in Nat
    BY <1>0, <2>3
  <2>5. (still' = still + 1 \/ WithdrawnBy < still') /\ still <= still' /\ still' \in Nat
    BY <1>0, <2>2
  <2>6. CASE daemon.pc = "sleep"
    BY <1>0, <1>1, <2>4, <2>5, <2>6 DEF GraceClock
  <2>7. CASE daemon.pc \in {"look", "exited"}
    BY <1>0, <1>1, <2>5, <2>7 DEF GraceClock
  <2>8. QED
    BY <1>2, <2>6, <2>7
<1>3. CASE daemon.pc \notin {"look", "sleep", "exited"}
  BY <1>1, <1>3 DEF GraceClock
<1>4. QED
  BY <1>2, <1>3

LongGrace == (ExitGrace - 1) * RetrySleep > WithdrawnBy

LEMMA GraceOthers ==
  ASSUME LongGrace, MonitorInv, GraceClock, Bus \/ Daemon
  PROVE  GraceClock'
<1>0. /\ daemon \in DaemonType /\ daemon.t \in Nat /\ daemon.absent \in Nat /\ still \in Nat
      /\ WithdrawnBy \in Nat /\ daemon.absent * RetrySleep \in Nat /\ RetrySleep \in Nat
      /\ 0 * RetrySleep = 0
  BY Constants DEF MonitorInv, Types, DaemonType
<1>1. CASE Bus
  <2>1. /\ daemon'.pc = daemon.pc /\ daemon'.t = daemon.t /\ daemon'.absent = daemon.absent
        /\ still' = still
    BY <1>0, <1>1 DEF Bus, Plug, Unplug, Wedge, Disturbed, DaemonType
  <2>2. QED
    BY <2>1 DEF GraceClock
<1>2. CASE Stops
  <2>1. daemon'.pc = "drain" /\ daemon'.absent = daemon.absent /\ daemon.pc = "capture"
    BY <1>0, <1>2 DEF Stops, Capturing, Enters, DaemonType
  <2>2. QED
    BY <2>1 DEF GraceClock
<1>3. CASE Drained
  <2>1. /\ daemon'.pc = "look" /\ daemon'.absent = daemon.absent /\ daemon.pc = "drain"
        /\ still' = still
    BY <1>0, <1>3 DEF Drained, Enters, histories, DaemonType
  <2>2. QED
    BY <1>0, <2>1 DEF GraceClock
<1>4. CASE Wakes
  <2>1. /\ daemon'.pc = "look" /\ daemon'.absent = daemon.absent /\ daemon.pc = "sleep"
        /\ daemon.t >= RetrySleep /\ still' = still
    BY <1>0, <1>4 DEF Wakes, Nap, Enters, histories, DaemonType
  <2>2. QED
    BY <1>0, <2>1 DEF GraceClock
<1>5. CASE Dies
  <2>1. daemon'.pc = "off"
    BY <1>0, <1>5 DEF Dies, Enters, DaemonType
  <2>2. QED
    BY <2>1 DEF GraceClock
<1>6. CASE Launch
  <2>1. daemon'.pc = "look" /\ daemon'.absent = 0 /\ still' = still
    BY <1>0, <1>6 DEF Launch, Enters, Disturbed, DaemonType
  <2>2. QED
    BY <1>0, <2>1 DEF GraceClock
<1>7. CASE Starts \/ StartFails
  <2>1. daemon'.pc \in {"capture", "sleep"} /\ daemon'.absent = 0
    BY <1>0, <1>7 DEF Starts, StartFails, Enters, DaemonType
  <2>2. QED
    BY <2>1 DEF GraceClock
<1>8. CASE LookMisses
  <2> DEFINE absent == IF daemon.onDemand THEN daemon.absent + 1 ELSE daemon.absent
  <2>1. /\ daemon'.pc = (IF absent >= ExitGrace THEN "exited" ELSE "sleep")
        /\ daemon'.t = 0 /\ daemon'.absent = absent /\ daemon.pc = "look" /\ still' = still
    BY <1>0, <1>8 DEF LookMisses, Disturbed, Enters, DaemonType
  <2>2. daemon.absent * RetrySleep <= still \/ WithdrawnBy < still
    BY <2>1 DEF GraceClock
  <2>3. absent \in Nat /\ absent <= daemon.absent + 1
    BY <1>0
  <2>4. CASE absent >= ExitGrace
    <3>1. ExitGrace - 1 <= daemon.absent /\ ExitGrace - 1 \in Nat
      BY <1>0, <2>3, <2>4, Constants
    <3>2. (ExitGrace - 1) * RetrySleep <= daemon.absent * RetrySleep
          /\ (ExitGrace - 1) * RetrySleep \in Nat
      BY <1>0, <3>1, Constants
    <3>3. WithdrawnBy < still
      BY <1>0, <2>2, <3>2 DEF LongGrace
    <3>4. QED
      BY <2>1, <2>4, <3>3 DEF GraceClock
  <2>5. CASE ~(absent >= ExitGrace)
    <3>1. /\ (daemon.absent + 1) * RetrySleep = daemon.absent * RetrySleep + RetrySleep
      BY <1>0, Constants
    <3>2. absent * RetrySleep + 0 <= daemon.absent * RetrySleep + RetrySleep
      BY <1>0, <3>1
    <3>3. absent * RetrySleep + 0 <= still + RetrySleep \/ WithdrawnBy < still
      <4>1. absent * RetrySleep \in Nat
        BY <2>3, Constants
      <4>2. QED
        BY <1>0, <2>2, <3>2, <4>1
    <3>4. daemon'.pc = "sleep"
      BY <2>1, <2>5
    <3>5. QED
      BY <2>1, <3>3, <3>4 DEF GraceClock
  <2>6. QED
    BY <2>4, <2>5
<1>9. QED
  BY <1>1, <1>2, <1>3, <1>4, <1>5, <1>6, <1>7, <1>8 DEF Daemon

LEMMA GraceStep ==
  ASSUME LongGrace, MonitorInv, GraceClock, [Next]_vars
  PROVE  GraceClock'
<1>1. CASE MonitorPolls
  <2>1. UNCHANGED <<daemon, still>>
    BY <1>1 DEF MonitorPolls, histories
  <2>2. QED
    BY <2>1 DEF GraceClock
<1>2. CASE UNCHANGED vars
  BY <1>2 DEF GraceClock, vars, histories
<1>3. CASE DrainPushes
  BY <1>3, PushesDo DEF GraceClock
<1>4. QED
  BY <1>1, <1>2, <1>3, GraceTick, GraceOthers DEF Next

(* A daemon that exits for want of a device leaves none listed, provided   *)
(* the sleeps between the looks of its grace last longer than the monitor  *)
(* takes to withdraw the device (main.rs, ABSENT_EXIT_GRACE).              *)
THEOREM ExitIsSeen ==
  ASSUME LongGrace
  PROVE  Spec => []ExitedMeansWithdrawn
<1>1. GraceClock /\ MonitorInv /\ [Next]_vars => GraceClock'
  BY GraceStep
<1>2. MonitorInv /\ GraceClock => ExitedMeansWithdrawn
  <2> SUFFICES ASSUME MonitorInv, GraceClock, daemon.pc = "exited" PROVE ~gDevicePresent
    BY DEF ExitedMeansWithdrawn
  <2>1. WithdrawnBy < still /\ still \in Nat /\ WithdrawnBy \in Nat
    BY Constants DEF GraceClock, MonitorInv, Types
  <2>2. QED
    BY <2>1, InTime DEF WithdrawnInTime
<1>3. Spec => []GraceClock
  BY <1>1, MonitorInit, MonitorInvariant, PTL DEF Spec
<1>4. QED
  BY <1>2, <1>3, MonitorInvariant, PTL

-----------------------------------------------------------------------------
(* The daemon stays nowhere longer than its patience, and its grace is not *)
(* used up before it exits.                                                *)
DaemonLimits ==
  /\ daemon.t <= Patience
  /\ daemon.absent <= ExitGrace
  /\ daemon.pc # "exited" => daemon.absent < ExitGrace
  /\ daemon.onDemand \in ExitWhenAbsent

HistoryLimits ==
  /\ plugged \in BOOLEAN /\ delivers \in BOOLEAN /\ hitch \in BOOLEAN
  /\ still <= WithdrawnBy + 1 /\ flowing <= SeenBy /\ calm \in 0 .. RecoveredBy

LimitsInv == MonitorInv /\ DaemonLimits /\ HistoryLimits

LEMMA Bounds ==
  /\ WatchdogStall \in Nat /\ WatchdogStall > 0 /\ DrainLimit \in Nat /\ DrainLimit > 0
  /\ SeenBy \in Nat /\ RecoveredBy \in Nat /\ SeenBy > 0
  /\ RecoveredBy = WatchdogStall + DrainLimit + 3 + SeenBy
  /\ Patience \in Nat /\ Patience > 0
  /\ Capturing => Patience = WatchdogStall + 1
  /\ daemon.pc = "drain" => Patience = DrainLimit + 1
  /\ daemon.pc = "sleep" => Patience = RetrySleep
  /\ daemon.pc \notin {"capture", "drain", "sleep"} => Patience = 1
<1>1. /\ WatchdogStall \in Nat /\ WatchdogStall > 0 /\ DrainLimit \in Nat /\ DrainLimit > 0
  BY Constants DEF Limits
<1>2. /\ SeenBy \in Nat /\ RecoveredBy \in Nat /\ SeenBy > 0
      /\ RecoveredBy = WatchdogStall + DrainLimit + 3 + SeenBy
  BY <1>1, Constants DEF SeenBy, RecoveredBy
<1>3. QED
  BY <1>1, <1>2, Constants DEF Patience, Capturing, WatchdogFires, DrainEnds, Nap

(* The fields of a daemon that enters a place.                             *)
LEMMA EntersIs ==
  ASSUME daemon \in DaemonType, NEW pc, NEW n, NEW b
  PROVE  /\ Enters(pc).pc = pc /\ Enters(pc).t = 0 /\ Enters(pc).absent = daemon.absent
         /\ Enters(pc).onDemand = daemon.onDemand
         /\ LET reset == [Enters(pc) EXCEPT !.absent = n] IN
              /\ reset.pc = pc /\ reset.t = 0 /\ reset.absent = n
              /\ reset.onDemand = daemon.onDemand
         /\ LET reset == [Enters(pc) EXCEPT !.absent = n, !.fresh = b] IN
              /\ reset.pc = pc /\ reset.t = 0 /\ reset.absent = n
              /\ reset.onDemand = daemon.onDemand
  BY DEF Enters, DaemonType

(* Where the daemon's steps go, in terms of the fields.                    *)
LEMMA DaemonGoes ==
  ASSUME daemon \in DaemonType, Daemon
  PROVE  /\ daemon'.t = 0 /\ daemon'.onDemand = daemon.onDemand
         /\ \/ Stops /\ daemon'.pc = "drain" /\ daemon'.absent = daemon.absent
            \/ (Drained \/ Wakes) /\ daemon'.pc = "look" /\ daemon'.absent = daemon.absent
            \/ Starts /\ daemon'.pc = "capture" /\ daemon'.absent = 0
            \/ StartFails /\ daemon'.pc = "sleep" /\ daemon'.absent = 0
            \/ /\ LookMisses
               /\ daemon'.absent = IF daemon.onDemand THEN daemon.absent + 1 ELSE daemon.absent
               /\ daemon'.pc = IF daemon'.absent >= ExitGrace THEN "exited" ELSE "sleep"
            \/ Dies /\ daemon'.pc = "off" /\ daemon'.absent = daemon.absent
            \/ Launch /\ daemon'.pc = "look" /\ daemon'.absent = 0
<1>1. CASE Stops
  BY <1>1, EntersIs DEF Stops
<1>2. CASE Drained \/ Wakes
  BY <1>2, EntersIs DEF Drained, Wakes
<1>3. CASE Starts
  BY <1>3, EntersIs DEF Starts
<1>8. CASE StartFails
  BY <1>8, EntersIs DEF StartFails
<1>4. CASE LookMisses
  <2> DEFINE absent == IF daemon.onDemand THEN daemon.absent + 1 ELSE daemon.absent
  <2>1. daemon' = [Enters(IF absent >= ExitGrace THEN "exited" ELSE "sleep") EXCEPT !.absent = absent]
    BY <1>4 DEF LookMisses
  <2>2. /\ daemon'.t = 0 /\ daemon'.onDemand = daemon.onDemand /\ daemon'.absent = absent
        /\ daemon'.pc = IF absent >= ExitGrace THEN "exited" ELSE "sleep"
    BY <2>1, EntersIs
  <2>3. QED
    BY <1>4, <2>2
<1>5. CASE Dies
  BY <1>5, EntersIs DEF Dies
<1>6. CASE Launch
  BY <1>6, EntersIs DEF Launch
<1>7. QED
  BY <1>1, <1>2, <1>3, <1>4, <1>5, <1>6, <1>8 DEF Daemon

(* The device changes the daemon only in what header it will write.        *)
LEMMA BusKeeps ==
  ASSUME daemon \in DaemonType, Bus
  PROVE  /\ daemon'.pc = daemon.pc /\ daemon'.t = daemon.t /\ daemon'.absent = daemon.absent
         /\ daemon'.onDemand = daemon.onDemand
         /\ still' = still /\ flowing' = flowing /\ calm' = 0
         /\ hitch' = TRUE \/ (Wedge /\ hitch' = (hitch \/ still > 0))
         /\ delivers' = FALSE \/ delivers' = delivers
         /\ plugged' \in BOOLEAN \/ plugged' = plugged
  BY DEF Bus, Plug, Unplug, Wedge, Disturbed, DaemonType

(* The fields a tick changes.                                              *)
LEMMA TickKeeps ==
  ASSUME MonitorInv, Tick
  PROVE  /\ daemon'.pc = daemon.pc /\ daemon'.absent = daemon.absent
         /\ daemon'.onDemand = daemon.onDemand
         /\ daemon'.t = IF Growing \/ ~Running THEN 0 ELSE daemon.t + 1
         /\ UNCHANGED <<plugged, delivers>>
         /\ calm' = IF calm < RecoveredBy THEN calm + 1 ELSE calm
<1>1. daemon \in DaemonType
  BY DEF MonitorInv, Types
<1>2. QED
  BY <1>1, TickDoes DEF Tick, CountTo, DaemonType

LEMMA DaemonLimitsStep == LimitsInv /\ [Next]_vars => DaemonLimits'
<1> SUFFICES ASSUME LimitsInv, [Next]_vars PROVE DaemonLimits'
  OBVIOUS
<1>0. /\ daemon \in DaemonType /\ daemon.t \in Nat /\ daemon.absent \in Nat
      /\ daemon.t <= Patience /\ daemon.absent <= ExitGrace /\ daemon.onDemand \in ExitWhenAbsent
      /\ daemon.pc # "exited" => daemon.absent < ExitGrace
      /\ ExitGrace \in Nat /\ ExitGrace > 0 /\ Patience \in Nat
  BY Constants, Bounds DEF LimitsInv, MonitorInv, Types, DaemonLimits, DaemonType
<1>1. daemon'.pc = daemon.pc => Patience' = Patience
  BY DEF Patience, Capturing, WatchdogFires, DrainEnds, Nap
<1>2. CASE Tick
  <2>1. Growing \/ ~Running \/ daemon.t < Patience
    BY <1>2 DEF Tick
  <2>2. daemon'.t <= Patience
    BY <1>0, <1>2, <2>1, TickKeeps DEF LimitsInv
  <2>3. QED
    BY <1>0, <1>1, <1>2, <2>2, TickKeeps DEF LimitsInv, DaemonLimits
<1>3. CASE Bus
  BY <1>0, <1>1, <1>3, BusKeeps DEF DaemonLimits
<1>4. CASE Daemon
  <2>1. Patience' \in Nat
    BY Constants, Bounds DEF Patience, Capturing, WatchdogFires, DrainEnds, Nap
  <2>2. daemon'.t <= Patience' /\ daemon'.onDemand \in ExitWhenAbsent
    BY <1>0, <1>4, <2>1, DaemonGoes
  <2>3. daemon'.absent <= ExitGrace /\ (daemon'.pc # "exited" => daemon'.absent < ExitGrace)
    <3>1. CASE /\ LookMisses
               /\ daemon'.absent = IF daemon.onDemand THEN daemon.absent + 1 ELSE daemon.absent
               /\ daemon'.pc = IF daemon'.absent >= ExitGrace THEN "exited" ELSE "sleep"
      <4>1. daemon.pc = "look"
        BY <3>1 DEF LookMisses
      <4>2. daemon.absent < ExitGrace
        BY <1>0, <4>1
      <4>3. daemon'.absent \in Nat /\ daemon'.absent <= ExitGrace
        BY <1>0, <3>1, <4>2
      <4>4. daemon'.pc # "exited" => ~(daemon'.absent >= ExitGrace)
        BY <3>1
      <4>5. QED
        BY <1>0, <4>3, <4>4
    <3>2. CASE daemon'.absent = 0
      BY <1>0, <3>2
    <3>3. CASE (Stops \/ Drained \/ Wakes \/ Dies) /\ daemon'.absent = daemon.absent
      <4>1. daemon.pc # "exited"
        BY <3>3 DEF Stops, Drained, Wakes, Dies, Capturing, Running
      <4>2. QED
        BY <1>0, <3>3, <4>1
    <3>4. QED
      BY <1>0, <1>4, <3>1, <3>2, <3>3, DaemonGoes
  <2>4. QED
    BY <2>2, <2>3 DEF DaemonLimits
<1>5. CASE MonitorPolls \/ DrainPushes \/ UNCHANGED vars
  <2>1. UNCHANGED daemon
    BY <1>5 DEF MonitorPolls, DrainPushes, vars
  <2>2. QED
    BY <1>0, <1>1, <2>1 DEF DaemonLimits
<1>6. QED
  BY <1>2, <1>3, <1>4, <1>5 DEF Next

LEMMA HistoryLimitsStep == LimitsInv /\ [Next]_vars => HistoryLimits'
<1> SUFFICES ASSUME LimitsInv, [Next]_vars PROVE HistoryLimits'
  OBVIOUS
<1>0. /\ daemon \in DaemonType /\ still \in Nat /\ flowing \in Nat /\ calm \in Nat
      /\ still <= WithdrawnBy + 1 /\ flowing <= SeenBy /\ calm <= RecoveredBy
      /\ WithdrawnBy \in Nat /\ SeenBy \in Nat /\ RecoveredBy \in Nat
      /\ plugged \in BOOLEAN /\ delivers \in BOOLEAN /\ hitch \in BOOLEAN
  BY Constants, Bounds DEF LimitsInv, MonitorInv, Types, HistoryLimits
<1>1. CASE Tick
  <2>1. still' <= WithdrawnBy + 1
    BY <1>0, <1>1, TickDoes DEF LimitsInv
  <2>2. flowing' <= SeenBy
    BY <1>0, <1>1, TickDoes, Constants DEF LimitsInv, SeenBy
  <2>3. calm' \in 0 .. RecoveredBy
    BY <1>0, <1>1, TickKeeps DEF LimitsInv
  <2>4. hitch' \in BOOLEAN
    BY <1>1 DEF Tick
  <2>5. plugged' \in BOOLEAN /\ delivers' \in BOOLEAN
    BY <1>0, <1>1 DEF Tick
  <2>6. QED
    BY <2>1, <2>2, <2>3, <2>4, <2>5 DEF HistoryLimits, WithdrawnBy, SeenBy, RecoveredBy
<1>2. CASE Bus
  <2>1. hitch' \in BOOLEAN /\ plugged' \in BOOLEAN /\ delivers' \in BOOLEAN
    BY <1>0, <1>2 DEF Bus, Plug, Unplug, Wedge, Disturbed
  <2>2. QED
    BY <1>0, <1>2, <2>1, BusKeeps DEF HistoryLimits, WithdrawnBy, SeenBy, RecoveredBy
<1>3. CASE Daemon
  <2>1. /\ UNCHANGED plugged /\ delivers' \in BOOLEAN
        /\ hitch' \in BOOLEAN /\ flowing' = flowing
        /\ still' = still \/ still' = 0
        /\ calm' = calm \/ calm' = 0
    BY <1>0, <1>3 DEF Daemon, Stops, Drained, Starts, StartFails, LookMisses, Wakes, Dies, Launch,
                  Disturbed, Creates, histories
  <2>2. QED
    BY <1>0, <2>1 DEF HistoryLimits, WithdrawnBy, SeenBy, RecoveredBy
<1>4. CASE MonitorPolls \/ UNCHANGED vars
  BY <1>0, <1>4 DEF MonitorPolls, vars, histories, HistoryLimits, WithdrawnBy, SeenBy, RecoveredBy
<1>5. CASE DrainPushes
  BY <1>0, <1>5, PushesDo DEF HistoryLimits, WithdrawnBy, SeenBy, RecoveredBy
<1>6. QED
  BY <1>1, <1>2, <1>3, <1>4, <1>5 DEF Next

LEMMA LimitsInvariant == Spec => []LimitsInv
<1>1. Init => DaemonLimits /\ HistoryLimits
  <2> SUFFICES ASSUME Init PROVE DaemonLimits /\ HistoryLimits
    OBVIOUS
  <2>1. /\ daemon.t = 0 /\ daemon.absent = 0 /\ daemon.onDemand \in ExitWhenAbsent
        /\ plugged \in BOOLEAN /\ delivers = FALSE /\ still = 0 /\ flowing = 0 /\ calm = 0
        /\ hitch = TRUE
    BY DEF Init
  <2>2. DaemonLimits
    BY <2>1, Constants, Bounds DEF DaemonLimits
  <2>3. 0 <= WithdrawnBy + 1 /\ 0 <= SeenBy /\ 0 \in 0 .. RecoveredBy
    BY Constants, Bounds
  <2>4. QED
    BY <2>1, <2>2, <2>3 DEF HistoryLimits
<1>2. LimitsInv /\ [Next]_vars => LimitsInv'
  BY DaemonLimitsStep, HistoryLimitsStep, MonitorStep DEF LimitsInv
<1>3. QED
  BY <1>1, <1>2, MonitorInit, PTL DEF Spec, LimitsInv

(* Every variable has its type and no counter passes its limit: the daemon *)
(* leaves every wait in time, absent_count never passes ABSENT_EXIT_GRACE, *)
(* and stall never passes PRESENCE_STALL_MAX.                              *)
THEOREM TypeCorrect == Spec => []TypeOK
<1>1. LimitsInv => TypeOK
  <2> SUFFICES ASSUME LimitsInv PROVE TypeOK
    OBVIOUS
  <2>1. /\ daemon \in DaemonType /\ still \in Nat /\ flowing \in Nat /\ gDevicePresent \in BOOLEAN
        /\ monitor \in [t : 0 .. PollPeriod, moved : BOOLEAN, stall : 0 .. StallMax]
    BY DEF LimitsInv, MonitorInv, Types
  <2>2. /\ daemon.pc \in {"off", "exited", "look", "capture", "drain", "sleep"}
        /\ daemon.t \in Nat /\ daemon.absent \in Nat /\ daemon.fresh \in BOOLEAN
    BY <2>1 DEF DaemonType
  <2>3. daemon.t \in 0 .. Patience /\ daemon.absent \in 0 .. ExitGrace
    BY <2>2, Constants, Bounds DEF LimitsInv, DaemonLimits
  <2>4. still \in 0 .. WithdrawnBy + 1 /\ flowing \in 0 .. SeenBy
    BY <2>1, Constants, Bounds DEF LimitsInv, HistoryLimits
  <2>5. QED
    BY <2>1, <2>2, <2>3, <2>4 DEF TypeOK, LimitsInv, DaemonLimits, HistoryLimits
<1>2. QED
  BY <1>1, LimitsInvariant, PTL

-----------------------------------------------------------------------------
(* The recovery from one wedged engine, place by place: to be where it is  *)
(* without a hitch, the daemon has used up no more than so much of the     *)
(* monitor's patience.                                                     *)
RecoveryClock ==
  ~hitch =>
    /\ daemon.pc \in {"capture", "drain", "look"}
    /\ Capturing /\ ~delivers => still <= daemon.t
    /\ Capturing /\ delivers => still < StallMax * PollPeriod
    /\ daemon.pc = "drain" => still <= WatchdogStall + 1 + daemon.t /\ daemon.t <= ShortDrain
    /\ daemon.pc = "look" => still < StallMax * PollPeriod - 1 + daemon.t

(* Half a second to notice, a look and the first frames fit into the time  *)
(* the monitor waits, whatever the drain.                                  *)
QuickWatchdog == WatchdogStall + 3 <= StallMax * PollPeriod

LEMMA Patient ==
  ASSUME LimitsInv
  PROVE  /\ daemon \in DaemonType /\ daemon.t \in Nat /\ still \in Nat /\ flowing \in Nat
         /\ calm \in 0 .. RecoveredBy /\ calm \in Nat /\ flowing <= SeenBy
         /\ hitch \in BOOLEAN /\ delivers \in BOOLEAN
         /\ StallMax * PollPeriod \in Nat
         /\ Capturing => daemon.t <= WatchdogStall + 1
         /\ daemon.pc = "drain" => daemon.t <= DrainLimit + 1
         /\ daemon.pc = "sleep" => daemon.t <= RetrySleep
         /\ daemon.pc = "look" => daemon.t <= 1
<1>1. /\ daemon \in DaemonType /\ daemon.t \in Nat /\ still \in Nat /\ flowing \in Nat
      /\ calm \in 0 .. RecoveredBy /\ flowing <= SeenBy /\ hitch \in BOOLEAN /\ delivers \in BOOLEAN
      /\ daemon.t <= Patience
  BY DEF LimitsInv, MonitorInv, Types, DaemonLimits, HistoryLimits, DaemonType
<1>2. QED
  BY <1>1, Constants, Bounds

LEMMA RecoveryTick == QuickWatchdog /\ LimitsInv /\ RecoveryClock /\ Tick => RecoveryClock'
<1> SUFFICES ASSUME QuickWatchdog, LimitsInv, RecoveryClock, Tick, ~hitch' PROVE RecoveryClock'
  BY DEF RecoveryClock
<1>0. /\ daemon.t \in Nat /\ still \in Nat /\ StallMax * PollPeriod \in Nat
      /\ WatchdogStall \in Nat /\ ShortDrain \in Int
      /\ ShortDrain = StallMax * PollPeriod - (WatchdogStall + 3)
  BY Patient, Bounds DEF ShortDrain
<1>1. /\ daemon'.pc = daemon.pc /\ delivers' = delivers
      /\ daemon'.t = IF Growing \/ ~Running THEN 0 ELSE daemon.t + 1
  BY TickKeeps DEF LimitsInv
<1>2. still' = IF Growing THEN 0 ELSE IF still < WithdrawnBy + 1 THEN still + 1 ELSE still
  BY TickDoes DEF LimitsInv
<1>3. (~hitch \/ Growing) /\ ~(daemon.pc = "drain" /\ daemon.t >= ShortDrain)
  BY DEF Tick
<1>4. CASE Growing
  <2>1. daemon.pc = "capture" /\ delivers
    BY <1>4 DEF Growing, Capturing
  <2>2. still' = 0
    BY <1>2, <1>4
  <2>3. 0 < StallMax * PollPeriod
    BY <1>0 DEF QuickWatchdog
  <2>4. QED
    BY <1>1, <2>1, <2>2, <2>3 DEF RecoveryClock, Capturing
<1>5. CASE ~Growing
  <2>1. ~hitch /\ daemon.pc \in {"capture", "drain", "look"} /\ (Capturing => ~delivers)
    BY <1>3, <1>5 DEF RecoveryClock, Growing
  <2>2. daemon'.t = daemon.t + 1 /\ still' <= still + 1 /\ still' \in Nat
    <3>1. Running
      BY <2>1 DEF Running
    <3>2. QED
      BY <1>0, <1>1, <1>2, <1>5, <3>1, Constants
  <2>3. CASE Capturing
    <3>1. still <= daemon.t
      BY <2>1, <2>3 DEF RecoveryClock
    <3>2. still' <= daemon'.t
      BY <1>0, <2>2, <3>1
    <3>3. QED
      BY <1>1, <2>1, <2>3, <3>2 DEF RecoveryClock, Capturing
  <2>4. CASE daemon.pc = "drain"
    <3>1. still <= WatchdogStall + 1 + daemon.t
      BY <2>1, <2>4 DEF RecoveryClock
    <3>2. daemon.t < ShortDrain
      BY <1>0, <1>3, <2>4
    <3>3. still' <= WatchdogStall + 1 + daemon'.t /\ daemon'.t <= ShortDrain
      BY <1>0, <2>2, <3>1, <3>2
    <3>4. QED
      BY <1>1, <2>4, <3>3 DEF RecoveryClock, Capturing
  <2>5. CASE daemon.pc = "look"
    <3>1. still < StallMax * PollPeriod - 1 + daemon.t
      BY <2>1, <2>5 DEF RecoveryClock
    <3>2. still' < StallMax * PollPeriod - 1 + daemon'.t
      BY <1>0, <2>2, <3>1
    <3>3. QED
      BY <1>1, <2>5, <3>2 DEF RecoveryClock, Capturing
  <2>6. QED
    BY <2>1, <2>3, <2>4, <2>5 DEF Capturing
<1>6. QED
  BY <1>4, <1>5

(* The first wedge of a stream that flows finds it grown at this tick.     *)
LEMMA RecoveryBus == LimitsInv /\ RecoveryClock /\ Bus => RecoveryClock'
<1> SUFFICES ASSUME LimitsInv, RecoveryClock, Bus, ~hitch' PROVE RecoveryClock'
  BY DEF RecoveryClock
<1>0. daemon.t \in Nat /\ still \in Nat
  BY Patient
<1>1. daemon'.pc = daemon.pc /\ daemon'.t = daemon.t /\ still' = still
  BY Patient, BusKeeps
<1>2. ~hitch /\ still = 0 /\ ~delivers'
  <2>1. Wedge
    BY DEF Bus, Plug, Unplug, Disturbed
  <2>2. ~delivers' /\ ~(hitch \/ still > 0)
    BY <2>1, Zenon DEF Wedge
  <2>3. QED
    BY <1>0, <2>2
<1>3. QED
  BY <1>0, <1>1, <1>2 DEF RecoveryClock, Capturing, ShortDrain

LEMMA RecoveryDaemon == QuickWatchdog /\ LimitsInv /\ RecoveryClock /\ Daemon => RecoveryClock'
<1> SUFFICES ASSUME QuickWatchdog, LimitsInv, RecoveryClock, Daemon, ~hitch' PROVE RecoveryClock'
  BY DEF RecoveryClock
<1>0. /\ daemon.t \in Nat /\ still \in Nat /\ StallMax * PollPeriod \in Nat
      /\ WatchdogStall \in Nat /\ ShortDrain \in Int
      /\ ShortDrain = StallMax * PollPeriod - (WatchdogStall + 3)
      /\ 3 <= StallMax * PollPeriod
  BY Patient, Bounds DEF ShortDrain, QuickWatchdog
<1>1. daemon'.t = 0
  BY Patient, DaemonGoes
<1>2. CASE Stops /\ daemon'.pc = "drain"
  <2>1. ~hitch /\ Capturing /\ ~delivers /\ still' = still
    BY <1>2 DEF Stops, histories
  <2>2. still <= daemon.t /\ daemon.t <= WatchdogStall + 1
    BY <2>1, Patient DEF RecoveryClock
  <2>3. still' <= WatchdogStall + 1 + 0 /\ 0 <= ShortDrain
    BY <1>0, <2>1, <2>2 DEF QuickWatchdog
  <2>4. QED
    BY <1>1, <1>2, <2>3 DEF RecoveryClock, Capturing, ShortDrain
<1>3. CASE (Drained \/ Wakes) /\ daemon'.pc = "look"
  <2>1. ~hitch /\ still' = still /\ daemon.pc = "drain"
    BY <1>3 DEF Drained, Wakes, RecoveryClock, histories
  <2>2. still <= WatchdogStall + 1 + daemon.t /\ daemon.t <= ShortDrain
    BY <2>1 DEF RecoveryClock
  <2>3. still' < StallMax * PollPeriod - 1 + 0
    BY <1>0, <2>1, <2>2
  <2>4. QED
    BY <1>1, <1>3, <2>3 DEF RecoveryClock, Capturing
<1>4. CASE Starts /\ daemon'.pc = "capture"
  <2>1. ~hitch /\ daemon.pc = "look" /\ delivers' = TRUE /\ (still' = still \/ still' = 0)
    BY <1>4 DEF Starts, Creates
  <2>2. still < StallMax * PollPeriod - 1 + daemon.t /\ daemon.t <= 1
    BY <2>1, Patient DEF RecoveryClock
  <2>3. still' < StallMax * PollPeriod
    BY <1>0, <2>1, <2>2
  <2>4. QED
    BY <1>4, <2>1, <2>3 DEF RecoveryClock, Capturing
<1>5. CASE StartFails \/ LookMisses \/ Dies \/ Launch
  BY <1>5 DEF StartFails, LookMisses, Dies, Launch, Disturbed
<1>6. QED
  BY <1>2, <1>3, <1>4, <1>5, Patient, DaemonGoes

(* The recovery from a single wedged stream stays unseen by the user if    *)
(* its drain is short, for any periods that leave room for a drain at all: *)
(* what the watchdog of main.rs and PresenceMonitor know of each other.    *)
THEOREM RecoveryStaysUnseen ==
  ASSUME QuickWatchdog
  PROVE  Spec => []RecoveryUnseen
<1>1. Init => RecoveryClock
  BY DEF Init, RecoveryClock
<1>2. LimitsInv /\ RecoveryClock /\ [Next]_vars => RecoveryClock'
  <2>1. RecoveryClock /\ (MonitorPolls \/ UNCHANGED vars) => RecoveryClock'
    BY DEF RecoveryClock, MonitorPolls, vars, histories, Capturing, ShortDrain
  <2>2. LimitsInv /\ RecoveryClock /\ DrainPushes => RecoveryClock'
    BY PushesDo, Patient, Bounds DEF RecoveryClock, Capturing, ShortDrain
  <2>3. QED
    BY <2>1, <2>2, RecoveryTick, RecoveryBus, RecoveryDaemon DEF Next
<1>3. LimitsInv /\ RecoveryClock => RecoveryUnseen
  <2> SUFFICES ASSUME LimitsInv, RecoveryClock, ~gDevicePresent, ~monitor.moved, ~hitch PROVE FALSE
    BY DEF RecoveryUnseen
  <2>1. still >= StallMax * PollPeriod
    BY InTime DEF LimitsInv, WithdrawnInTime
  <2>2. still < StallMax * PollPeriod
    <3>1. /\ daemon.t \in Nat /\ still \in Nat /\ StallMax * PollPeriod \in Nat
          /\ WatchdogStall \in Nat /\ ShortDrain = StallMax * PollPeriod - (WatchdogStall + 3)
          /\ WatchdogStall + 3 <= StallMax * PollPeriod
      BY Patient, Bounds DEF ShortDrain, QuickWatchdog
    <3>2. CASE Capturing
      BY <3>1, <3>2, Patient DEF RecoveryClock
    <3>3. CASE daemon.pc = "drain"
      BY <3>1, <3>3 DEF RecoveryClock
    <3>4. CASE daemon.pc = "look"
      BY <3>1, <3>4, Patient DEF RecoveryClock
    <3>5. QED
      BY <3>2, <3>3, <3>4 DEF RecoveryClock, Capturing
  <2>3. QED
    BY <2>1, <2>2, Patient
<1>4. QED
  BY <1>1, <1>2, <1>3, LimitsInvariant, PTL DEF Spec

-----------------------------------------------------------------------------
(* The last thing that went wrong is no longer ago than the daemon has     *)
(* needed since to get where it is.                                        *)
CalmClock ==
  /\ Capturing /\ delivers =>
       flowing = SeenBy \/ calm <= WatchdogStall + DrainLimit + 3 + flowing
  /\ Capturing /\ ~delivers => calm <= daemon.t
  /\ daemon.pc = "drain" => calm <= WatchdogStall + 1 + daemon.t
  /\ daemon.pc = "look" => calm <= WatchdogStall + DrainLimit + 2 + daemon.t
  /\ daemon.pc = "sleep" => calm <= daemon.t

(* A sleep lasts no longer than noticing a stall and draining.             *)
ShortSleep == RetrySleep <= WatchdogStall + DrainLimit + 2

LEMMA CalmTick == LimitsInv /\ CalmClock /\ Tick => CalmClock'
<1> SUFFICES ASSUME LimitsInv, CalmClock, Tick PROVE CalmClock'
  OBVIOUS
<1>0. /\ daemon.t \in Nat /\ flowing \in Nat /\ flowing <= SeenBy /\ calm \in Nat
      /\ WatchdogStall \in Nat /\ DrainLimit \in Nat /\ SeenBy \in Nat
  BY Patient, Bounds
<1>1. /\ daemon'.pc = daemon.pc /\ delivers' = delivers
      /\ daemon'.t = IF Growing \/ ~Running THEN 0 ELSE daemon.t + 1
      /\ calm' <= calm + 1 /\ calm' \in Nat
  BY <1>0, TickKeeps, Bounds DEF LimitsInv
<1>2. CASE Growing
  <2>1. daemon.pc = "capture" /\ delivers
    BY <1>2 DEF Growing, Capturing
  <2>2. flowing' = IF flowing < SeenBy THEN flowing + 1 ELSE flowing
    BY <1>2, TickDoes DEF LimitsInv, SeenBy
  <2>3. flowing = SeenBy \/ calm <= WatchdogStall + DrainLimit + 3 + flowing
    BY <2>1 DEF CalmClock, Capturing
  <2>4. flowing' = SeenBy \/ calm' <= WatchdogStall + DrainLimit + 3 + flowing'
    BY <1>0, <1>1, <2>2, <2>3
  <2>5. SeenBy' = SeenBy
    BY DEF SeenBy
  <2>6. QED
    BY <1>1, <2>1, <2>4, <2>5 DEF CalmClock, Capturing
<1>3. CASE ~Growing /\ Running
  <2>1. daemon'.t = daemon.t + 1 /\ ~(Capturing /\ delivers)
    BY <1>1, <1>3 DEF Growing
  <2>2. QED
    BY <1>0, <1>1, <2>1 DEF CalmClock, Capturing
<1>4. CASE ~Running
  BY <1>1, <1>4 DEF CalmClock, Running, Capturing
<1>5. QED
  BY <1>2, <1>3, <1>4

LEMMA CalmDaemon == ShortSleep /\ LimitsInv /\ CalmClock /\ Daemon => CalmClock'
<1> SUFFICES ASSUME ShortSleep, LimitsInv, CalmClock, Daemon PROVE CalmClock'
  OBVIOUS
<1>0. /\ daemon.t \in Nat /\ flowing \in Nat /\ calm \in Nat
      /\ WatchdogStall \in Nat /\ DrainLimit \in Nat /\ RetrySleep \in Nat
  BY Patient, Bounds, Constants
<1>1. daemon'.t = 0
  BY Patient, DaemonGoes
<1>2. CASE Stops /\ daemon'.pc = "drain"
  <2>1. calm' = calm /\ calm <= daemon.t /\ daemon.t <= WatchdogStall + 1
    BY <1>2, Patient DEF Stops, CalmClock, histories
  <2>2. QED
    BY <1>0, <1>1, <1>2, <2>1 DEF CalmClock, Capturing
<1>3. CASE Drained /\ daemon'.pc = "look"
  <2>1. /\ calm' = calm /\ calm <= WatchdogStall + 1 + daemon.t /\ daemon.t <= DrainLimit + 1
    BY <1>3, Patient DEF Drained, CalmClock, histories
  <2>2. QED
    BY <1>0, <1>1, <1>3, <2>1 DEF CalmClock, Capturing
<1>4. CASE Wakes /\ daemon'.pc = "look"
  <2>1. calm' = calm /\ calm <= daemon.t /\ daemon.t <= RetrySleep
    BY <1>4, Patient DEF Wakes, CalmClock, histories
  <2>2. QED
    BY <1>0, <1>1, <1>4, <2>1 DEF CalmClock, Capturing, ShortSleep
<1>5. CASE Starts /\ daemon'.pc = "capture"
  <2>1. /\ calm' = calm /\ flowing' = flowing /\ delivers'
        /\ calm <= WatchdogStall + DrainLimit + 2 + daemon.t /\ daemon.t <= 1
    BY <1>5, Patient DEF Starts, CalmClock
  <2>2. calm' <= WatchdogStall + DrainLimit + 3 + flowing'
    BY <1>0, <2>1
  <2>3. QED
    BY <1>5, <2>1, <2>2 DEF CalmClock, Capturing
<1>6. CASE (StartFails \/ LookMisses \/ Dies \/ Launch) /\ daemon'.pc # "capture"
  <2>1. calm' = 0
    BY <1>6 DEF StartFails, LookMisses, Dies, Launch, Disturbed
  <2>2. QED
    BY <1>0, <1>1, <1>6, <2>1 DEF CalmClock, Capturing
<1>7. QED
  BY <1>2, <1>3, <1>4, <1>5, <1>6, Patient, DaemonGoes

LEMMA CalmBus == LimitsInv /\ CalmClock /\ Bus => CalmClock'
<1> SUFFICES ASSUME LimitsInv, CalmClock, Bus PROVE CalmClock'
  OBVIOUS
<1>1. daemon'.pc = daemon.pc /\ daemon'.t = daemon.t /\ flowing' = flowing /\ calm' = 0
  BY Patient, BusKeeps
<1>2. /\ daemon.t \in Nat /\ flowing \in Nat /\ WatchdogStall \in Nat /\ DrainLimit \in Nat
  BY Patient, Bounds
<1>3. QED
  BY <1>1, <1>2 DEF CalmClock, Capturing, SeenBy

(* A daemon that runs with its device plugged in and nothing more going    *)
(* wrong has it listed in the time of a stall's detection, a full drain, a *)
(* look and a poll, whatever it was doing before (main.rs, the session     *)
(* loop; PresenceMonitor).                                                 *)
THEOREM ListedInTime ==
  ASSUME ShortSleep
  PROVE  Spec => []BackInTime
<1>1. Init => CalmClock
  BY DEF Init, CalmClock, Capturing
<1>2. LimitsInv /\ CalmClock /\ [Next]_vars => CalmClock'
  <2>1. CalmClock /\ (MonitorPolls \/ UNCHANGED vars) => CalmClock'
    BY DEF CalmClock, MonitorPolls, vars, histories, Capturing, SeenBy
  <2>2. CalmClock /\ DrainPushes => CalmClock'
    BY PushesDo DEF CalmClock, Capturing, SeenBy
  <2>3. QED
    BY <2>1, <2>2, CalmTick, CalmBus, CalmDaemon DEF Next
<1>3. LimitsInv /\ CalmClock => BackInTime
  <2> SUFFICES ASSUME LimitsInv, CalmClock, Running, calm = RecoveredBy PROVE gDevicePresent
    BY DEF BackInTime
  <2>1. /\ daemon \in DaemonType /\ daemon.t \in Nat /\ flowing \in Nat /\ flowing <= SeenBy
        /\ WatchdogStall \in Nat /\ DrainLimit \in Nat /\ SeenBy \in Nat
        /\ SeenBy = PollPeriod + 1 /\ PollPeriod \in Nat /\ PollPeriod > 0
        /\ RecoveredBy = WatchdogStall + DrainLimit + 3 + SeenBy
    BY Patient, Bounds, Constants DEF SeenBy
  <2>2. Capturing /\ delivers
    <3>1. daemon.pc \in {"capture", "look", "drain", "sleep"}
      BY <2>1 DEF Running, DaemonType
    <3>2. ~(Capturing /\ ~delivers) /\ daemon.pc # "drain" /\ daemon.pc # "look"
      BY <2>1, Patient DEF CalmClock
    <3>3. daemon.pc # "sleep"
      BY <2>1, Patient, Constants DEF CalmClock, ShortSleep
    <3>4. QED
      BY <3>1, <3>2, <3>3 DEF Capturing
  <2>3. flowing = SeenBy
    BY <2>1, <2>2 DEF CalmClock
  <2>4. flowing > SincePoll
    BY <2>1, <2>3, Constants DEF LimitsInv, MonitorInv, Types, SincePoll
  <2>5. QED
    BY <2>4 DEF LimitsInv, MonitorInv, FlowClock
<1>4. QED
  BY <1>1, <1>2, <1>3, LimitsInvariant, PTL DEF Spec

-----------------------------------------------------------------------------
(* The abstract daemon.  Time, the bus and the monitor are not seen.       *)
LEMMA DaemonShown ==
  ASSUME daemon \in DaemonType, Daemon
  PROVE  [Session!Next]_(Session!vars)
<1>1. daemon'.onDemand = daemon.onDemand
  BY DaemonGoes
<1>2. CASE Stops /\ daemon'.pc = "drain" /\ daemon'.absent = daemon.absent
  <2>1. daemon.pc = "capture"
    BY <1>2 DEF Stops, Capturing
  <2>2. QED
    BY <1>1, <1>2, <2>1 DEF Session!vars
<1>3. CASE (Drained \/ Wakes) /\ daemon'.pc = "look" /\ daemon'.absent = daemon.absent
  <2>1. daemon.pc \in {"drain", "sleep"}
    BY <1>3 DEF Drained, Wakes
  <2>2. QED
    BY <1>1, <1>3, <2>1 DEF Session!LooksAgain, Session!Next
<1>4. CASE (Starts \/ StartFails) /\ daemon'.pc \in {"capture", "sleep"} /\ daemon'.absent = 0
  <2>1. daemon.pc = "look"
    BY <1>4 DEF Starts, StartFails
  <2>2. QED
    BY <1>1, <1>4, <2>1 DEF Session!Finds, Session!Next
<1>5. CASE /\ LookMisses
           /\ daemon'.absent = IF daemon.onDemand THEN daemon.absent + 1 ELSE daemon.absent
           /\ daemon'.pc = IF daemon'.absent >= ExitGrace THEN "exited" ELSE "sleep"
  <2>1. daemon.pc = "look"
    BY <1>5 DEF LookMisses
  <2>2. Session!Misses
    BY <1>1, <1>5, <2>1 DEF Session!Misses
  <2>3. QED
    BY <2>2 DEF Session!Next
<1>6. CASE Dies /\ daemon'.pc = "off" /\ daemon'.absent = daemon.absent
  <2>1. daemon.pc \notin {"off", "exited"}
    BY <1>6 DEF Dies, Running
  <2>2. QED
    BY <1>1, <1>6, <2>1 DEF Session!Dies, Session!Up, Session!Next
<1>7. CASE Launch /\ daemon'.pc = "look" /\ daemon'.absent = 0
  <2>1. daemon.pc \in {"off", "exited"}
    BY <1>7 DEF Launch, Running
  <2>2. QED
    BY <1>1, <1>7, <2>1 DEF Session!Launched, Session!Up, Session!Next
<1>8. QED
  BY <1>2, <1>3, <1>4, <1>5, <1>6, <1>7, DaemonGoes

(* The daemon with its clock is a run of the abstract daemon, for any      *)
(* periods: what Line6DaemonProofs shows of every instance.                *)
THEOREM DaemonIsSession == Spec => RunsSession
<1>1. Init => Session!Init
  BY DEF Init, Session!Init
<1>2. MonitorInv /\ [Next]_vars => [Session!Next]_(Session!vars)
  <2> SUFFICES ASSUME MonitorInv, [Next]_vars PROVE [Session!Next]_(Session!vars)
    OBVIOUS
  <2>1. daemon \in DaemonType
    BY DEF MonitorInv, Types
  <2>2. CASE Tick
    BY <2>2, TickKeeps DEF Session!vars
  <2>3. CASE Bus
    BY <2>1, <2>3, BusKeeps DEF Session!vars
  <2>4. CASE MonitorPolls \/ DrainPushes \/ UNCHANGED vars
    BY <2>4 DEF MonitorPolls, DrainPushes, vars, Session!vars
  <2>5. QED
    BY <2>1, <2>2, <2>3, <2>4, DaemonShown DEF Next
<1>3. QED
  BY <1>1, <1>2, MonitorInvariant, PTL DEF Spec, RunsSession, Session!Spec

-----------------------------------------------------------------------------
(* The abstract monitor.                                                   *)
LEMMA WatchShown == MonitorInv /\ [Next]_vars => [Watch!Next]_(Watch!vars)
<1> SUFFICES ASSUME MonitorInv, [Next]_vars PROVE [Watch!Next]_(Watch!vars)
  OBVIOUS
<1>0. monitor \in [t : 0 .. PollPeriod, moved : BOOLEAN, stall : 0 .. StallMax]
  BY DEF MonitorInv, Types
<1>1. CASE Tick
  <2>1. /\ UNCHANGED gDevicePresent /\ monitor'.moved = (monitor.moved \/ Growing)
        /\ monitor'.stall = monitor.stall
    BY <1>1, TickDoes
  <2>2. monitor'.moved \in BOOLEAN
    BY <1>0, <2>1
  <2>3. Watch!Changes
    BY <2>1, <2>2 DEF Watch!Changes
  <2>4. QED
    BY <2>3 DEF Watch!Next
<1>2. CASE Bus \/ Daemon \/ DrainPushes
  <2>1. CASE UNCHANGED <<gDevicePresent, monitor>>
    BY <2>1 DEF Watch!vars
  <2>2. CASE UNCHANGED gDevicePresent /\ monitor' = [monitor EXCEPT !.moved = TRUE]
    <3>1. monitor'.moved = TRUE /\ monitor'.stall = monitor.stall
      BY <1>0, <2>2
    <3>2. QED
      BY <2>2, <3>1 DEF Watch!Changes, Watch!Next
  <2>3. QED
    BY <1>2, <2>1, <2>2, OthersDo, PushesDo
<1>3. CASE MonitorPolls
  <2>1. /\ monitor'.moved = FALSE /\ monitor'.stall = StallNext
        /\ gDevicePresent' = (StallNext < StallMax)
        /\ StallNext = IF monitor.moved THEN 0
                       ELSE IF monitor.stall < StallMax THEN monitor.stall + 1 ELSE monitor.stall
    BY <1>3 DEF MonitorPolls, Present, StallNext, CountTo
  <2>2. monitor.moved \in BOOLEAN
    BY <1>0
  <2>3. gDevicePresent' = (TRUE /\ monitor'.stall < StallMax)
    <3>1. gDevicePresent' = (monitor'.stall < StallMax)
      BY <2>1
    <3>2. (monitor'.stall < StallMax) = (TRUE /\ monitor'.stall < StallMax)
      OBVIOUS
    <3>3. QED
      BY <3>1, <3>2
  <2>4. CASE monitor.moved
    BY <2>1, <2>3, <2>4 DEF Watch!Polls, Watch!Next
  <2>5. CASE ~monitor.moved
    <3>1. monitor'.moved = monitor.moved
      BY <2>1, <2>2, <2>5
    <3>2. monitor'.stall = IF monitor.stall < StallMax THEN monitor.stall + 1 ELSE monitor.stall
      BY <2>1, <2>5
    <3>3. QED
      BY <2>3, <2>5, <3>1, <3>2 DEF Watch!Polls, Watch!Next
  <2>6. QED
    BY <2>4, <2>5
<1>4. CASE UNCHANGED vars
  BY <1>4 DEF vars, Watch!vars
<1>5. QED
  BY <1>1, <1>2, <1>3, <1>4 DEF Next

(* The monitor with its clock is the abstract monitor, for any periods:    *)
(* what Line6PluginProofs shows of the plugin's thread.                    *)
THEOREM MonitorIsWatch == Spec => WatchesCounter
<1>1. Init => Watch!Init
  BY DEF Init, Watch!Init
<1>2. QED
  BY <1>1, WatchShown, MonitorInvariant, PTL DEF Spec, WatchesCounter, Watch!Spec
=============================================================================
