-------------------------- MODULE Line6PluginProofs --------------------------
(***************************************************************************)
(* The safety properties of the presence monitor for any stall limit, any  *)
(* set of host threads, any state of the segment at the plugin's load and  *)
(* any outcome of the monitor's creation; when a StartIO can wait for      *)
(* itself, that gIO_Running counts the clients, and that the monitor is a  *)
(* run of the abstract one.                                                *)
(***************************************************************************)
EXTENDS Line6Plugin, FiniteSetTheorems, TLAPS

MonitorType ==
  [pc : {"none", "sleep", "attach", "poll", "notify"}, haveLast : BOOLEAN, stall : 0 .. StallMax]

HalType ==
  [pending : BOOLEAN, pc : {"loading", "idle", "sized"}, size : BOOLEAN, listed : BOOLEAN]

(* Before its first query the host has one to make; a size it has been     *)
(* told is that of the present list, unless a change is being announced.   *)
QueryInv ==
  /\ hal.pc = "loading" => hal.pending
  /\ hal.pc = "sized" /\ ~hal.pending /\ monitor.pc # "notify" => hal.size = gDevicePresent
  /\ ListFollowsPresence

(* As long as the counter stands where the monitor saw it, the monitor has *)
(* not counted more polls than it has stood still for; a poll that has     *)
(* begun is yet to be counted.                                             *)
StallInv ==
  gap = "same" =>
    IF monitor.pc \in {"attach", "poll"}
    THEN quiet = StallMax \/ monitor.stall + 1 <= quiet
    ELSE monitor.stall <= quiet

PluginInv == TypeOK /\ QueryInv /\ StallInv

-----------------------------------------------------------------------------
LEMMA Limit ==
  /\ StallMax \in Nat /\ 0 < StallMax /\ 0 \in 0 .. StallMax /\ StallMax \in 0 .. StallMax
  /\ \A k \in 0 .. StallMax : k \in Nat /\ k <= StallMax
  /\ \A k \in 0 .. StallMax : k < StallMax => k + 1 \in 0 .. StallMax
<1>1. StallMax \in Nat \ {0}
  BY PluginAssumption
<1>2. QED
  BY <1>1

LEMMA PluginInit == Init => PluginInv
<1> SUFFICES ASSUME Init PROVE PluginInv
  OBVIOUS
<1>1. TypeOK
  BY Limit, PluginAssumption DEF Init, TypeOK
<1>2. QueryInv
  BY DEF Init, QueryInv, ListFollowsPresence
<1>3. StallInv
  BY DEF Init, StallInv
<1>4. QED
  BY <1>1, <1>2, <1>3 DEF PluginInv

(* The daemon.                                                             *)
LEMMA DaemonStep == PluginInv /\ Daemon => PluginInv'
<1> SUFFICES ASSUME PluginInv, Daemon PROVE PluginInv'
  OBVIOUS
<1>1. UNCHANGED <<gMutex, gShm, gDevicePresent, gIORunning, monitor, thread, hal>>
  BY DEF Daemon, CreateOpen, CreateHeader, CreateReset, CaptureStarts, CaptureStops, Publish,
         DaemonStops, PluginUnchanged, pluginVars
<1>2. segment' \in Progress /\ daemon' \in {"down", "create", "idle", "capture"}
      /\ due' \in BOOLEAN
  BY DEF PluginInv, TypeOK, Progress, Daemon, CreateOpen, CreateHeader, CreateReset,
         CaptureStarts, CaptureStops, Publish, DaemonStops
<1>3. \/ UNCHANGED <<gap, quiet>>
      \/ gap' \in {"below", "above"} /\ quiet' = 0
      \/ gap' = "same" /\ quiet' = StallMax
  BY DEF Daemon, CreateOpen, CreateHeader, CreateReset, CaptureStarts, CaptureStops, Publish,
         DaemonStops
<1>4. gap' \in {"same", "below", "above"} /\ quiet' \in 0 .. StallMax
  BY <1>3, Limit DEF PluginInv, TypeOK
<1>5. TypeOK'
  BY <1>1, <1>2, <1>4 DEF PluginInv, TypeOK
<1>6. QueryInv'
  BY <1>1 DEF PluginInv, QueryInv, ListFollowsPresence
<1>7. StallInv'
  <2>1. monitor.stall \in 0 .. StallMax
    BY DEF PluginInv, TypeOK
  <2>2. monitor.stall <= StallMax
    BY <2>1, Limit
  <2>3. QED
    BY <1>1, <1>3, <2>2 DEF PluginInv, StallInv
<1>8. QED
  BY <1>5, <1>6, <1>7 DEF PluginInv

-----------------------------------------------------------------------------
(* The monitor thread.                                                     *)
LEMMA StallNextType ==
  ASSUME TypeOK
  PROVE  StallNext \in 0 .. StallMax
<1>1. monitor.stall \in 0 .. StallMax
  BY DEF TypeOK
<1>2. QED
  BY <1>1, Limit DEF StallNext

LEMMA WakeStep == PluginInv /\ MonitorWakes => PluginInv'
<1> SUFFICES ASSUME PluginInv, MonitorWakes PROVE PluginInv'
  OBVIOUS
<1>0. TypeOK /\ monitor \in MonitorType /\ quiet \in 0 .. StallMax
  BY DEF PluginInv, TypeOK, MonitorType
<1>1. /\ monitor.pc = "sleep" /\ monitor' \in MonitorType
      /\ monitor'.pc \in {"attach", "poll"} /\ monitor'.stall = monitor.stall
  BY <1>0 DEF MonitorWakes, MonitorType
<1>2. UNCHANGED <<segment, daemon, gap, gMutex, gShm, gDevicePresent, gIORunning, thread, hal>>
  BY DEF MonitorWakes, pluginVars
<1>3. quiet' \in 0 .. StallMax
      /\ (quiet' = StallMax \/ quiet' = quiet + 1)
  BY <1>0, Limit DEF MonitorWakes
<1>4. due' \in BOOLEAN
  BY DEF MonitorWakes
<1>5. TypeOK'
  BY <1>0, <1>1, <1>2, <1>3, <1>4 DEF TypeOK, MonitorType
<1>6. QueryInv'
  BY <1>1, <1>2 DEF PluginInv, QueryInv, ListFollowsPresence
<1>7. StallInv'
  <2>1. monitor.stall \in Nat /\ quiet \in Nat
    BY <1>0, Limit DEF MonitorType
  <2>2. QED
    BY <1>1, <1>2, <1>3, <2>1 DEF PluginInv, StallInv
<1>8. QED
  BY <1>5, <1>6, <1>7 DEF PluginInv

LEMMA AttachStep == PluginInv /\ MonitorAttaches => PluginInv'
<1> SUFFICES ASSUME PluginInv, MonitorAttaches PROVE PluginInv'
  OBVIOUS
<1>0. TypeOK /\ monitor \in MonitorType
  BY DEF PluginInv, TypeOK, MonitorType
<1>1. /\ monitor.pc = "attach" /\ monitor' \in MonitorType
      /\ monitor'.pc = "poll" /\ monitor'.stall = monitor.stall
  BY <1>0 DEF MonitorAttaches, MonitorType
<1>2. gShm' \in BOOLEAN
  BY <1>0 DEF MonitorAttaches, Attached, TypeOK
<1>3. UNCHANGED <<segment, daemon, gap, due, gMutex, gDevicePresent, gIORunning, thread, hal, quiet>>
  BY DEF MonitorAttaches, segmentVars
<1>4. TypeOK'
  BY <1>0, <1>1, <1>2, <1>3 DEF TypeOK, MonitorType
<1>5. QueryInv' /\ StallInv'
  BY <1>1, <1>3 DEF PluginInv, QueryInv, ListFollowsPresence, StallInv
<1>6. QED
  BY <1>4, <1>5 DEF PluginInv

(* A change of gDevicePresent is always announced next.                    *)
LEMMA PollStep == PluginInv /\ MonitorPolls => PluginInv'
<1> SUFFICES ASSUME PluginInv, MonitorPolls PROVE PluginInv'
  OBVIOUS
<1>0. TypeOK /\ monitor \in MonitorType /\ quiet \in 0 .. StallMax /\ gShm \in BOOLEAN
      /\ gap \in {"same", "below", "above"}
  BY DEF PluginInv, TypeOK, MonitorType
<1>1. /\ monitor.pc = "poll" /\ gDevicePresent' = Present
      /\ monitor' = [pc |-> IF Present # gDevicePresent THEN "notify" ELSE "sleep",
                     haveLast |-> gShm, stall |-> StallNext]
      /\ gap' = IF gShm THEN "same" ELSE gap
      /\ UNCHANGED <<segment, daemon, due, gMutex, gShm, gIORunning, thread, hal, quiet>>
  BY DEF MonitorPolls
<1>2. /\ monitor'.pc = IF gDevicePresent' # gDevicePresent THEN "notify" ELSE "sleep"
      /\ monitor'.stall = StallNext
  BY <1>1
<1>3. TypeOK'
  <2>1. monitor' \in MonitorType
    BY <1>0, <1>1, StallNextType DEF MonitorType
  <2>2. gDevicePresent' \in BOOLEAN
    BY <1>0, <1>1 DEF Present
  <2>3. gap' \in {"same", "below", "above"}
    BY <1>0, <1>1
  <2>4. QED
    BY <1>0, <1>1, <2>1, <2>2, <2>3 DEF TypeOK, MonitorType
<1>4. QueryInv'
  BY <1>1, <1>2 DEF PluginInv, QueryInv, ListFollowsPresence
<1>5. StallInv'
  <2>1. gap' = "same" => StallNext <= quiet
    <3>1. monitor.stall \in Nat /\ quiet \in Nat /\ StallMax \in Nat /\ quiet <= StallMax
          /\ monitor.stall <= StallMax
      BY <1>0, Limit DEF MonitorType
    <3>2. gap = "same" => quiet = StallMax \/ monitor.stall + 1 <= quiet
      BY <1>1 DEF PluginInv, StallInv
    <3>3. QED
      BY <1>1, <3>1, <3>2 DEF StallNext, Still
  <2>2. QED
    BY <1>1, <1>2, <2>1 DEF StallInv
<1>6. QED
  BY <1>3, <1>4, <1>5 DEF PluginInv

LEMMA NotifyStep == PluginInv /\ MonitorNotifies => PluginInv'
<1> SUFFICES ASSUME PluginInv, MonitorNotifies PROVE PluginInv'
  OBVIOUS
<1>0. TypeOK /\ monitor \in MonitorType /\ hal \in HalType
  BY DEF PluginInv, TypeOK, MonitorType, HalType
<1>1. /\ monitor.pc = "notify" /\ monitor' \in MonitorType
      /\ monitor'.pc = "sleep" /\ monitor'.stall = monitor.stall
      /\ hal' \in HalType /\ hal'.pending
  BY <1>0 DEF MonitorNotifies, MonitorType, HalType
<1>2. UNCHANGED <<segment, daemon, gap, due, gMutex, gShm, gDevicePresent, gIORunning, thread, quiet>>
  BY DEF MonitorNotifies, segmentVars, pluginVars
<1>3. TypeOK'
  BY <1>0, <1>1, <1>2 DEF TypeOK, MonitorType, HalType
<1>4. QueryInv' /\ StallInv'
  BY <1>1, <1>2 DEF PluginInv, QueryInv, ListFollowsPresence, StallInv
<1>5. QED
  BY <1>3, <1>4 DEF PluginInv

-----------------------------------------------------------------------------
(* The host.                                                               *)
LEMMA HostStep == PluginInv /\ Host => PluginInv'
<1> SUFFICES ASSUME PluginInv, Host PROVE PluginInv'
  OBVIOUS
<1>0. TypeOK /\ monitor \in MonitorType /\ hal \in HalType /\ gShm \in BOOLEAN
      /\ gDevicePresent \in BOOLEAN /\ gIORunning \in Nat
  BY DEF PluginInv, TypeOK, MonitorType, HalType
<1>1. CASE Initialize
  <2>1. /\ monitor' \in MonitorType /\ monitor'.pc \in {"none", "sleep"}
        /\ monitor'.stall = monitor.stall
    <3>1. PICK ok \in MonitorStarts :
            monitor' = [monitor EXCEPT !.pc = IF ok THEN "sleep" ELSE "none"]
      BY <1>1 DEF Initialize
    <3>2. QED
      BY <1>0, <3>1 DEF MonitorType
  <2>2. hal.pc = "loading" /\ hal' \in HalType /\ hal'.pending = hal.pending /\ hal'.pc = "idle"
    BY <1>0, <1>1 DEF Initialize, HalType
  <2>3. gShm' \in BOOLEAN
    BY <1>0, <1>1 DEF Initialize, Attached, TypeOK
  <2>4. UNCHANGED <<segment, daemon, gap, due, gMutex, gDevicePresent, gIORunning, thread, quiet>>
    BY <1>1 DEF Initialize, segmentVars
  <2>5. TypeOK'
    BY <1>0, <2>1, <2>2, <2>3, <2>4 DEF TypeOK, MonitorType, HalType
  <2>6. QueryInv'
    BY <2>2, <2>4 DEF PluginInv, QueryInv, ListFollowsPresence
  <2>7. StallInv'
    <3>1. monitor.stall \in Nat /\ quiet \in Nat /\ monitor.stall <= StallMax /\ StallMax \in Nat
      BY <1>0, Limit DEF MonitorType, TypeOK
    <3>2. QED
      BY <2>1, <2>4, <3>1 DEF PluginInv, StallInv
  <2>8. QED
    BY <2>5, <2>6, <2>7 DEF PluginInv
<1>2. CASE QuerySize
  <2>1. /\ hal' \in HalType /\ hal'.pc = "sized" /\ ~hal'.pending /\ hal'.size = gDevicePresent
    BY <1>0, <1>2 DEF QuerySize, HalType
  <2>2. UNCHANGED <<segment, daemon, gap, due, gMutex, gShm, gDevicePresent, gIORunning, monitor,
                    thread, quiet>>
    BY <1>2 DEF QuerySize, segmentVars, pluginVars
  <2>3. TypeOK'
    BY <1>0, <2>1, <2>2 DEF TypeOK, HalType
  <2>4. QueryInv' /\ StallInv'
    BY <2>1, <2>2 DEF PluginInv, QueryInv, ListFollowsPresence, StallInv
  <2>5. QED
    BY <2>3, <2>4 DEF PluginInv
<1>3. CASE QueryData
  <2>1. /\ hal.pc = "sized" /\ hal' \in HalType /\ hal'.pc = "idle" /\ hal'.pending = hal.pending
        /\ hal'.listed = (gDevicePresent /\ hal.size)
    BY <1>0, <1>3 DEF QueryData, HalType
  <2>2. UNCHANGED <<segment, daemon, gap, due, gMutex, gShm, gDevicePresent, gIORunning, monitor,
                    thread, quiet>>
    BY <1>3 DEF QueryData, segmentVars, pluginVars
  <2>3. TypeOK'
    BY <1>0, <2>1, <2>2 DEF TypeOK, HalType
  <2>4. QueryInv'
    BY <1>0, <2>1, <2>2 DEF PluginInv, QueryInv, ListFollowsPresence
  <2>5. StallInv'
    BY <2>2 DEF PluginInv, StallInv
  <2>6. QED
    BY <2>3, <2>4, <2>5 DEF PluginInv
<1>4. ASSUME NEW h \in HostThreads, StartIO(h) \/ StopIO(h) PROVE PluginInv'
  <2>1. UNCHANGED <<segment, daemon, gap, due, gShm, gDevicePresent, monitor, hal, quiet>>
    BY <1>4 DEF StartIO, StopIO, segmentVars
  <2>2. /\ gMutex' \in HostThreads \cup {Nobody} /\ gIORunning' \in Nat
        /\ thread' \in [HostThreads -> {"idle", "attach", "started"}]
    BY <1>0, <1>4 DEF StartIO, StopIO, TypeOK
  <2>3. TypeOK'
    BY <1>0, <2>1, <2>2 DEF TypeOK
  <2>4. QueryInv' /\ StallInv'
    BY <2>1 DEF PluginInv, QueryInv, ListFollowsPresence, StallInv
  <2>5. QED
    BY <2>3, <2>4 DEF PluginInv
<1>5. QED
  BY <1>1, <1>2, <1>3, <1>4 DEF Host, Query

-----------------------------------------------------------------------------
LEMMA PluginStep == PluginInv /\ [Next]_vars => PluginInv'
<1>1. PluginInv /\ UNCHANGED vars => PluginInv'
  BY DEF PluginInv, TypeOK, QueryInv, ListFollowsPresence, StallInv, vars, segmentVars, pluginVars
<1>2. QED
  BY <1>1, DaemonStep, WakeStep, AttachStep, PollStep, NotifyStep, HostStep
     DEF Next, MonitorThread

LEMMA PluginInvariant == Spec => []PluginInv
  BY PluginInit, PluginStep, PTL DEF Spec

(* Every variable keeps its type; the stall count never passes its limit.  *)
THEOREM TypeCorrect == Spec => []TypeOK
<1>1. PluginInv => TypeOK
  BY DEF PluginInv
<1>2. QED
  BY <1>1, PluginInvariant, PTL

(* The host's device list never stays different from gDevicePresent:       *)
(* whatever the interleaving of its queries and the monitor, a change is   *)
(* still to be announced or read.                                          *)
THEOREM ListFollows == Spec => []ListFollowsPresence
<1>1. PluginInv => ListFollowsPresence
  BY DEF PluginInv, QueryInv
<1>2. QED
  BY <1>1, PluginInvariant, PTL

(* The monitor withdraws a device only after a full count of polls at      *)
(* which write_frames had not moved.                                       *)
THEOREM RemovalIsLate == Spec => RemovedOnlyAfterStall
<1>1. PluginInv /\ [Next]_vars =>
        [gShm /\ gDevicePresent /\ ~gDevicePresent' => quiet = StallMax]_vars
  <2> SUFFICES ASSUME PluginInv, Next, gShm, gDevicePresent, ~gDevicePresent'
               PROVE  quiet = StallMax
    OBVIOUS
  <2>1. MonitorPolls
    BY DEF Next, Daemon, CreateOpen, CreateHeader, CreateReset, CaptureStarts, CaptureStops, Publish,
           DaemonStops, PluginUnchanged, pluginVars, MonitorThread, MonitorWakes, MonitorAttaches,
           MonitorNotifies, Host, Initialize, Query, QuerySize, QueryData, StartIO, StopIO
  <2>2. ~(StallNext < StallMax) /\ monitor.pc = "poll"
    BY <2>1 DEF MonitorPolls, Present
  <2>3. monitor.stall \in Nat /\ quiet \in Nat /\ quiet <= StallMax /\ StallMax \in Nat
        /\ 0 < StallMax /\ monitor.stall <= StallMax
    <3>1. monitor.stall \in 0 .. StallMax /\ quiet \in 0 .. StallMax
      BY DEF PluginInv, TypeOK
    <3>2. QED
      BY <3>1, Limit
  <2>4. Still
    BY <2>2, <2>3 DEF StallNext
  <2>5. quiet = StallMax \/ monitor.stall + 1 <= quiet
    BY <2>2, <2>4 DEF PluginInv, StallInv, Still
  <2>6. QED
    BY <2>2, <2>3, <2>4, <2>5 DEF StallNext
<1>2. QED
  BY <1>1, PluginInvariant, PTL DEF Spec, RemovedOnlyAfterStall

(* A mapped segment has its magic number and version, wherever AttachShm   *)
(* and the daemons' shm::create meet.                                      *)
THEOREM LayoutKnown == Spec => []MapsKnownLayout
<1>1. Init => MapsKnownLayout
  BY DEF Init, MapsKnownLayout
<1>2. MapsKnownLayout /\ [Next]_vars => MapsKnownLayout'
  <2> SUFFICES ASSUME MapsKnownLayout, [Next]_vars, gShm' PROVE segment' = "ready"
    BY DEF MapsKnownLayout
  <2>1. CASE Daemon
    <3>1. gShm
      BY <2>1 DEF Daemon, CreateOpen, CreateHeader, CreateReset, CaptureStarts, CaptureStops,
                  Publish, DaemonStops, PluginUnchanged, pluginVars
    <3>2. segment = "ready"
      BY <3>1 DEF MapsKnownLayout
    <3>3. QED
      BY <2>1, <3>2 DEF Daemon, CreateOpen, CreateHeader, CreateReset, CaptureStarts,
                        CaptureStops, Publish, DaemonStops
  <2>2. CASE MonitorThread \/ Host
    <3>1. UNCHANGED segment
      BY <2>2 DEF MonitorThread, MonitorWakes, MonitorAttaches, MonitorPolls, MonitorNotifies,
                  Host, Initialize, Query, QuerySize, QueryData, StartIO, StopIO, segmentVars
    <3>2. gShm' = gShm \/ gShm' = Attached
      BY <2>2 DEF MonitorThread, MonitorWakes, MonitorAttaches, MonitorPolls, MonitorNotifies,
                  Host, Initialize, Query, QuerySize, QueryData, StartIO, StopIO, pluginVars
    <3>3. QED
      BY <3>1, <3>2 DEF Attached, MapsKnownLayout
  <2>3. CASE UNCHANGED vars
    BY <2>3 DEF vars, segmentVars, pluginVars, MapsKnownLayout
  <2>4. QED
    BY <2>1, <2>2, <2>3 DEF Next
<1>3. QED
  BY <1>1, <1>2, PTL DEF Spec

-----------------------------------------------------------------------------
(* The mutex and the clients.                                              *)
Started == {h \in HostThreads : thread[h] = "started"}

(* gMutex is held across a step only by a StartIO that waits for itself;   *)
(* nobody has mapped the segment then, and no client can have started      *)
(* without it.                                                             *)
MutexInv ==
  /\ hal.pc = "loading" => ~hal.listed /\ gMutex = Nobody
  /\ gMutex # Nobody => ~gShm
  /\ \A h \in HostThreads : thread[h] = "attach" => gMutex = h
  /\ Started # {} => gShm

(* gIO_Running counts the clients between StartIO and StopIO.              *)
IOCountExact == gIORunning = Cardinality(Started)

ClientInv == MutexInv /\ IsFiniteSet(Started) /\ IOCountExact

LEMMA ClientInit == Init => ClientInv
<1> SUFFICES ASSUME Init PROVE ClientInv
  OBVIOUS
<1>1. Started = {}
  BY DEF Init, Started
<1>2. gIORunning = 0 /\ gMutex = Nobody /\ ~gShm /\ hal.pc = "loading" /\ ~hal.listed
      /\ \A h \in HostThreads : thread[h] = "idle"
  BY DEF Init
<1>3. QED
  BY <1>1, <1>2, FS_EmptySet DEF ClientInv, MutexInv, IOCountExact

(* The steps that touch neither the mutex nor the clients.                 *)
LEMMA ClientKept ==
  ASSUME ClientInv, UNCHANGED <<gMutex, gShm, gIORunning, thread>>,
         hal'.pc = "loading" => hal.pc = "loading" /\ ~hal'.listed
  PROVE  ClientInv'
  BY DEF ClientInv, MutexInv, IOCountExact, Started

LEMMA BystanderStep ==
  ASSUME TypeOK, ClientInv,
         \/ Daemon \/ MonitorWakes \/ MonitorPolls \/ MonitorNotifies \/ Query
         \/ UNCHANGED vars
  PROVE  ClientInv'
<1>1. UNCHANGED <<gMutex, gShm, gIORunning, thread>>
  BY DEF Daemon, CreateOpen, CreateHeader, CreateReset, CaptureStarts, CaptureStops, Publish,
         DaemonStops, PluginUnchanged, pluginVars, MonitorWakes, MonitorPolls, MonitorNotifies,
         Query, QuerySize, QueryData, vars
<1>2. hal \in HalType
  BY DEF TypeOK, HalType
<1>3. \/ UNCHANGED hal
      \/ hal' = [hal EXCEPT !.pending = TRUE]
      \/ hal'.pc # "loading"
  <2>1. CASE Query
    <3>1. CASE QuerySize
      BY <1>2, <3>1 DEF QuerySize, HalType
    <3>2. CASE QueryData
      BY <1>2, <3>2 DEF QueryData, HalType
    <3>3. QED
      BY <2>1, <3>1, <3>2 DEF Query
  <2>2. CASE MonitorNotifies
    BY <2>2 DEF MonitorNotifies
  <2>3. CASE Daemon \/ MonitorWakes \/ MonitorPolls \/ UNCHANGED vars
    BY <2>3 DEF Daemon, CreateOpen, CreateHeader, CreateReset, CaptureStarts, CaptureStops,
         Publish, DaemonStops, PluginUnchanged, MonitorWakes, MonitorPolls, vars
  <2>4. QED
    BY <2>1, <2>2, <2>3
<1>4. hal'.pc = "loading" => hal.pc = "loading" /\ ~hal'.listed
  BY <1>2, <1>3 DEF ClientInv, MutexInv, HalType
<1>5. QED
  BY <1>1, <1>4, ClientKept

LEMMA AttachmentStep ==
  ASSUME TypeOK, ClientInv, Initialize \/ MonitorAttaches
  PROVE  ClientInv'
<1>1. gMutex = Nobody /\ UNCHANGED <<gMutex, gIORunning, thread>>
  BY DEF Initialize, MonitorAttaches, ClientInv, MutexInv
<1>2. gShm => gShm'
  BY DEF Initialize, MonitorAttaches, Attached
<1>3. hal \in HalType
  BY DEF TypeOK, HalType
<1>4. hal'.pc = "loading" => hal.pc = "loading" /\ ~hal'.listed
  BY <1>3 DEF Initialize, MonitorAttaches, HalType, ClientInv, MutexInv
<1>5. QED
  BY <1>1, <1>2, <1>4 DEF ClientInv, MutexInv, IOCountExact, Started

(* A client that starts when another has is in front of a mapped segment.  *)
LEMMA StartIOStep ==
  ASSUME TypeOK, ClientInv, NEW h \in HostThreads, StartIO(h)
  PROVE  ClientInv'
<1>1. /\ thread[h] = "idle" /\ hal.listed /\ gMutex = Nobody /\ hal.pc # "loading"
      /\ UNCHANGED <<gShm, hal>>
      /\ thread \in [HostThreads -> {"idle", "attach", "started"}]
  BY DEF StartIO, TypeOK, ClientInv, MutexInv
<1>2. h # Nobody
  BY PluginAssumption
<1>3. CASE /\ gIORunning = 0 /\ ~gShm /\ gMutex' = h
           /\ thread' = [thread EXCEPT ![h] = "attach"] /\ UNCHANGED gIORunning
  <2>1. Started' = Started
    BY <1>1, <1>3 DEF Started
  <2>2. \A g \in HostThreads : thread'[g] = "attach" => gMutex' = g
    BY <1>1, <1>2, <1>3, PluginAssumption DEF ClientInv, MutexInv
  <2>3. QED
    BY <1>1, <1>3, <2>1, <2>2 DEF ClientInv, MutexInv, IOCountExact
<1>4. CASE /\ gIORunning > 0 \/ gShm
           /\ gIORunning' = gIORunning + 1
           /\ thread' = [thread EXCEPT ![h] = "started"] /\ UNCHANGED gMutex
  <2>1. Started' = Started \cup {h} /\ h \notin Started
    BY <1>1, <1>4 DEF Started
  <2>2. IsFiniteSet(Started') /\ Cardinality(Started') = Cardinality(Started) + 1
    BY <2>1, FS_AddElement DEF ClientInv
  <2>3. gShm
    <3>1. Started = {} => gIORunning = 0
      BY FS_EmptySet DEF ClientInv, IOCountExact
    <3>2. QED
      BY <1>4, <3>1 DEF ClientInv, MutexInv
  <2>4. \A g \in HostThreads : thread'[g] = "attach" => gMutex' = g
    BY <1>1, <1>4 DEF ClientInv, MutexInv
  <2>5. QED
    BY <1>1, <1>4, <2>2, <2>3, <2>4 DEF ClientInv, MutexInv, IOCountExact
<1>5. QED
  BY <1>3, <1>4 DEF StartIO

LEMMA StopIOStep ==
  ASSUME TypeOK, ClientInv, NEW h \in HostThreads, StopIO(h)
  PROVE  ClientInv' /\ gIORunning > 0
<1>1. /\ thread[h] = "started" /\ thread' = [thread EXCEPT ![h] = "idle"]
      /\ UNCHANGED <<gMutex, gShm, hal>>
      /\ thread \in [HostThreads -> {"idle", "attach", "started"}]
  BY DEF StopIO, TypeOK
<1>2. Started' = Started \ {h} /\ h \in Started
  BY <1>1 DEF Started
<1>3. /\ IsFiniteSet(Started') /\ Cardinality(Started') = Cardinality(Started) - 1
      /\ Cardinality(Started') \in Nat /\ Cardinality(Started) \in Nat
  BY <1>2, FS_RemoveElement, FS_CardinalityType DEF ClientInv
<1>4. gIORunning > 0
  BY <1>3 DEF ClientInv, IOCountExact
<1>5. gIORunning' = gIORunning - 1
  BY <1>4 DEF StopIO
<1>6. MutexInv'
  BY <1>1, <1>2 DEF ClientInv, MutexInv
<1>7. IOCountExact'
  BY <1>3, <1>5 DEF ClientInv, IOCountExact
<1>8. QED
  BY <1>3, <1>4, <1>6, <1>7 DEF ClientInv

LEMMA ClientStep == TypeOK /\ ClientInv /\ [Next]_vars => ClientInv'
  BY BystanderStep, AttachmentStep, StartIOStep, StopIOStep DEF Next, MonitorThread, Host

LEMMA ClientInvariant == Spec => []ClientInv
  BY ClientInit, ClientStep, TypeCorrect, PTL DEF Spec

(* gIO_Running is the number of clients that have started and not stopped, *)
(* for any host threads: it never drifts.                                  *)
THEOREM ClientsCounted == Spec => []IOCountExact
<1>1. ClientInv => IOCountExact
  BY DEF ClientInv
<1>2. QED
  BY <1>1, ClientInvariant, PTL

(* StopIO never finds the count at zero: its clamp (Line6HAL.c:649) cannot *)
(* act under a host that stops only what it has started.                   *)
ClampUnused == [][\A h \in HostThreads : StopIO(h) => gIORunning > 0]_vars

THEOREM ClampNeverActs == Spec => ClampUnused
<1>1. TypeOK /\ ClientInv /\ [Next]_vars =>
        [\A h \in HostThreads : StopIO(h) => gIORunning > 0]_vars
  BY StopIOStep
<1>2. QED
  BY <1>1, ClientInvariant, TypeCorrect, PTL DEF Spec, ClampUnused

(* Once the segment is mapped it stays mapped, the mutex is free between   *)
(* the steps of its critical sections, and no thread waits for itself: the *)
(* lock that AttachShm takes again inside StartIO can bite only before the *)
(* first attachment.                                                       *)
AttachedRunsFree ==
  gShm => gMutex = Nobody /\ \A h \in HostThreads : thread[h] # "attach"

StaysAttached == [][gShm => gShm']_vars

THEOREM AttachedNeverBlocks == Spec => []AttachedRunsFree /\ StaysAttached
<1>1. ClientInv => AttachedRunsFree
  BY PluginAssumption DEF ClientInv, MutexInv, AttachedRunsFree
<1>2. [Next]_vars => [gShm => gShm']_vars
  BY DEF Next, Daemon, CreateOpen, CreateHeader, CreateReset, CaptureStarts, CaptureStops, Publish,
         DaemonStops, PluginUnchanged, pluginVars, MonitorThread, MonitorWakes, MonitorAttaches,
         MonitorPolls, MonitorNotifies, Attached, Host, Initialize, Query, QuerySize, QueryData,
         StartIO, StopIO, vars
<1>3. QED
  BY <1>1, <1>2, ClientInvariant, PTL DEF Spec, StaysAttached

(* A StartIO that waits for itself keeps the mutex for good, and no thread *)
(* maps the segment any more: the first finding is not transient.          *)
WaitsForGood == [][gMutex # Nobody => gMutex' = gMutex /\ ~gShm']_vars

THEOREM WaitIsForGood == Spec => WaitsForGood
<1>1. TypeOK /\ ClientInv /\ [Next]_vars => [gMutex # Nobody => gMutex' = gMutex /\ ~gShm']_vars
  <2> SUFFICES ASSUME TypeOK, ClientInv, Next, gMutex # Nobody
               PROVE  gMutex' = gMutex /\ ~gShm'
    OBVIOUS
  <2>1. ~gShm /\ hal.pc # "loading"
    BY DEF ClientInv, MutexInv
  <2>2. UNCHANGED <<gMutex, gShm>>
    BY <2>1 DEF Next, Daemon, CreateOpen, CreateHeader, CreateReset, CaptureStarts, CaptureStops,
         Publish, DaemonStops, PluginUnchanged, pluginVars, MonitorThread, MonitorWakes,
         MonitorAttaches, MonitorPolls, MonitorNotifies, Host, Initialize, Query, QuerySize,
         QueryData, StartIO, StopIO
  <2>3. QED
    BY <2>1, <2>2
<1>2. QED
  BY <1>1, ClientInvariant, TypeCorrect, PTL DEF Spec, WaitsForGood

(* A plugin that is loaded when the daemon has already made the segment    *)
(* attaches before the host can list the device, and then no thread ever   *)
(* waits for itself.                                                       *)
NoneWaits == \A h \in HostThreads : thread[h] # "attach"

SegmentInv == segment = "ready" /\ (hal.pc # "loading" => gShm)

THEOREM ReadyNeverBlocks ==
  ASSUME FirstSegments = {"ready"}
  PROVE  Spec => []NoneWaits
<1>1. Init => SegmentInv
  BY DEF Init, SegmentInv
<1>2. TypeOK /\ SegmentInv /\ [Next]_vars => SegmentInv'
  <2> SUFFICES ASSUME TypeOK, SegmentInv, [Next]_vars PROVE SegmentInv'
    OBVIOUS
  <2>1. segment' = "ready"
    BY DEF SegmentInv, Next, Daemon, CreateOpen, CreateHeader, CreateReset, CaptureStarts,
         CaptureStops, Publish, DaemonStops, MonitorThread, MonitorWakes,
         MonitorAttaches, MonitorPolls, MonitorNotifies, Host, Initialize, Query, QuerySize,
         QueryData, StartIO, StopIO, segmentVars, vars
  <2>2. CASE Initialize
    BY <2>1, <2>2 DEF Initialize, Attached, SegmentInv
  <2>3. CASE ~Initialize
    <3>1. gShm => gShm'
      BY <2>3 DEF Next, Daemon, CreateOpen, CreateHeader, CreateReset, CaptureStarts, CaptureStops,
         Publish, DaemonStops, PluginUnchanged, pluginVars, MonitorThread, MonitorWakes,
         MonitorAttaches, MonitorPolls, MonitorNotifies, Attached, Host, Query, QuerySize,
         QueryData, StartIO, StopIO, vars
    <3>2. hal \in HalType
      BY DEF TypeOK, HalType
    <3>3. hal.pc = "loading" => hal'.pc = "loading"
      BY <2>3, <3>2 DEF HalType, Next, Daemon, CreateOpen, CreateHeader, CreateReset,
         CaptureStarts, CaptureStops, Publish, DaemonStops, PluginUnchanged, MonitorThread,
         MonitorWakes, MonitorAttaches, MonitorPolls, MonitorNotifies, Host, Query, QuerySize,
         QueryData, StartIO, StopIO, vars
    <3>4. QED
      BY <2>1, <3>1, <3>3 DEF SegmentInv
  <2>4. QED
    BY <2>2, <2>3
<1>3. ClientInv /\ SegmentInv => NoneWaits
  <2> SUFFICES ASSUME ClientInv, SegmentInv, NEW h \in HostThreads, thread[h] = "attach"
               PROVE  FALSE
    BY DEF NoneWaits
  <2>1. gMutex = h /\ h # Nobody
    BY PluginAssumption DEF ClientInv, MutexInv
  <2>2. QED
    BY <2>1 DEF ClientInv, MutexInv, SegmentInv
<1>4. QED
  BY <1>1, <1>2, <1>3, ClientInvariant, TypeCorrect, PTL DEF Spec

-----------------------------------------------------------------------------
(* The abstract monitor.  What the monitor has seen, it has seen of a      *)
(* mapped segment.                                                         *)
SeenInv == monitor.haveLast => gShm

(* The daemon moves the counter; the host's queries and clients are not    *)
(* seen.                                                                   *)
LEMMA CounterShown ==
  ASSUME TypeOK, SeenInv, Daemon
  PROVE  [Watch!Next]_(Watch!vars) /\ SeenInv'
<1>1. UNCHANGED <<gShm, gDevicePresent, monitor>>
  BY DEF Daemon, CreateOpen, CreateHeader, CreateReset, CaptureStarts, CaptureStops, Publish,
         DaemonStops, PluginUnchanged, pluginVars
<1>2. ~gShm => ~monitor.haveLast
  BY DEF SeenInv
<1>3. Watch!Changes
  BY <1>1, <1>2 DEF Watch!Changes
<1>4. QED
  BY <1>1, <1>3 DEF Watch!Next, SeenInv

LEMMA PollShown ==
  ASSUME TypeOK, SeenInv, MonitorPolls
  PROVE  [Watch!Next]_(Watch!vars) /\ SeenInv'
<1>0. gShm \in BOOLEAN /\ gap \in {"same", "below", "above"} /\ monitor.haveLast \in BOOLEAN
  BY DEF TypeOK
<1>1. /\ monitor'.haveLast = gShm /\ monitor'.stall = StallNext
      /\ gap' = (IF gShm THEN "same" ELSE gap) /\ gShm' = gShm
      /\ gDevicePresent' = (gShm /\ StallNext < StallMax)
  BY DEF MonitorPolls, Present
<1>2. CASE ~gShm
  <2>1. ~monitor.haveLast /\ StallNext = monitor.stall
    BY <1>2 DEF SeenInv, StallNext, Still
  <2>2. Watch!Polls
    BY <1>1, <1>2, <2>1 DEF Watch!Polls
  <2>3. QED
    BY <1>1, <2>2 DEF Watch!Next, SeenInv
<1>3. CASE gShm /\ Still
  <2>1. StallNext = IF monitor.stall < StallMax THEN monitor.stall + 1 ELSE monitor.stall
    BY <1>3 DEF StallNext
  <2>2. monitor.haveLast /\ gap = "same" /\ monitor'.haveLast /\ gap' = "same"
    BY <1>1, <1>3 DEF Still
  <2>3. Watch!Polls
    BY <1>1, <1>3, <2>1, <2>2 DEF Watch!Polls
  <2>4. QED
    BY <1>1, <2>3 DEF Watch!Next, SeenInv
<1>4. CASE gShm /\ ~Still
  <2>1. StallNext = 0
    BY <1>4 DEF StallNext
  <2>2. (~monitor.haveLast \/ gap # "same") /\ monitor'.haveLast /\ gap' = "same"
    BY <1>1, <1>4 DEF Still
  <2>3. Watch!Polls
    BY <1>1, <1>4, <2>1, <2>2 DEF Watch!Polls
  <2>4. QED
    BY <1>1, <2>3 DEF Watch!Next, SeenInv
<1>5. QED
  BY <1>0, <1>2, <1>3, <1>4

(* Initialize and the monitor may map the segment.                         *)
LEMMA MappingShown ==
  ASSUME TypeOK, SeenInv, Initialize \/ MonitorAttaches
  PROVE  [Watch!Next]_(Watch!vars) /\ SeenInv'
<1>0. monitor \in MonitorType /\ gShm \in BOOLEAN
  BY DEF TypeOK, MonitorType
<1>1. monitor'.haveLast = monitor.haveLast /\ monitor'.stall = monitor.stall
  BY <1>0 DEF Initialize, MonitorAttaches, MonitorType
<1>2. UNCHANGED <<gap, gDevicePresent>> /\ gShm' \in BOOLEAN /\ (gShm => gShm')
  BY <1>0 DEF Initialize, MonitorAttaches, Attached, segmentVars
<1>3. CASE gShm' = gShm
  BY <1>1, <1>2, <1>3 DEF Watch!vars, SeenInv
<1>4. CASE ~gShm /\ gShm'
  <2>1. Watch!Maps
    BY <1>1, <1>2, <1>4 DEF Watch!Maps
  <2>2. QED
    BY <1>4, <2>1 DEF Watch!Next, SeenInv
<1>5. QED
  BY <1>0, <1>2, <1>3, <1>4

LEMMA RestUnseen ==
  ASSUME TypeOK, SeenInv,
         \/ MonitorWakes \/ MonitorNotifies \/ Query \/ UNCHANGED vars
         \/ \E h \in HostThreads : StartIO(h) \/ StopIO(h)
  PROVE  [Watch!Next]_(Watch!vars) /\ SeenInv'
<1>0. monitor \in MonitorType
  BY DEF TypeOK, MonitorType
<1>1. UNCHANGED <<gShm, gap, gDevicePresent>>
  BY DEF MonitorWakes, MonitorNotifies, Query, QuerySize, QueryData, StartIO, StopIO, vars,
         segmentVars, pluginVars
<1>2. monitor'.haveLast = monitor.haveLast /\ monitor'.stall = monitor.stall
  <2>1. CASE MonitorWakes \/ MonitorNotifies
    BY <1>0, <2>1 DEF MonitorWakes, MonitorNotifies, MonitorType
  <2>2. CASE \/ Query \/ UNCHANGED vars
             \/ \E h \in HostThreads : StartIO(h) \/ StopIO(h)
    BY <2>2 DEF Query, QuerySize, QueryData, StartIO, StopIO, vars
  <2>3. QED
    BY <2>1, <2>2
<1>3. QED
  BY <1>1, <1>2 DEF Watch!vars, SeenInv

(* The presence monitor implements the abstract one, whoever maps the      *)
(* segment and whatever becomes of the counter.                            *)
THEOREM MonitorWatches == Spec => WatchesCounter
<1>1. Init => Watch!Init /\ SeenInv
  <2> SUFFICES ASSUME Init PROVE Watch!Init /\ SeenInv
    OBVIOUS
  <2>1. ~monitor.haveLast /\ monitor.stall = 0
    BY DEF Init
  <2>2. gShm = FALSE /\ gDevicePresent = TRUE
    BY DEF Init
  <2>3. (~monitor.haveLast \/ gap # "same") = TRUE
    BY <2>1
  <2>4. Watch!Init
    BY <2>1, <2>2, <2>3, Zenon DEF Watch!Init
  <2>5. QED
    BY <2>1, <2>4 DEF SeenInv
<1>2. TypeOK /\ SeenInv /\ [Next]_vars => [Watch!Next]_(Watch!vars) /\ SeenInv'
  BY CounterShown, PollShown, MappingShown, RestUnseen DEF Next, MonitorThread, Host
<1>3. QED
  BY <1>1, <1>2, TypeCorrect, PTL DEF Spec, WatchesCounter, Watch!Spec
=============================================================================
