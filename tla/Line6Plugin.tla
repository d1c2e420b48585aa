----------------------------- MODULE Line6Plugin -----------------------------
(***************************************************************************)
(* The plugin's attachment to the segment and its presence monitor: the    *)
(* header as shm::create builds it, AttachShm and the mutex it takes, the  *)
(* monitor thread that polls write_frames and tells the host to look at    *)
(* the device list again, the host's Size and Data queries of that list,   *)
(* and StartIO/StopIO as users of the same mutex.                          *)
(*                                                                         *)
(* The monitor only compares write_frames with the value it saw last, so   *)
(* the counter is abstracted to that comparison (gap).  Time is abstracted *)
(* to the monitor's half-second polls: a capturing daemon, which publishes *)
(* every few milliseconds, publishes at least once between two polls       *)
(* (due).  What happens to the audio is Line6Ring's subject.               *)
(***************************************************************************)
EXTENDS Naturals

CONSTANTS
  StallMax,        \* PRESENCE_STALL_MAX
  HostThreads,     \* the host's threads that start and stop IO
  FirstSegments,   \* the states the segment may be in when the plugin is loaded
  MonitorStarts,   \* the outcomes of pthread_create: TRUE, FALSE or either
  Nobody           \* the owner of a free mutex

Monitor == "monitor"
Progress == {"none", "unsized", "blank", "magic", "ready"}

ASSUME PluginAssumption ==
  /\ StallMax \in Nat \ {0}
  /\ FirstSegments \subseteq Progress
  /\ MonitorStarts \subseteq BOOLEAN
  /\ Nobody \notin HostThreads \cup {Monitor}
  /\ Monitor \notin HostThreads

VARIABLES
  segment,         \* how much of the segment exists: no object; an object of size
                   \* zero; zeroes; the magic number; magic and version
  daemon,          \* the daemon: down, inside shm::create, idle, or capturing
  gap,             \* write_frames against the monitor's lastWf
  due,             \* a capturing daemon has yet to publish in this poll interval
  gMutex,          \* who holds gMutex
  gShm,            \* gShm # NULL
  gDevicePresent,
  gIORunning,      \* gIO_Running
  monitor,         \* the presence monitor: pc, haveLast, stall
  thread,          \* each host thread: idle, or inside the AttachShm of StartIO
  hal,             \* the host: a notification to act on, its query of the device
                   \* list, whether it has the device listed
  quiet            \* history: polls since write_frames last changed, up to StallMax

segmentVars == <<segment, daemon, gap, due>>
pluginVars == <<gMutex, gShm, gDevicePresent, gIORunning>>
vars == <<segmentVars, pluginVars, monitor, thread, hal, quiet>>

Init ==
  /\ segment \in FirstSegments
  /\ daemon = "down"
  /\ gap = "same"
  /\ due = FALSE
  /\ gMutex = Nobody
  /\ gShm = FALSE
  /\ gDevicePresent = TRUE
  /\ gIORunning = 0
  /\ monitor = [pc |-> "none", haveLast |-> FALSE, stall |-> 0]
  /\ thread = [h \in HostThreads |-> "idle"]
  /\ hal = [pending |-> TRUE, pc |-> "loading", size |-> FALSE, listed |-> FALSE]
  /\ quiet = 0

-----------------------------------------------------------------------------
(* The daemon and its segment.  Each store another process can see in      *)
(* between is a step; where the segment is already that far the store      *)
(* rewrites what is there.                                                 *)

PluginUnchanged == UNCHANGED <<pluginVars, monitor, thread, hal>>

(* shm_open(O_CREAT), by a fresh process or for another device model.      *)
CreateOpen ==
  /\ daemon \in {"down", "idle"}
  /\ daemon' = "create"
  /\ segment' = IF segment = "none" THEN "unsized" ELSE segment
  /\ UNCHANGED <<gap, due, quiet>> /\ PluginUnchanged

(* ftruncate, then magic, then version.                                    *)
CreateHeader ==
  /\ daemon = "create"
  /\ \/ segment = "unsized" /\ segment' = "blank"
     \/ segment = "blank" /\ segment' = "magic"
     \/ segment = "magic" /\ segment' = "ready"
  /\ UNCHANGED <<daemon, gap, due, quiet>> /\ PluginUnchanged

(* write_frames.store(0): below the monitor's lastWf, or equal to it if    *)
(* that was zero too.  A counter that has come back to the very value the  *)
(* monitor saw looks still to it, and counts as quiet.                     *)
CreateReset ==
  /\ daemon = "create" /\ segment = "ready"
  /\ daemon' = "idle"
  /\ \/ gap' = "below" /\ quiet' = 0
     \/ gap = "same" /\ UNCHANGED <<gap, quiet>>
     \/ gap = "above" /\ gap' = "same" /\ quiet' = StallMax
  /\ UNCHANGED <<segment, due>> /\ PluginUnchanged

(* Capture starts, and stops: unplugged, wedged, or torn down.             *)
CaptureStarts ==
  /\ daemon = "idle"
  /\ daemon' = "capture"
  /\ UNCHANGED <<segment, gap, due, quiet>> /\ PluginUnchanged

CaptureStops ==
  /\ daemon = "capture"
  /\ daemon' = "idle"
  /\ due' = FALSE
  /\ UNCHANGED <<segment, gap, quiet>> /\ PluginUnchanged

(* push_frames publishes.  A counter that was reset may be below, at or    *)
(* past the value the monitor saw before the reset.                        *)
Publish ==
  /\ daemon = "capture"
  /\ gap' \in IF gap = "below" THEN {"below", "same", "above"} ELSE {"above"}
  /\ due' = FALSE
  /\ quiet' = IF gap' = "same" THEN StallMax ELSE 0
  /\ UNCHANGED <<segment, daemon>> /\ PluginUnchanged

DaemonStops ==
  /\ daemon # "down"
  /\ daemon' = "down"
  /\ due' = FALSE
  /\ UNCHANGED <<segment, gap, quiet>> /\ PluginUnchanged

-----------------------------------------------------------------------------
(* The plugin.                                                             *)

(* Mutant: the version is not compared.                                    *)
AttachedByMagic == gShm \/ segment \in {"magic", "ready"}

(* AttachShm's critical section: shm_open, mmap and the header check fail  *)
(* unless magic and version are there.                                     *)
Attached == gShm \/ segment = "ready"

(* Initialize: an attempt to attach, and the monitor thread, which may not *)
(* start.  The host then reads the device list for the first time.         *)
Initialize ==
  /\ hal.pc = "loading"
  /\ gShm' = Attached
  /\ \E ok \in MonitorStarts :
       monitor' = [monitor EXCEPT !.pc = IF ok THEN "sleep" ELSE "none"]
  /\ hal' = [hal EXCEPT !.pc = "idle"]
  /\ UNCHANGED <<segmentVars, gMutex, gDevicePresent, gIORunning, thread, quiet>>

(* The monitor wakes and enters AttachShm, whose fast path returns at once *)
(* when the segment is mapped.                                             *)
MonitorWakes ==
  /\ monitor.pc = "sleep"
  /\ ~due
  /\ due' = (daemon = "capture")
  /\ quiet' = IF quiet < StallMax THEN quiet + 1 ELSE quiet
  /\ monitor' = [monitor EXCEPT !.pc = IF gShm THEN "poll" ELSE "attach"]
  /\ UNCHANGED <<segment, daemon, gap, pluginVars, thread, hal>>

MonitorAttaches ==
  /\ monitor.pc = "attach"
  /\ gMutex = Nobody
  /\ gShm' = Attached
  /\ monitor' = [monitor EXCEPT !.pc = "poll"]
  /\ UNCHANGED <<segmentVars, gMutex, gDevicePresent, gIORunning, thread, hal, quiet>>

(* The counter has not moved since the last poll.                          *)
Still == gShm /\ monitor.haveLast /\ gap = "same"

(* Mutants: growth does not clear the stall counter; stillness does not    *)
(* count; the count has no limit.                                          *)
StallNextKept == IF Still /\ monitor.stall < StallMax THEN monitor.stall + 1 ELSE monitor.stall
StallNextLost == IF Still THEN monitor.stall ELSE 0

StallNextUncapped == IF Still THEN monitor.stall + 1 ELSE 0

(* stall after this poll: counted up to PRESENCE_STALL_MAX, cleared by     *)
(* growth, left alone while there is no segment.                           *)
StallNext ==
  IF Still /\ monitor.stall < StallMax THEN monitor.stall + 1
  ELSE IF Still \/ ~gShm THEN monitor.stall
  ELSE 0

(* Mutant: a device once removed stays removed.                            *)
PresentLatched == gDevicePresent /\ gShm /\ StallNext < StallMax

Present == gShm /\ StallNext < StallMax

(* The monitor compares write_frames with what it saw last, and exchanges  *)
(* gDevicePresent.                                                         *)
MonitorPolls ==
  /\ monitor.pc = "poll"
  /\ gDevicePresent' = Present
  /\ monitor' = [pc |-> IF Present # gDevicePresent THEN "notify" ELSE "sleep",
                 haveLast |-> gShm, stall |-> StallNext]
  /\ gap' = IF gShm THEN "same" ELSE gap
  /\ UNCHANGED <<segment, daemon, due, gMutex, gShm, gIORunning, thread, hal, quiet>>

(* Mutant: only a device that appears is announced.                        *)
MonitorNotifiesArrival ==
  /\ monitor.pc = "notify"
  /\ hal' = [hal EXCEPT !.pending = hal.pending \/ gDevicePresent]
  /\ monitor' = [monitor EXCEPT !.pc = "sleep"]
  /\ UNCHANGED <<segmentVars, pluginVars, thread, quiet>>

(* NotifyDeviceList: PropertiesChanged, without the mutex.                 *)
MonitorNotifies ==
  /\ monitor.pc = "notify"
  /\ hal' = [hal EXCEPT !.pending = TRUE]
  /\ monitor' = [monitor EXCEPT !.pc = "sleep"]
  /\ UNCHANGED <<segmentVars, pluginVars, thread, quiet>>

-----------------------------------------------------------------------------
(* The host.                                                               *)

(* GetPropertyDataSize(kAudioPlugInPropertyDeviceList).                    *)
QuerySize ==
  /\ hal.pc = "idle" /\ hal.pending
  /\ hal' = [hal EXCEPT !.pending = FALSE, !.pc = "sized", !.size = gDevicePresent]
  /\ UNCHANGED <<segmentVars, pluginVars, monitor, thread, quiet>>

(* GetPropertyData into a buffer of that size: the device is stored only   *)
(* if it is present and the buffer holds it.                               *)
QueryData ==
  /\ hal.pc = "sized"
  /\ hal' = [hal EXCEPT !.pc = "idle", !.listed = gDevicePresent /\ hal.size]
  /\ UNCHANGED <<segmentVars, pluginVars, monitor, thread, quiet>>

(* StartIO takes the mutex.  If the first client finds no segment mapped   *)
(* it calls AttachShm, which locks the same default mutex: the thread now  *)
(* waits for itself, and has no further step.  With the segment mapped     *)
(* AttachShm returns at once.                                              *)
StartIO(h) ==
  /\ thread[h] = "idle" /\ hal.listed
  /\ gMutex = Nobody
  /\ \/ /\ gIORunning = 0 /\ ~gShm
        /\ gMutex' = h
        /\ thread' = [thread EXCEPT ![h] = "attach"]
        /\ UNCHANGED gIORunning
     \/ /\ gIORunning > 0 \/ gShm
        /\ gIORunning' = gIORunning + 1
        /\ thread' = [thread EXCEPT ![h] = "started"]
        /\ UNCHANGED gMutex
  /\ UNCHANGED <<segmentVars, gShm, gDevicePresent, monitor, hal, quiet>>

StopIO(h) ==
  /\ thread[h] = "started"
  /\ gMutex = Nobody
  /\ gIORunning' = IF gIORunning > 0 THEN gIORunning - 1 ELSE 0
  /\ thread' = [thread EXCEPT ![h] = "idle"]
  /\ UNCHANGED <<segmentVars, gMutex, gShm, gDevicePresent, monitor, hal, quiet>>

-----------------------------------------------------------------------------
Daemon ==
  CreateOpen \/ CreateHeader \/ CreateReset \/ CaptureStarts \/ CaptureStops
  \/ Publish \/ DaemonStops

MonitorThread == MonitorWakes \/ MonitorAttaches \/ MonitorPolls \/ MonitorNotifies

Query == QuerySize \/ QueryData

Host == Initialize \/ Query \/ \E h \in HostThreads : StartIO(h) \/ StopIO(h)

Next == Daemon \/ MonitorThread \/ Host

Spec == Init /\ [][Next]_vars

(* The monitor thread is scheduled, a capturing daemon publishes, and the  *)
(* host loads the plugin and answers a notification with a query.  Nothing *)
(* makes a daemon run, a capture start, or a client start or stop.         *)
FairSpec ==
  /\ Spec
  /\ WF_vars(Initialize) /\ WF_vars(Query)
  /\ WF_vars(MonitorThread)
  /\ WF_vars(Publish)

-----------------------------------------------------------------------------
(* Properties.                                                             *)

(* Every variable has its type.                                            *)
TypeOK ==
  /\ segment \in Progress
  /\ daemon \in {"down", "create", "idle", "capture"}
  /\ gap \in {"same", "below", "above"}
  /\ due \in BOOLEAN
  /\ gMutex \in HostThreads \cup {Nobody}
  /\ gShm \in BOOLEAN
  /\ gDevicePresent \in BOOLEAN
  /\ gIORunning \in Nat
  /\ monitor \in [pc : {"none", "sleep", "attach", "poll", "notify"},
                  haveLast : BOOLEAN, stall : 0 .. StallMax]
  /\ thread \in [HostThreads -> {"idle", "attach", "started"}]
  /\ hal \in [pending : BOOLEAN, pc : {"loading", "idle", "sized"},
              size : BOOLEAN, listed : BOOLEAN]
  /\ quiet \in 0 .. StallMax

(* PresenceMonitor never removes a device that captures: once attached, it *)
(* withdraws the device only after PRESENCE_STALL_MAX polls during which   *)
(* write_frames did not move, or when a reset and the growth after it have *)
(* brought write_frames back to the very value the monitor saw last.       *)
RemovedOnlyAfterStall ==
  [][gShm /\ gDevicePresent /\ ~gDevicePresent' => quiet = StallMax]_vars

(* The host's device list agrees with gDevicePresent whenever no change    *)
(* is still being announced or read, although its Size and Data calls and  *)
(* the monitor's exchange and notification interleave freely.              *)
ListFollowsPresence ==
  hal.pc = "idle" /\ ~hal.pending /\ monitor.pc # "notify" =>
    hal.listed = gDevicePresent

(* docs/ARCHITECTURE.md, "when it grows again the device reappears": while *)
(* capture goes on, the host sooner or later lists the device for good.    *)
DeviceReappears == <>[](daemon = "capture") => <>[](hal.listed)

(* The monitor thread has started, and no StartIO waits for itself.        *)
Watched ==
  /\ hal.pc # "loading" => monitor.pc # "none"
  /\ \A h \in HostThreads : thread[h] # "attach"

(* The same, from whatever the plugin finds when it is loaded, as long as  *)
(* the plugin's threads can run.                                           *)
DeviceReturns == []Watched => DeviceReappears

(* PresenceMonitor withdraws the device of a daemon that has gone for      *)
(* good, and the host drops it, under the same condition.                  *)
DeviceDisappears == []Watched /\ <>[](daemon = "down") => <>[](~hal.listed)

(* A mapped segment has its magic number and version.  AttachShm may come  *)
(* between any two stores of shm::create and maps nothing before those     *)
(* two, and no later daemon, which may end between any two of them, takes  *)
(* them away again.  (The fields stored after them may still be to come:   *)
(* Line6Objects reads them then.)                                          *)
MapsKnownLayout == gShm => segment = "ready"

(* The monitor watches the counter as the abstract monitor does, although  *)
(* the segment may be mapped by Initialize or by itself, at any moment of  *)
(* its construction, and the counter may come back to an old value.        *)
Watch == INSTANCE Line6Watch WITH
  mapped <- gShm,
  moved <- ~monitor.haveLast \/ gap # "same",
  stall <- monitor.stall,
  present <- gDevicePresent

WatchesCounter == Watch!Spec
=============================================================================
