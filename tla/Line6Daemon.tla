---------------------------- MODULE Line6Daemon ----------------------------
(***************************************************************************)
(* The daemon's main loop (main.rs): look for a device, describe it in the *)
(* segment, start the engine, watch its progress, tear it down, and exit   *)
(* on a signal, on an error or, with --exit-when-absent, when no device is *)
(* found.  Several instances of the process can run at once; an instance   *)
(* can be killed and launched again.                                       *)
(*                                                                         *)
(* External, seen through the calls main.rs makes: the USB bus (devices    *)
(* come and go, libusb may fail while it does not work), the kernel's      *)
(* exclusive claim of an interface, and launchd.  Line6Usb opens up the    *)
(* engine's start and stop, Line6Plugin the writing of the header.         *)
(***************************************************************************)
EXTENDS Integers, FiniteSets

CONSTANTS
  Devices,         \* the supported devices of devices.rs
  Instances,       \* the processes that may run the daemon
  None,            \* no device, no instance
  StallRounds,     \* WATCHDOG_STALL_S, in rounds of handle_events
  ExitGrace        \* ABSENT_EXIT_GRACE

ASSUME DaemonAssumption ==
  /\ IsFiniteSet(Devices) /\ IsFiniteSet(Instances)
  /\ None \notin Devices \cup Instances
  /\ StallRounds \in Nat /\ ExitGrace \in Nat \ {0}

VARIABLES
  plugged,         \* the devices on the bus
  works,           \* libusb and the devices do what they are asked
  owner,           \* who has claimed each device's audio interface
  segment,         \* the header: the device described, the instance that wrote it
  exitWhenAbsent,  \* --exit-when-absent, for all instances
  pc,              \* where each instance is in run_daemon
  exit,            \* why each instance ended last
  RUNNING,         \* the flag on_signal clears
  device,          \* the device of the current look or capture
  shmPid,          \* shm_pid, None while shm_ptr is NULL
  absent,          \* absent_count
  missed,          \* history: looks in a row that found nothing
  alive,           \* the capture's transfers still deliver
  moved,           \* write_frames differs from last_wf
  quiet            \* rounds since last_progress

bus == <<plugged, works>>
process == <<pc, exit, RUNNING, device, shmPid, absent, missed, alive, moved, quiet>>
vars == <<bus, owner, segment, exitWhenAbsent, process>>

Init ==
  /\ plugged \in SUBSET Devices
  /\ works \in BOOLEAN
  /\ owner = [d \in Devices |-> None]
  /\ segment = [describes |-> None, creator |-> None]
  /\ exitWhenAbsent \in BOOLEAN
  /\ pc = [i \in Instances |-> "off"]
  /\ exit = [i \in Instances |-> "never ran"]
  /\ RUNNING = [i \in Instances |-> FALSE]
  /\ device = [i \in Instances |-> None]
  /\ shmPid = [i \in Instances |-> None]
  /\ absent = [i \in Instances |-> 0]
  /\ missed = [i \in Instances |-> 0]
  /\ alive = [i \in Instances |-> FALSE]
  /\ moved = [i \in Instances |-> FALSE]
  /\ quiet = [i \in Instances |-> 0]

Capturing(i) == pc[i] = "run"

(* What the kernel releases when i drops its engine or dies.               *)
Released(i) == [d \in Devices |-> IF owner[d] = i THEN None ELSE owner[d]]

-----------------------------------------------------------------------------
(* The bus and the user.                                                   *)

Plug(d) ==
  /\ d \notin plugged
  /\ plugged' = plugged \cup {d}
  /\ UNCHANGED <<works, owner, segment, exitWhenAbsent, process>>

(* The handle of an unplugged device is dead, whatever is plugged later.   *)
Unplug(d) ==
  /\ d \in plugged
  /\ plugged' = plugged \ {d}
  /\ owner' = [owner EXCEPT ![d] = None]
  /\ alive' = [i \in Instances |-> alive[i] /\ device[i] # d]
  /\ UNCHANGED <<works, segment, exitWhenAbsent,
                 pc, exit, RUNNING, device, shmPid, absent, missed, moved, quiet>>

(* Calls start to fail, and transfers may wedge for good.                  *)
Falter ==
  /\ works
  /\ works' = FALSE
  /\ \E wedged \in SUBSET Instances : alive' = [i \in Instances |-> alive[i] /\ i \notin wedged]
  /\ UNCHANGED <<plugged, owner, segment, exitWhenAbsent,
                 pc, exit, RUNNING, device, shmPid, absent, missed, moved, quiet>>

Recover ==
  /\ ~works
  /\ works' = TRUE
  /\ UNCHANGED <<plugged, owner, segment, exitWhenAbsent, process>>

(* SIGINT or SIGTERM.                                                      *)
Signal(i) ==
  /\ pc[i] # "off" /\ RUNNING[i]
  /\ RUNNING' = [RUNNING EXCEPT ![i] = FALSE]
  /\ UNCHANGED <<bus, owner, segment, exitWhenAbsent,
                 pc, exit, device, shmPid, absent, missed, alive, moved, quiet>>

Ends(i, reason) ==
  /\ pc' = [pc EXCEPT ![i] = "off"]
  /\ exit' = [exit EXCEPT ![i] = reason]
  /\ owner' = Released(i)
  /\ alive' = [alive EXCEPT ![i] = FALSE]

(* A crash or SIGKILL, anywhere.                                           *)
Kill(i) ==
  /\ pc[i] # "off"
  /\ Ends(i, "killed")
  /\ UNCHANGED <<bus, segment, exitWhenAbsent,
                 RUNNING, device, shmPid, absent, missed, moved, quiet>>

(* launchd or a user starts the process.                                   *)
Launch(i) ==
  /\ pc[i] = "off"
  /\ pc' = [pc EXCEPT ![i] = "loop"]
  /\ RUNNING' = [RUNNING EXCEPT ![i] = TRUE]
  /\ shmPid' = [shmPid EXCEPT ![i] = None]
  /\ absent' = [absent EXCEPT ![i] = 0]
  /\ missed' = [missed EXCEPT ![i] = 0]
  /\ device' = [device EXCEPT ![i] = None]
  /\ UNCHANGED <<bus, owner, segment, exitWhenAbsent, exit, alive, moved, quiet>>

-----------------------------------------------------------------------------
(* The loop without an engine.                                             *)

(* The loop's condition fails; the engine, if any, is stopped.             *)
LoopEnds(i) ==
  /\ pc[i] \in {"loop", "run"}
  /\ ~RUNNING[i]
  /\ Ends(i, "signal")
  /\ UNCHANGED <<bus, segment, exitWhenAbsent,
                 RUNNING, device, shmPid, absent, missed, moved, quiet>>

(* find_connected: any supported device on the bus, or none, also when     *)
(* libusb cannot be asked.                                                 *)
FindConnected == plugged \cup (IF plugged = {} \/ ~works THEN {None} ELSE {})

LookFinds(i) ==
  /\ pc[i] = "loop" /\ RUNNING[i]
  /\ \E d \in FindConnected \ {None} : device' = [device EXCEPT ![i] = d]
  /\ pc' = [pc EXCEPT ![i] = "create"]
  /\ missed' = [missed EXCEPT ![i] = 0]
  /\ UNCHANGED <<bus, owner, segment, exitWhenAbsent,
                 exit, RUNNING, shmPid, absent, alive, moved, quiet>>

(* Mutant: the grace is compared with > instead of >=.                     *)
LookMissesOneMore(i) ==
  /\ pc[i] = "loop" /\ RUNNING[i]
  /\ None \in FindConnected
  /\ missed' = [missed EXCEPT ![i] = IF @ < ExitGrace THEN @ + 1 ELSE @]
  /\ absent' = [absent EXCEPT ![i] = IF exitWhenAbsent THEN @ + 1 ELSE @]
  /\ \/ absent'[i] > ExitGrace /\ Ends(i, "absent")
     \/ /\ absent'[i] <= ExitGrace
        /\ pc' = [pc EXCEPT ![i] = "sleep"]
        /\ UNCHANGED <<exit, owner, alive>>
  /\ UNCHANGED <<bus, segment, exitWhenAbsent, RUNNING, device, shmPid, moved, quiet>>

(* No device: with --exit-when-absent count the look and exit at the       *)
(* grace; otherwise sleep and look again.                                  *)
LookMisses(i) ==
  /\ pc[i] = "loop" /\ RUNNING[i]
  /\ None \in FindConnected
  /\ missed' = [missed EXCEPT ![i] = IF @ < ExitGrace THEN @ + 1 ELSE @]
  /\ absent' = [absent EXCEPT ![i] = IF exitWhenAbsent THEN @ + 1 ELSE @]
  /\ \/ absent'[i] >= ExitGrace /\ Ends(i, "absent")
     \/ /\ absent'[i] < ExitGrace
        /\ pc' = [pc EXCEPT ![i] = "sleep"]
        /\ UNCHANGED <<exit, owner, alive>>
  /\ UNCHANGED <<bus, segment, exitWhenAbsent, RUNNING, device, shmPid, moved, quiet>>

(* Mutant: the header is written once per process, whatever the device.    *)
MustCreateOnce(i) == shmPid[i] = None

MustCreate(i) == shmPid[i] = None \/ shmPid[i] # device[i]

(* shm::create, only when the header does not describe the device yet: the *)
(* header is written and write_frames reset, for every instance (one that  *)
(* captures sees growth unless its last_wf is 0 too).                      *)
Create(i) ==
  /\ pc[i] = "create"
  /\ pc' = [pc EXCEPT ![i] = "start"]
  /\ \/ ~MustCreate(i) /\ UNCHANGED <<segment, shmPid, moved>>
     \/ /\ MustCreate(i)
        /\ segment' = [describes |-> device[i], creator |-> i]
        /\ shmPid' = [shmPid EXCEPT ![i] = device[i]]
        /\ moved' \in {moved, [j \in Instances |-> moved[j] \/ Capturing(j)]}
  /\ UNCHANGED <<bus, owner, exitWhenAbsent,
                 exit, RUNNING, device, absent, missed, alive, quiet>>

(* shm_open or mmap fails: the process exits with an error.                *)
CreateFails(i) ==
  /\ pc[i] = "create" /\ MustCreate(i)
  /\ Ends(i, "error")
  /\ UNCHANGED <<bus, segment, exitWhenAbsent,
                 RUNNING, device, shmPid, absent, missed, moved, quiet>>

(* start_capture succeeds: the interface is ours and the watchdog starts.  *)
StartSucceeds(i) ==
  /\ pc[i] = "start"
  /\ device[i] \in plugged /\ owner[device[i]] = None
  /\ owner' = [owner EXCEPT ![device[i]] = i]
  /\ alive' = [alive EXCEPT ![i] = TRUE]
  /\ pc' = [pc EXCEPT ![i] = "run"]
  /\ absent' = [absent EXCEPT ![i] = 0]
  /\ moved' = [moved EXCEPT ![i] = FALSE]
  /\ quiet' = [quiet EXCEPT ![i] = 0]
  /\ UNCHANGED <<bus, segment, exitWhenAbsent, exit, RUNNING, device, shmPid, missed>>

StartMayFail(i) ==
  ~works \/ device[i] \notin plugged \/ owner[device[i]] # None

(* Mutant: a busy device does not reset absent_count.                      *)
StartFailsUncleared(i) ==
  /\ pc[i] = "start"
  /\ StartMayFail(i)
  /\ pc' = [pc EXCEPT ![i] = "sleep"]
  /\ UNCHANGED <<bus, owner, segment, exitWhenAbsent,
                 exit, RUNNING, device, shmPid, absent, missed, alive, moved, quiet>>

(* start_capture fails: present but busy, never a reason to exit.          *)
StartFails(i) ==
  /\ pc[i] = "start"
  /\ StartMayFail(i)
  /\ pc' = [pc EXCEPT ![i] = "sleep"]
  /\ absent' = [absent EXCEPT ![i] = 0]
  /\ UNCHANGED <<bus, owner, segment, exitWhenAbsent,
                 exit, RUNNING, device, shmPid, missed, alive, moved, quiet>>

(* Mutant: absent_count is cleared before every look.                      *)
WakesCleared(i) ==
  /\ pc[i] = "sleep"
  /\ pc' = [pc EXCEPT ![i] = "loop"]
  /\ absent' = [absent EXCEPT ![i] = 0]
  /\ UNCHANGED <<bus, owner, segment, exitWhenAbsent,
                 exit, RUNNING, device, shmPid, missed, alive, moved, quiet>>

(* idle_sleep ends, early on a signal.                                     *)
Wakes(i) ==
  /\ pc[i] = "sleep"
  /\ pc' = [pc EXCEPT ![i] = "loop"]
  /\ UNCHANGED <<bus, owner, segment, exitWhenAbsent,
                 exit, RUNNING, device, shmPid, absent, missed, alive, moved, quiet>>

-----------------------------------------------------------------------------
(* The loop with an engine.                                                *)

(* handle_events pushes frames: always while all works, never once the     *)
(* transfers are dead.  Another instance on the same segment sees them.    *)
Frames(i) ==
  IF ~alive[i] THEN {FALSE} ELSE IF works THEN {TRUE} ELSE BOOLEAN

(* Mutant: a stall is never declared.                                      *)
StalledNever(i) == FALSE

Stalled(i) == quiet[i] >= StallRounds

(* One round: service USB events, then the watchdog.                       *)
Service(i) ==
  /\ pc[i] = "run" /\ RUNNING[i]
  /\ \E frames \in Frames(i) :
       LET grown == frames \/ moved[i] IN
       /\ moved' = [j \in Instances |-> j # i /\ (moved[j] \/ (frames /\ Capturing(j)))]
       /\ \/ /\ grown
             /\ quiet' = [quiet EXCEPT ![i] = 0]
             /\ UNCHANGED <<pc, owner, alive>>
          \/ /\ ~grown /\ ~Stalled(i)
             /\ quiet' = [quiet EXCEPT ![i] = IF @ < StallRounds THEN @ + 1 ELSE @]
             /\ UNCHANGED <<pc, owner, alive>>
          \/ /\ ~grown /\ Stalled(i)
             /\ pc' = [pc EXCEPT ![i] = "loop"]
             /\ owner' = Released(i)
             /\ alive' = [alive EXCEPT ![i] = FALSE]
             /\ UNCHANGED quiet
  /\ UNCHANGED <<bus, segment, exitWhenAbsent, exit, RUNNING, device, shmPid, absent, missed>>

-----------------------------------------------------------------------------
Step(i) ==
  \/ LoopEnds(i) \/ LookFinds(i) \/ LookMisses(i) \/ Create(i)
  \/ StartSucceeds(i) \/ StartFails(i) \/ Wakes(i) \/ Service(i)

(* What keeps a capture from going on.                                     *)
Disturbance ==
  \/ Falter
  \/ \E d \in Devices : Unplug(d)
  \/ \E i \in Instances : Signal(i) \/ Kill(i) \/ CreateFails(i)

Next ==
  \/ Disturbance
  \/ Recover
  \/ \E d \in Devices : Plug(d)
  \/ \E i \in Instances : Launch(i) \/ Step(i)

Spec == Init /\ [][Next]_vars

(* launchd restarts the process: always with KeepAlive, only after a       *)
(* failure with SuccessfulExit false.                                      *)
Relaunch(i) ==
  /\ ~exitWhenAbsent \/ exit[i] \in {"error", "killed"}
  /\ Launch(i)

(* The process runs and launchd restarts it.  Nothing is assumed of the    *)
(* bus, the devices or the user.                                           *)
FairSpec ==
  /\ Spec
  /\ \A i \in Instances : WF_vars(Step(i)) /\ WF_vars(Relaunch(i))

-----------------------------------------------------------------------------
(* Properties.                                                             *)

(* Every variable has its type; absent_count never passes the grace.       *)
TypeOK ==
  /\ plugged \subseteq Devices
  /\ works \in BOOLEAN
  /\ owner \in [Devices -> Instances \cup {None}]
  /\ segment \in [describes : Devices \cup {None}, creator : Instances \cup {None}]
  /\ exitWhenAbsent \in BOOLEAN
  /\ pc \in [Instances -> {"off", "loop", "create", "start", "run", "sleep"}]
  /\ exit \in [Instances -> {"never ran", "signal", "absent", "error", "killed"}]
  /\ RUNNING \in [Instances -> BOOLEAN]
  /\ device \in [Instances -> Devices \cup {None}]
  /\ shmPid \in [Instances -> Devices \cup {None}]
  /\ absent \in [Instances -> 0 .. ExitGrace]
  /\ missed \in [Instances -> 0 .. ExitGrace]
  /\ alive \in [Instances -> BOOLEAN]
  /\ moved \in [Instances -> BOOLEAN]
  /\ quiet \in [Instances -> 0 .. StallRounds]

(* Whatever is unplugged, swapped, killed and restarted, the header        *)
(* describes the device whose frames are being captured (main.rs:93, "the  *)
(* product id the shm header currently describes").                        *)
HeaderMatchesCapture ==
  \A i \in Instances : Capturing(i) => segment.describes = device[i]

(* A clean exit for want of a device happens only with --exit-when-absent  *)
(* and after a full grace of looks in a row that found none: a device that *)
(* is there but busy starts the count again (main.rs:159).                 *)
ExitOnlyAfterGrace ==
  \A i \in Instances :
    pc[i] = "off" /\ exit[i] = "absent" => exitWhenAbsent /\ missed[i] >= ExitGrace

(* Once a device stays plugged in and nothing fails any more, an always-on *)
(* daemon receives its frames for ever, however the engine died before:    *)
(* no capture that delivers nothing is left running (main.rs:107).         *)
CapturesEventually ==
  /\ ~exitWhenAbsent
  /\ <>[][~Disturbance]_vars
  /\ <>[](works /\ plugged # {})
  => \A i \in Instances : <>[](Capturing(i) /\ alive[i])

(* An on-demand daemon whose devices have gone ends (launchagent.sh:12).   *)
ExitsWhenRemoved ==
  exitWhenAbsent /\ <>[](plugged = {}) => \A i \in Instances : []<>(pc[i] = "off")

(* shm.rs:4, "The daemon is the sole producer": an instance that captures  *)
(* is the one that set up the segment it writes.                           *)
SoleProducer ==
  \A i \in Instances : Capturing(i) => segment.creator = i

(* Each instance is a run of the abstract daemon: devices, the header and  *)
(* the other instances only choose among what that allows.                 *)
Place(i) ==
  IF pc[i] \in {"loop", "create", "start"} THEN "look"
  ELSE IF pc[i] = "run" THEN "capture"
  ELSE IF pc[i] = "off" /\ exit[i] = "absent" THEN "exited"
  ELSE pc[i]

Session(i) == INSTANCE Line6Session WITH
  OnDemand <- BOOLEAN, place <- Place(i), misses <- absent[i], onDemand <- exitWhenAbsent

RunSessions == \A i \in Instances : Session(i)!Spec
=============================================================================
