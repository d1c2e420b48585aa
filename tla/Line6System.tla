----------------------------- MODULE Line6System -----------------------------
(***************************************************************************)
(* The two watchers of write_frames on one clock.  The daemon (main.rs)    *)
(* takes half a second without growth for a stall, drains its engine for   *)
(* up to two seconds, looks for the device again and starts over; the      *)
(* plugin's monitor (Line6HAL.c) polls every half second and withdraws the *)
(* device after four polls without growth.  Neither knows of the other:    *)
(* what a user sees of an unplugged, wedged or busy device follows from    *)
(* their periods.                                                          *)
(*                                                                         *)
(* A tick is the timeout of one handle_events call.  Work that takes no    *)
(* waiting takes less than a tick.  The parts themselves are Line6Daemon's *)
(* and Line6Plugin's subject: here the plugin is attached throughout, one  *)
(* instance runs, and growth is growth, not a counter that comes back to   *)
(* an old value.                                                           *)
(***************************************************************************)
EXTENDS Naturals

CONSTANTS
  WatchdogStall,   \* WATCHDOG_STALL_S
  DrainLimit,      \* stop's limit
  RetrySleep,      \* ABSENT_RETRY_S
  ExitGrace,       \* ABSENT_EXIT_GRACE
  PollPeriod,      \* PRESENCE_POLL_US
  StallMax,        \* PRESENCE_STALL_MAX
  ExitWhenAbsent   \* the values --exit-when-absent may have

ASSUME SystemAssumption ==
  /\ {WatchdogStall, DrainLimit, RetrySleep, ExitGrace, PollPeriod, StallMax} \subseteq Nat \ {0}
  /\ ExitWhenAbsent \subseteq BOOLEAN

VARIABLES
  plugged,         \* the device is on the bus
  daemon,          \* pc; for how long it has been there (while capturing, since
                   \* last_progress); absent_count; whether the header has yet to
                   \* be written for the device; --exit-when-absent
  delivers,        \* the engine's transfers bring frames
  monitor,         \* time to the next poll, change since the last, stall
  gDevicePresent,
  still,           \* history: ticks since write_frames last changed
  flowing,         \* history: ticks for which it has grown without a break
  calm,            \* history: ticks since something last went wrong
  hitch            \* history: since write_frames last grew, more went wrong than
                   \* one wedged engine that was drained in time

histories == <<still, flowing, calm, hitch>>
vars == <<plugged, daemon, delivers, monitor, gDevicePresent, histories>>

Init ==
  /\ plugged \in BOOLEAN
  /\ daemon \in [pc : {"off"}, t : {0}, absent : {0}, fresh : {TRUE}, onDemand : ExitWhenAbsent]
  /\ delivers = FALSE
  /\ monitor = [t |-> PollPeriod, moved |-> TRUE, stall |-> 0]
  /\ gDevicePresent = TRUE
  /\ still = 0 /\ flowing = 0 /\ calm = 0
  /\ hitch = TRUE

Capturing == daemon.pc = "capture"
Running == daemon.pc \notin {"off", "exited"}
Enters(pc) == [daemon EXCEPT !.pc = pc, !.t = 0]

-----------------------------------------------------------------------------
(* Time.                                                                   *)

(* Mutant: the watchdog only looks when the progress line is printed.      *)
WatchdogFiresAtPrint == WatchdogStall + 20

WatchdogFires == WatchdogStall

(* Mutant: each transfer may take the whole limit.                         *)
DrainEndsPerTransfer == 5 * DrainLimit

DrainEnds == DrainLimit

(* Mutant: idle_sleep counts its half seconds as seconds.                  *)
NapHalved == RetrySleep \div 2

Nap == RetrySleep

(* How long the daemon may stay where it is: what it waits for in          *)
(* handle_events is noticed within a tick.                                 *)
Patience ==
  CASE Capturing -> WatchdogFires + 1
    [] daemon.pc = "drain" -> DrainEnds + 1
    [] daemon.pc = "sleep" -> Nap
    [] OTHER -> 1

Growing == Capturing /\ delivers

(* The histories stop counting where no property looks any further.        *)
WithdrawnBy == (StallMax + 1) * PollPeriod
SeenBy == PollPeriod + 1
RecoveredBy == WatchdogStall + 1 + DrainLimit + 1 + 1 + SeenBy

(* The drain for which noticing the stall, draining, looking and the first *)
(* frames together stay below the time the monitor waits.                  *)
ShortDrain == StallMax * PollPeriod - (WatchdogStall + 3)

CountTo(n, bound) == IF n < bound THEN n + 1 ELSE n

(* A capture that delivers pushes frames, everyone else waits.             *)
Tick ==
  /\ monitor.t > 0
  /\ Growing \/ ~Running \/ daemon.t < Patience
  /\ monitor' = [monitor EXCEPT !.t = @ - 1, !.moved = @ \/ Growing]
  /\ daemon' = [daemon EXCEPT !.t = IF Growing \/ ~Running THEN 0 ELSE @ + 1]
  /\ still' = IF Growing THEN 0 ELSE CountTo(still, WithdrawnBy + 1)
  /\ flowing' = IF Growing THEN CountTo(flowing, SeenBy) ELSE 0
  /\ calm' = CountTo(calm, RecoveredBy)
  /\ hitch' = ((hitch /\ ~Growing) \/ (daemon.pc = "drain" /\ daemon.t >= ShortDrain))
  /\ UNCHANGED <<plugged, delivers, gDevicePresent>>

-----------------------------------------------------------------------------
(* The device.                                                             *)

Disturbed == calm' = 0 /\ hitch' = TRUE /\ UNCHANGED <<still, flowing>>

(* The device that is plugged in may be of another model.                  *)
Plug ==
  /\ ~plugged /\ plugged' = TRUE
  /\ \E other \in BOOLEAN : daemon' = [daemon EXCEPT !.fresh = @ \/ other]
  /\ Disturbed
  /\ UNCHANGED <<delivers, monitor, gDevicePresent>>

Unplug ==
  /\ plugged /\ plugged' = FALSE
  /\ delivers' = FALSE
  /\ Disturbed
  /\ UNCHANGED <<daemon, monitor, gDevicePresent>>

(* The iso stream wedges: its transfers bring nothing any more.  The first *)
(* wedge of a stream that flows is no hitch yet.                           *)
Wedge ==
  /\ delivers /\ delivers' = FALSE
  /\ calm' = 0
  /\ hitch' = (hitch \/ still > 0)
  /\ UNCHANGED <<plugged, daemon, monitor, gDevicePresent, still, flowing>>

-----------------------------------------------------------------------------
(* The daemon.                                                             *)

(* The watchdog, looked at after every handle_events.                      *)
Stops ==
  /\ Capturing /\ ~delivers
  /\ daemon.t >= WatchdogFires
  /\ daemon' = Enters("drain")
  /\ UNCHANGED <<plugged, delivers, monitor, gDevicePresent, histories>>

(* A transfer that comes back during the drain pushes the packets it had   *)
(* received.                                                               *)
DrainPushes ==
  /\ daemon.pc = "drain"
  /\ monitor' = [monitor EXCEPT !.moved = TRUE]
  /\ still' = 0
  /\ UNCHANGED <<plugged, daemon, delivers, gDevicePresent, flowing, calm, hitch>>

(* The drain ends when the last transfer is back, at any time, or at its   *)
(* limit.                                                                  *)
Drained ==
  /\ daemon.pc = "drain"
  /\ daemon' = Enters("look")
  /\ UNCHANGED <<plugged, delivers, monitor, gDevicePresent, histories>>

(* The header is created for a device it does not describe: write_frames   *)
(* is reset, which the monitor notices unless it was zero.                 *)
Creates ==
  \/ UNCHANGED <<monitor, still>>
  \/ daemon.fresh /\ monitor' = [monitor EXCEPT !.moved = TRUE] /\ still' = 0

Starts ==
  /\ daemon.pc = "look" /\ plugged
  /\ daemon' = [Enters("capture") EXCEPT !.absent = 0, !.fresh = FALSE]
  /\ delivers' = TRUE
  /\ Creates
  /\ UNCHANGED <<plugged, gDevicePresent, flowing, calm, hitch>>

(* Present but busy.                                                       *)
StartFails ==
  /\ daemon.pc = "look" /\ plugged
  /\ daemon' = [Enters("sleep") EXCEPT !.absent = 0, !.fresh = FALSE]
  /\ Creates
  /\ calm' = 0 /\ hitch' = TRUE
  /\ UNCHANGED <<plugged, delivers, gDevicePresent, flowing>>

(* No device found, or libusb could not be asked.                          *)
LookMisses ==
  /\ daemon.pc = "look"
  /\ LET absent == IF daemon.onDemand THEN daemon.absent + 1 ELSE daemon.absent IN
     daemon' = [Enters(IF absent >= ExitGrace THEN "exited" ELSE "sleep") EXCEPT !.absent = absent]
  /\ Disturbed
  /\ UNCHANGED <<plugged, delivers, monitor, gDevicePresent>>

Wakes ==
  /\ daemon.pc = "sleep" /\ daemon.t >= Nap
  /\ daemon' = Enters("look")
  /\ UNCHANGED <<plugged, delivers, monitor, gDevicePresent, histories>>

(* A signal, a crash or an error, anywhere.                                *)
Dies ==
  /\ Running
  /\ daemon' = Enters("off")
  /\ delivers' = FALSE
  /\ Disturbed
  /\ UNCHANGED <<plugged, monitor, gDevicePresent>>

Launch ==
  /\ ~Running
  /\ daemon' = [Enters("look") EXCEPT !.absent = 0, !.fresh = TRUE]
  /\ Disturbed
  /\ UNCHANGED <<plugged, delivers, monitor, gDevicePresent>>

-----------------------------------------------------------------------------
(* The plugin's monitor.                                                   *)

(* Mutants: growth only stops the count; the count has no limit.           *)
StallNextKept ==
  IF ~monitor.moved /\ monitor.stall < StallMax THEN monitor.stall + 1 ELSE monitor.stall

StallNextUncapped == IF monitor.moved THEN 0 ELSE monitor.stall + 1

StallNext == IF monitor.moved THEN 0 ELSE CountTo(monitor.stall, StallMax)

(* Mutant: a device once withdrawn stays withdrawn.                        *)
PresentLatched == gDevicePresent /\ StallNext < StallMax

Present == StallNext < StallMax

MonitorPolls ==
  /\ monitor.t = 0
  /\ monitor' = [t |-> PollPeriod, moved |-> FALSE, stall |-> StallNext]
  /\ gDevicePresent' = Present
  /\ UNCHANGED <<plugged, daemon, delivers, histories>>

-----------------------------------------------------------------------------
Bus == Plug \/ Unplug \/ Wedge
Daemon == Stops \/ Drained \/ Starts \/ StartFails \/ LookMisses \/ Wakes \/ Dies \/ Launch

Next == Tick \/ Bus \/ Daemon \/ DrainPushes \/ MonitorPolls

Spec == Init /\ [][Next]_vars

-----------------------------------------------------------------------------
(* Properties.                                                             *)

(* Every variable has its type, the counters within their limits.          *)
TypeOK ==
  /\ plugged \in BOOLEAN
  /\ daemon.pc \in {"off", "exited", "look", "capture", "drain", "sleep"}
  /\ daemon.t \in 0 .. Patience
  /\ daemon.absent \in 0 .. ExitGrace
  /\ daemon.fresh \in BOOLEAN /\ daemon.onDemand \in ExitWhenAbsent
  /\ delivers \in BOOLEAN
  /\ monitor \in [t : 0 .. PollPeriod, moved : BOOLEAN, stall : 0 .. StallMax]
  /\ gDevicePresent \in BOOLEAN
  /\ still \in 0 .. WithdrawnBy + 1 /\ flowing \in 0 .. SeenBy /\ calm \in 0 .. RecoveredBy
  /\ hitch \in BOOLEAN

(* PresenceMonitor withdraws the device neither before four periods have   *)
(* passed without a change of write_frames nor after five.                 *)
WithdrawnInTime ==
  /\ gDevicePresent => still <= WithdrawnBy
  /\ ~gDevicePresent /\ ~monitor.moved => still >= StallMax * PollPeriod

(* The daemon's recovery from a single wedged stream stays unseen by the   *)
(* user as long as its drain is short: half a second to notice, the drain  *)
(* and a look fit into the monitor's two seconds.  A drain that takes its  *)
(* whole limit does not fit, and the device goes and comes back.           *)
RecoveryUnseen == ~gDevicePresent /\ ~monitor.moved => hitch

(* A daemon that exits for want of a device leaves none listed: its grace  *)
(* is longer than the monitor's.                                           *)
ExitedMeansWithdrawn == daemon.pc = "exited" => ~gDevicePresent

(* Frames that have flowed for a poll period are seen, whatever went       *)
(* before (docs/ARCHITECTURE.md, "when it grows again the device           *)
(* reappears").                                                            *)
FlowingIsPresent == flowing = SeenBy => gDevicePresent

(* A daemon that runs with its device plugged in, and nothing more going   *)
(* wrong, has it listed within the time of a stall's detection, a full     *)
(* drain, a look and a poll, whatever it was doing before.                 *)
BackInTime == Running /\ plugged /\ calm = RecoveredBy => gDevicePresent

(* The daemon of this module is a run of the abstract daemon too, as every *)
(* instance of Line6Daemon is; a drain belongs to the capture it ends.     *)
Session == INSTANCE Line6Session WITH
  OnDemand <- ExitWhenAbsent,
  place <- IF daemon.pc = "drain" THEN "capture" ELSE daemon.pc,
  misses <- daemon.absent,
  onDemand <- daemon.onDemand

RunsSession == Session!Spec

(* The monitor of this module is the abstract monitor of a mapped segment, *)
(* as that of Line6Plugin is.                                              *)
Watch == INSTANCE Line6Watch WITH
  mapped <- TRUE,
  moved <- monitor.moved,
  stall <- monitor.stall,
  present <- gDevicePresent

WatchesCounter == Watch!Spec
=============================================================================
