# A verification development for line6-coreaudio

TLA+ modules that model the capture daemon and the CoreAudio plugin of this
repository, TLC configurations that check them on small instances, and TLAPS
proofs for every instance. Source paths and line numbers are those of `src/`.

## The system

    device --USB--> line6-daemon --shared memory--> HAL plugin --> coreaudiod, apps
                    usb.rs main.rs  shm.rs / line6_shm.h   Line6HAL.c

Two processes share one POSIX segment, `/line6_audio`: a header, the free-running
counter `write_frames`, and a ring of 65536 frames. The daemon only writes it, the
plugin only reads it, and `write_frames` is the only synchronisation.

| Component | State | Operations | What is hard | What makes it correct |
|---|---|---|---|---|
| Shared ring: `shm.rs` `push_frames`, `create`; `Line6HAL.c` `StartIO`, `StopIO`, `DoIOOperation` | `write_frames`, `latency_frames`, `ring`; `gIO_Running`, `gReadFrame`, `gCycleReadFrame`, `gLastCycle` | push a batch, reset, start and stop IO, read a buffer | the reader is never told it is lapped; several clients per cycle; the daemon restarts under the reader | intact frames, one window per cycle, no silence in mid-stream, a depth that absorbs jitter |
| Attachment and presence: `AttachShm`, `PresenceMonitor`, `NotifyDeviceList`, the device list in `GetPropertyDataSize`/`GetPropertyData` | `gShm`, `gMutex`, `gDevicePresent`, the monitor's `lastWf`, `haveLast`, `stall` | attach, poll, notify, query | monitor, host queries and StartIO on different threads; a segment half built | the host's list follows the device; no withdrawal of a device that captures; the device comes back |
| USB engine: `usb.rs` | `StreamState` (`running`, `in_flight`), `Engine` (context, handle, interface, transfers) | `start`, `on_in`, `on_out`, `stop` | partial failures; transfers owned by libusb; a device that does not answer | exact `in_flight`, nothing left behind, `stop` returns |
| Main loop: `main.rs` | `active`, `shm_ptr`, `shm_pid`, `last_wf`, `last_progress`, `absent_count`, `RUNNING` | look, create, start, watch, tear down, exit | unplugging and swapping at any moment, wedged streams, kills, a second instance | the header describes the capture, exits are justified, capture resumes |
| Device table: `devices.rs` | none (static rows) | `find_connected` | libusb failing looks like no device | found devices are supported ones |
| Timeline: `StartIO`, `StopIO`, `GetZeroTimeStamp` | `gAnchorHostTime`, `gNumberTimeStamps`, `gIO_Running` | anchor, one query per IO cycle | one period per call at most, late callers, several clients on one count, session restarts | monotone, on the line through the anchor, never ahead, at the callers' pace |
| Object properties: `HasProperty`, `GetPropertyDataSize`, `GetPropertyData`, `DeviceNameCopy` | `gCachedName`, `gCachedNameStr`; reads `gDevicePresent`, `gIO_Running` and the header | queries | presence, channels and name change between two calls; copies of the name outside the mutex | Size and Data agree and are stable; only Main answers; no write past the announced size; references exact |
| Conversion and framing: `on_in`, `s24_to_f32` | none (`sine_phase` only with the test tone) | per packet | partial tails, failed packets, sign extension | channels never rotate, every sample exact |
| The two watchers on one clock: the watchdog, drain and retries of `main.rs`, the plugin's monitor | their periods | | neither knows of the other | what a user sees of a stall, an unplugging, an exit, and for how long |
| Scripts, launchd | the job | install, launch | restart rules | external |
| `haltest.c` | the driver's own | sweep and iosim drive the plugin | | its call patterns are the environment of two modules |

How they interact: `main.rs` calls `shm::create` and `usb::start`; libusb calls `on_in`
on the daemon's own thread inside `handle_events`, and `on_in` calls `push_frames`;
the watchdog of `main.rs` and the plugin's monitor both watch `write_frames`, each
with its own clock (0.5 s and 2 s); the host calls the plugin on its own threads, and
`gMutex` serialises the read cursor, the attachment and the name cache.

## Modules

### Line6Ring: the audio data path

Each access to shared memory that another thread can see half-way is a step:
`PushFrame` stores one frame, `PushPublish` the counter, `DoIOLoad` loads the counter
before the mutex, `DoIOCursor` is the critical section, `DoIOCopy` copies one frame.
`CreateHeader`/`CreateReset` are `shm::create` of a fresh process or for another
model, `DaemonStops` a death anywhere. A frame is the pair of its segment incarnation
(`epoch`, one more at each reset of `write_frames`) and its position: exactly what the
properties have to tell apart; samples and channels are left out. `producer` is the
daemon's local state in `push_frames`, `client[c]` each client's locals in
`DoIOOperation` (`w`, `rf`, `i`). `anchor` is a history variable: the head against
which the cursor was last placed and checked.

`NextCycle` is the host: cycles do not overlap, all clients of one cycle use one buffer
size, a client is not stopped inside one of its calls, and a session may number its
cycles from the start again. The plugin is attached throughout: before that
`DoIOOperation` only writes silence.

### Line6Plugin: attachment and presence

The segment grows by the stores of `shm::create` that an attaching plugin can tell
apart (`segment`). Only the comparison of `write_frames` with the monitor's `lastWf`
matters, so the counter is abstracted to it (`gap`); a counter that was reset and has
grown back may coincide with `lastWf`, and the model lets it. Time is the monitor's
polls: between two of them a capturing daemon publishes at least once (`due`).
`MonitorWakes`, `MonitorAttaches`, `MonitorPolls`, `MonitorNotifies` are
`PresenceMonitor`; `QuerySize` and `QueryData` the host's two calls; `StartIO` and
`StopIO` are there for `gMutex`. A thread inside `AttachShm` under its own lock has
no further step: `PTHREAD_MUTEX_INITIALIZER` is a mutex that does not let its owner in
again.

### Line6Usb: the engine

`StartInit` to `StartFinish` are `start`, one action per libusb call and outcome;
`Callback` is the end of `on_in` and `on_out`; `StopCancel`, `StopWaits`, `StopRelease`
are `stop`. `transfer[t]` follows a transfer: not allocated, idle, owned by libusb, or
completed with its callback to run. libusb and the device are external: every call may
fail, and a submitted transfer may complete at any time or never.

### Line6Daemon: the main loop

One action per branch of the loop of `run_daemon`: `LookFinds`, `LookMisses`,
`Create`/`CreateFails`, `StartSucceeds`/`StartFails`, `Wakes`, `Service` (events, then the
watchdog), `LoopEnds`. The look, the creation and the start are separate steps because
devices come and go and other instances run in between. The environment is `Plug`,
`Unplug`, `Falter`/`Recover` (libusb and the device fail, transfers may wedge for good),
`Signal`, `Kill` and `Launch`. `missed` is a history variable that counts the looks
that found nothing independently of `absent_count`.

### Line6Samples and the packets of Line6Usb: from bytes to samples

`Line6Samples` has no state: `Whole`, `PushFrames` and `OnIn` are the loop of `on_in`
(usb.rs:80-107) as the byte offsets each packet's samples are taken from, `SampleOf`
is `s24_to_f32` with its 32-bit shifts, and `S24` is the reference: what three bytes
mean. `Line6Usb` extends it: the callback of a capture transfer chooses every packet's
`actual_length` from `PacketLengths` and keeps the result in `capture`.

### Line6Objects: the property interface

`Size` and `Data` are translated from the two switches (Line6HAL.c:400-486, 492-619),
case by case; an answer is its length and, where it can change or names an object, its
content. `Begin`, `AsksSizeAgain`, `AsksData` are haltest's sweep: HasProperty, Size
twice, Data twice, into a buffer of the announced size, and `Problems` its verdict.
`DeviceNameCopy` is three steps (`NameRead`: the copy without the mutex, `NameReturns`
or `AsksNameData`: the critical section, `NameReleased`), for the sweep and for other
threads; `refs` counts each string's references. The world changes in between:
`PresenceChanges`, `RunningChanges`, `Attach`, and `CreateHeader`, `CreateChannels`,
`CreateNamed` for the stores of `shm::create`. `disturbed` is a history: which of the
pieces an item's answers depend on changed while it was asked about.

### Line6Timeline: the device clock

Time is in host ticks, a period any fraction of ticks. `StartIO` anchors,
`GetZeroTimeStamp` advances the count by at most one period, `StopIO` ends. The
callers are haltest's iosim and the HAL's IO threads: a schedule of one call per
buffer, fixed when the thread starts, with calls missed made up for. Two threads
share the one count.

### Line6System: both watchers on one clock

The daemon's loop and the plugin's monitor, each reduced to its control, with the
code's periods in ticks of 100 ms (one `handle_events`): watchdog 5, drain at most 20,
retry sleep 20, grace 3 looks, poll 5, stall limit 4. `Tick` passes only while nobody
is overdue (`Patience`). `DrainPushes` are the packets of transfers that come back while
`stop` drains: frames for the monitor, though no capture flows. `still`, `flowing`, `calm` and `hitch` are histories:
how long `write_frames` has not grown, has grown, nothing has gone wrong, and whether
more went wrong than one wedged stream with a short drain.

### Line6Stream: what the data path promises

The abstract specification of `Line6Ring`: no ring, no depth, no lock. One stream of
captured frames, begun anew by each daemon, which all clients of an IO cycle hear
through one window. The window follows the last one without a gap whenever the stream
still offers that (`Offers`), otherwise it is any that it offers. A client hears
silence past the head it saw, and the frame of its position as long as the host is not
more than a buffer late (`May`).

`Line6Ring` implements it by the mapping at its end: `captured` is the daemon's `w`,
`published` is `write_frames`, the window is `gCycleReadFrame`, its successor
`gReadFrame`, the cycle served `gLastCycle`, and a client is its locals with the last
frame it stored (`Shown`). `Implements` is that statement: a PROPERTY of two runs, and a
theorem.

### Line6Engine: what the USB engine promises

The abstract specification of `Line6Usb`: no counter, no libusb. A start leaves nothing
behind or sets a nonempty set of transfers circulating at once; from then on transfers
only leave; a stop waits until none circulates or its time is up, and then gives up the
interface. In the mapping at the end of `Line6Usb` the engine runs from `StartFinish` to
`StopCancel` and stops until `StopRelease`; what circulates is what libusb owns or has a
callback due for, which `stop` knows only through `in_flight`. `Implements` is a PROPERTY
of `usb_engine`, and a theorem.

### Line6Session: one run of the daemon

The daemon as launchd and the user see it: off, exited, looking, capturing or sleeping,
and the count of looks that found nothing. The main loop is modelled twice, in
`Line6Daemon` with devices, header and other instances, and in `Line6System` reduced to a
clock; both implement `Line6Session` (`RunSessions`, for every instance, and
`RunsSession`), so that the reduction keeps the loop's order, its grace and its resets.
Both are theorems.

### Line6Watch: what the presence monitor promises

The monitor with no counter, no thread and no clock: whether the segment is mapped, whether
the next poll will find `write_frames` changed, the polls in a row that did not, and whether
the device is offered. It too is modelled twice, in `Line6Plugin` with the segment's
construction, the attaching threads and a counter that may come back to an old value, and in
`Line6System` on the daemon's clock. Both implement `Line6Watch` (`WatchesCounter` of either
module, as theorems): what one module shows of the monitor is about the monitor of the other.

### Line6Names: what DeviceNameCopy promises

Strings and who holds them, with no reference counts and no segment: a caller is given the
string given last if that has the text it asks for, and otherwise one that nobody holds.
`Line6Objects` implements it (`GivesNames`) with the counts, the cache and copies
of a name under rewrite; it is what the code keeps of the "stable identity" of the comment
at `Line6HAL.c:122-124` (see "Behaviours worth knowing" for what it does not), and
`HeldKeepsText` is what a caller gets from it. `GivesNames` is a PROPERTY of
`objects_sweep` and a theorem.

## What is checked

| Run | Shows | Bounds, and why they are enough |
|---|---|---|
| `ring_lapping` | `TypeOK`, `IntactFrame`, `JitterAbsorbed`, `Implements` | a ring of 7 frames with buffers of 1 and 2 and batches of 1 and 3: the tightest ring the assumption allows, and 11 frames lap it one and a half times; 4 cycles give a resync, a plain advance and an overrun in a row |
| `ring_shared` | `SameWindow`, `SilenceOnlyAtStart`, `Implements` | two clients, two incarnations of the segment, two cycles per numbering: the second client's stale load, a session with the same cycle number, and a reset under a reader all occur |
| `ring_first_cycle` | a violation of `FirstCycleReAnchors` | see Findings |
| `plugin_presence` | `TypeOK`, `ListFollowsPresence`, `MapsKnownLayout`, `RemovedOnlyAfterStall`, `DeviceReturns` (it appears while capture goes on, unless the first-start deadlock of the Findings struck), `DeviceDisappears` | the code's own stall limit of 4, two host threads, all five states of the segment at load time, a monitor that starts or not; no symmetry, for liveness |
| `plugin_first_start` | a violation of `DeviceReappears` | no segment at load time |
| `usb_engine` | `TypeOK`, `InFlightExact`, `NothingLeftBehind`, `FramesAligned`, `SamplesExact`, `Implements`, `StopReturns` | two transfers in each direction: a start can fail in part and one direction can die alone; a drain of three units; two packets per transfer of two frames of two channels, of lengths 0, 5, 8 and 12 bytes: empty, a partial frame, a frame and a tail, full; bytes of 4 values, so that all 64 samples are tried |
| `usb_drain_limit` | a violation of `FreedOnlyWhenDrained` | the same |
| `daemon_loop` | `TypeOK`, `HeaderMatchesCapture`, `ExitOnlyAfterGrace`, `CapturesEventually` (a capture that delivers, not one left running dead), `ExitsWhenRemoved` | two devices to swap, the code's grace of 3, a watchdog of 2 rounds; always-on and on-demand |
| `daemon_two_instances` | a violation of `SoleProducer` | two instances |
| `objects_sweep` | `TypeOK`, `SweepClean`, `WithinBuffer`, `NameCounted`, `GivesNames` | the whole table of objects, selectors, scopes and three elements; two models, of 8 channels as today's table has and of 4 as docs/ADDING_DEVICES.md expects one day; one more thread that asks for the name; three strings: the cached one, the one it replaces and one a thread still holds |
| `timeline_paced` | `NeverAhead`, `OnTheLine`, `KeepsPace`, `Monotone` | two threads; a period of 28/3 ticks, so that every boundary is truncated differently; pauses of a tick and of more than two periods; four periods in all, enough to fall behind, catch up and start a second session |
| `system_recovery` | `TypeOK`, `WithdrawnInTime`, `RecoveryUnseen`, `ExitedMeansWithdrawn`, `FlowingIsPresent`, `BackInTime` | the code's own periods in ticks of 100 ms, on-demand and always-on; the histories stop counting where no property looks further |

`IntactFrame` is conditional on `OnTime`: a client that the host delays until the
daemon has stored more than a further buffer can be lapped during its copy, and the
code neither prevents nor detects it. `SilenceOnlyAtStart` excepts a client that loaded
an older head than the client that placed the cursor. `MaxFrames`, `MaxEpoch` and
`MaxCycle` only end the ring's state space, which is why its runs switch deadlock
checking off: the model stops at a bound. All other runs check deadlock.

Each property is paired in `PROJECT.json` with a mutant: a plausible slip in the code
(a lost test, a counter not cleared) under which TLC finds the property violated.

### Fairness

- Line6Plugin: the monitor thread is scheduled (weak fairness); a daemon that captures
  publishes; the host loads the plugin and answers a notification. A thread that waits
  for `gMutex` gets no more than weak fairness. Nothing makes a daemon or a client run.
- Line6Usb: the daemon's one thread goes on, so that start and stop proceed, callbacks
  that are due run and the drain's clock advances. Nothing makes a device complete a
  transfer: `StopReturns` holds without it.
- Line6Daemon: the process goes on, and launchd restarts it as the property list of
  `launchagent.sh` says: always with `KeepAlive`, after a failure only with
  `SuccessfulExit` false. The bus, the device and the user are not fair; that they
  stop disturbing is the hypothesis of `CapturesEventually`.
- The other modules state no fairness: their properties are safety. `Line6System` bounds
  waiting by the clock instead, which may not pass what is overdue, so that
  `BackInTime` is a liveness property with a number of ticks.

## What is proved

One proof module per component; every theorem holds for all values of the constants
that satisfy the component's named assumption, and whatever the bounds of the runs.

| Module | Theorem | States |
|---|---|---|
| `Line6RingProofs` | `RingInvariant` | the inductive invariant `RingInv` |
| | `TypeCorrect` | `[]TypeOK`: no cursor below zero, so no wrap of the `UInt64` arithmetic |
| | `FramesIntact`, `OneWindowPerCycle`, `NoGaps` | `[]IntactFrame`, `[]SameWindow`, `[]SilenceOnlyAtStart` |
| | `DepthAbsorbsJitter` | `JitterAbsorbed` |
| `Line6StreamProofs` | `RingImplementsStream` | `Spec => Implements`: the ring implements `Line6Stream` |
| `Line6PluginProofs` | `TypeCorrect`, `ListFollows`, `RemovalIsLate` | `[]TypeOK`, `[]ListFollowsPresence`, `RemovedOnlyAfterStall` |
| | `LayoutKnown` | `[]MapsKnownLayout`: a mapped segment has its magic number and version |
| | `ClientsCounted`, `ClampNeverActs` | `gIO_Running` is the number of clients between `StartIO` and `StopIO`, which never finds it at zero |
| | `AttachedNeverBlocks` | a mapped segment stays mapped, and nobody waits for `gMutex` against itself |
| | `WaitIsForGood` | a `StartIO` that waits for itself does so for ever, and the segment is never mapped |
| | `ReadyNeverBlocks` | no `StartIO` waits for itself if the segment was ready when the plugin was loaded |
| | `MonitorWatches` | `Spec => WatchesCounter`: the monitor implements `Line6Watch` |
| `Line6UsbProofs` | `TypeCorrect`, `CountExact`, `NothingLeaks` | `[]TypeOK`, `[]InFlightExact`, `[]NothingLeftBehind`, for any transfers |
| | `UsbImplementsEngine` | `Spec => Implements`: start, callbacks and stop implement `Line6Engine` |
| | `DrainUsedUp` | every step during a drain decreases `DrainWork`, a natural number |
| | `ChannelsKeptApart` | `[]FramesAligned`, for any channels, packets and lengths |
| | `ConversionExact` | `[]SamplesExact` if a byte has 256 values |
| `Line6DaemonProofs` | `TypeCorrect`, `ExitAfterGrace` | `[]TypeOK`, `[]ExitOnlyAfterGrace`, for any instances and grace |
| | `HeaderCorrect` | `HeaderMatchesCapture` and `SoleProducer`, if no two instances run |
| | `InstancesAreSessions` | `Spec => RunSessions`: every instance implements `Line6Session` |
| `Line6TimelineProofs` | `TypeCorrect`, `NotAhead`, `StampsOnTheLine`, `PaceKept` | `[]TypeOK`, `[]NeverAhead`, `[]OnTheLine`, `[]KeepsPace` |
| | `NoStepBack` | `Monotone` if a period lasts at least a tick |
| `Line6SystemProofs` | `TypeCorrect`, `MonitorInTime`, `FlowIsSeen` | `[]TypeOK`, `[]WithdrawnInTime`, `[]FlowingIsPresent`, for any periods |
| | `ExitIsSeen` | `[]ExitedMeansWithdrawn` if `(ExitGrace - 1) * RetrySleep` exceeds the monitor's limit (4 s against 2.5 s in the code) |
| | `RecoveryStaysUnseen` | `[]RecoveryUnseen` if `WatchdogStall + 3 <= StallMax * PollPeriod` (8 against 20 ticks in the code) |
| | `ListedInTime` | `[]BackInTime` if `RetrySleep <= WatchdogStall + DrainLimit + 2` (20 against 27 ticks in the code) |
| | `DaemonIsSession` | `Spec => RunsSession`: this daemon implements `Line6Session` too |
| | `MonitorIsWatch` | `Spec => WatchesCounter`: this monitor implements `Line6Watch` too |
| `Line6ObjectsProofs` | `TypeCorrect`, `NamesCounted` | `[]TypeOK`, `[]NameCounted`, for any threads, strings and models |
| | `CacheGivesNames` | `Spec => GivesNames`: DeviceNameCopy implements `Line6Names` |
| | `TextOutlivesHolder` | `HeldKeepsText`: a cached string somebody holds keeps its text |
| | `BuffersKept` | `[]WithinBuffer` |
| | `SweepIsClean` | `[]SweepClean`, for any models and channels |
| | `ObjectsFormTree` | `[]ObjectTree`: what owns an object and what the object names as its owner agree |

### The arguments

**The ring.** `RingAssumption` says that the ring holds the deepest backlog a resync can leave and
one more buffer: `3n + SafetyOffset <= RingFrames` and `latency + n <= RingFrames`. The
code's values satisfy it for the host's buffers up to 21760 frames: latency is clamped
to 500 ms, 24000 frames (main.rs:86), in a ring of 65536.

None of the properties is inductive. `IntactFrame` needs to know what the slots hold
(`DaemonInv`: the newest `RingFrames` positions below the daemon's own `w` are stored,
and nothing below it was ever silence), that a loaded head stays below the published
one within an incarnation (`LoadInv`), and that the window of the cycle leaves the daemon
a buffer before it is lapped (`CursorInv`). `SameWindow` needs the session's count
(`SessionInv`: a first `StartIO` finds no client in a call) and that no cycle beyond the
host's current one was served (`CursorInv`). `CopyInv` carries the properties
themselves and the copy loop's index. `RingInv` is their conjunction; there is one
lemma per action group (`DaemonStep`, `LoadStep`, `SessionStep`, `CursorStep`,
`CopyStep`), and `SlotsDiffer` is the arithmetic they share: two positions less than a
ring apart have different slots.

**The stream.** The refinement needs no invariant of its own: with `RingInv`, each
action of the ring is shown (`DaemonShown`, `StartShown`, `PlaceShown`, `HearShown`, ...)
to be the like-named action of the stream or a stutter. The two that carry the weight are
`PlaceShown`, where the overrun and underrun tests of DoIO become `Offers`, and `HearShown`,
where what the slot holds becomes the frame of the position.

**The plugin.** `ListFollowsPresence` needs to know, for each state of the host's query
and of the monitor between its exchange and its notification, which answer the host can
hold (`QueryInv`); `RemovedOnlyAfterStall` that the stall count is a lower bound of the
polls without change (`StallInv`). `PluginInv` is both with `TypeOK`. `MapsKnownLayout` is
inductive as it stands.

`ClientInv` is about `gMutex` and the clients: the mutex is held across a step only by a
`StartIO` that waits for itself, which happens only while nothing is mapped, and then no
client has started (a second client does not attach, so the first must have: here the
exact count is needed). From it follow what confines Finding 1: it cannot happen once the
segment is mapped, nor if the segment is there when the plugin is loaded (`SegmentInv`),
and when it happens it lasts.

`MonitorWatches` rests on `SeenInv`: what the monitor has seen, it has seen of a mapped
segment, so that a poll that finds nothing mapped has nothing to count, and the first that
does takes the counter for moved. With it each poll is one of the abstract monitor's three
(`PollShown`), whoever mapped the segment (`MappingShown`).

**The engine.** `EngineInv` adds to `InFlightExact` what each stage of `start` has acquired
and that callbacks may resubmit until `stop` (`Acquired`), and that transfers beyond the one
being set up are untouched; then each step changes the counted set by one element or none.
The refinement rests on the count being exact: `in_flight` is zero exactly if no transfer
circulates, so that what `stop` does on the counter is what the abstract engine does on the
set (`StopShown`), and a start that goes on has set something circulating (`StartShown`).
`DrainWork` adds the time left, the completions libusb still owes and the callbacks still to
run; as no callback resubmits during a drain, every step of anybody uses some of it up. With
the fairness of the daemon's thread that is why `stop` returns (`StopReturns`). `CaptureInv` says only that
`capture` holds `OnIn` of the lengths received; alignment is then arithmetic: the whole
part of a packet is a multiple of the frame size (`Division`, `Remainder`, `PacketAligned`).

**The loop.** `LoopInv` relates `absent_count` to the history `missed` (`CountsMisses`) and
bounds it (`BelowGrace`). `HeaderInv` follows one instance: from `create` on, `shm_pid` is the
device looked at, and the header is that instance's. `InstancesAreSessions` needs only the
types: a step of the instance is one of the session or unseen (`OwnShown`, `LookShown`), a
step of another instance or of the bus is unseen.

**The timeline.** `TicksAdd` bounds how truncation adds up over a sum; with it
`TimelineInv` keeps the count's period begun (`StampInv`), the stamp on the line, and every
scheduled thread less than a period ahead of the count. `NoStepBack` needs `SessionInv`
besides, and a period of at least a tick: with shorter ones a session's stamps stand still
while a new anchor does not.

**The clocks.** `MonitorClock` says that the stall count times the poll period measures the
time without growth from below and, below its limit, from above; `FlowClock` that a
flow older than the last poll was seen by it; `GraceClock` that every look that found
nothing, but the last, cost a sleep without growth.

`RecoveryUnseen` and `BackInTime` depend on all the periods at once. `LimitsInv` bounds the
daemon's stay in each place by its `Patience` and the histories by their ends.
`RecoveryClock` says how much of the monitor's patience the recovery from one wedged stream
has used up, place by place: the watchdog's half second and a tick at the end of the
capture, that and the drain so far in the drain. `CalmClock` says that the last thing that
went wrong is no longer ago than the daemon has needed since to get where it is. Each
theorem has one hypothesis on the constants, which the code's values satisfy and which
cannot be weakened: TLC finds `RecoveryUnseen` violated with `StallMax = 1` and
`PollPeriod = 7`, one tick below the bound, and `BackInTime` with `RetrySleep = 28`, one
above.

**The objects.** `Caching` is the critical section of `DeviceNameCopy` in one statement: the
counts it leaves are those of the holders once the result is cached, and one more for the
caller; `NameInv` adds when the sweep is inside a call. `BufferInv` says that an item's size
was announced (now, or before the device came or went). `SweepInv` says that what the sweep was
told still holds as long as nothing the item depends on has changed (`Sized`, `Answered`,
`NameStable`), on `Frame` (an answer changes only with its piece of the world) and
`DataExact` (Size and Data agree at every address). `Owned` and `Owners` evaluate the two
cases of `GetPropertyData` that make up the tree. `CacheGivesNames` is where exact counts pay:
a new string has no reference, hence no holder (`Caching`, `HeldIsCounted`), so each critical
section is the abstract service's (`CachesShown`) and every other step is unseen by it.

### Only model-checked

Liveness under fairness and `ENABLED` are out of the prover's reach and stay with TLC:
`DeviceReturns`, `DeviceDisappears`, `StopReturns`, `CapturesEventually`,
`ExitsWhenRemoved`. Every safety property of the runs is a theorem, except those that a run
shows violated. What a recursive definition computes for every input could not be proved
either; there is none.

## Findings

1. **StartIO can lock `gMutex` against itself** (`Line6HAL.c:631`, run
   `plugin_first_start`). `StartIO` calls `AttachShm` with `gMutex` held; with no segment
   mapped `AttachShm` locks it again. The device is listed from the start
   (`Line6HAL.c:80`), so a client can do this before the daemon's first run; the monitor
   then blocks in `AttachShm` for good and the device never comes back (`WaitIsForGood`). It
   takes a plugin that was loaded before the daemon's first run (`ReadyNeverBlocks`,
   `AttachedNeverBlocks`).
2. **The first DoIO need not re-anchor** (`Line6HAL.c:635`, run `ring_first_cycle`). If
   one buffer was captured between `StartIO` and the first `DoIO`, the test of lines
   711-713 is false and the session runs without its depth until it first underruns.
3. **`stop` may free transfers in flight** (`usb.rs:242`, run `usb_drain_limit`), after a
   drain of two seconds, and only then: before its limit it frees none (`UsbImplementsEngine`).
4. **A second instance writes the segment before it knows the device is busy**
   (`main.rs:146`, run `daemon_two_instances`): it rewrites the header and resets
   `write_frames` under the instance that captures.

## Behaviours worth knowing

What the properties make explicit. No document contradicts the first two:

- **A drain that takes its two seconds is seen by the user.** The watchdog's half second and
  the drain together pass the monitor's two seconds: the device disappears from the host and
  comes back. `RecoveryUnseen` excepts drains longer than `ShortDrain`, 1.2 s with the code's
  periods; `BackInTime` bounds the absence.
- **Presence may change between Size and Data.** Then the list is shorter than announced,
  never longer (`WithinBuffer`).
- **The name's CFString can change although the model does not**, and here the code does less
  than its comment says: "only rebuilt when the connected model changes" (Line6HAL.c:122-124).
  Two threads copy the name outside the mutex (132) and may enter it in the other order; the
  older copy then replaces the cached string (140-148), and so does the torn copy of a name
  that is being rewritten. References stay exact (`NameCounted`, `GivesNames`); `SweepClean`
  excepts both, recorded in `disturbed`. No run of its own shows the divergence.

## What is not modelled

- The stride of a running copy when a hot swap changes `channels` (Line6HAL.c:693): every
  device of today's table has eight. What the host is told of the format is in
  `Line6Objects`.
- `IsPropertySettable` and `SetPropertyData` (nothing is settable), `QueryInterface` and
  reference counts of the driver object (`Release` frees nothing), the other entry points
  that return a constant.
- The panic of `make_iso` when libusb allocates no transfer (usb.rs:131): the process ends,
  as the processes of `Line6Daemon` may anywhere.
- The scripts: shell around launchctl; what launchd does with the job is `Relaunch`. Of
  `haltest.c` the call patterns of sweep and iosim are modelled, its statistics are not.
- Error counters and the progress line of the daemon; `sine_phase` of the test tone.
- Memory ordering: publication and load of `write_frames` are release and acquire, and the
  model is sequentially consistent; the sample stores a lapped reader races with are whole
  frames in the model. Float64 rounding of the timeline: less than a tick below 2^53 ticks.
- Time, except in `Line6Timeline` and `Line6System`: elsewhere units of polls, rounds and
  drains.

## What is left

1. The frame stride in `Line6Ring` (`channels` read per DoIO against the daemon's), once a
   device with another channel count is added to the table.
2. The composition of `Line6Ring` and `Line6Timeline`: that a host paced by
   `GetZeroTimeStamp` is on time for `IntactFrame`, with drifting clocks.
