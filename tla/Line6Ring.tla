------------------------------ MODULE Line6Ring ------------------------------
(***************************************************************************)
(* The audio data path: the lock-free ring in shared memory, the daemon    *)
(* that fills it (push_frames, shm::create) and the plugin's IO clients    *)
(* that drain it (StartIO, StopIO, DoIOOperation).                         *)
(*                                                                         *)
(* Nothing tells the daemon how far a reader has got, and nothing tells a  *)
(* reader that the slot it is copying has just been overwritten: the only  *)
(* synchronisation is the counter write_frames and the plugin's choice of  *)
(* where to read.  Every access to shared memory that another thread can   *)
(* see half-way is therefore a step of its own: one step per frame stored, *)
(* one per frame copied, one for the publication of a batch, one for the   *)
(* load of write_frames that precedes the plugin's critical section.       *)
(*                                                                         *)
(* A frame is identified by the incarnation of the segment it was captured *)
(* in (epoch: shm::create resets write_frames) and its position in that    *)
(* incarnation.  The plugin is attached throughout; attaching is           *)
(* Line6Plugin's subject.                                                  *)
(***************************************************************************)
EXTENDS Integers, FiniteSets

CONSTANTS
  RingFrames,     \* LINE6_RING_FRAMES: capacity of the ring, in frames
  SafetyOffset,   \* kSafetyOffset
  DefaultMargin,  \* kDefaultMargin, the depth used when the header asks for none
  Latencies,      \* the values of latency_frames a daemon may be started with
  BufferSizes,    \* the values of inFrames the host may use for a cycle
  PacketSizes,    \* the numbers of frames one push_frames call may carry
  Clients,        \* the IO clients of the device
  MaxFrames,      \* bound: frames captured per incarnation of the segment
  MaxEpoch,       \* bound: incarnations of the segment
  MaxCycle        \* bound: IO cycle numbers

NoCycle == -1     \* gLastCycle = ~0ULL: no cycle has been served yet

(* The ring must hold the deepest backlog a resync can choose and one more *)
(* buffer: 24000 + 4096 frames at the extreme of the real parameters,      *)
(* against 65536.                                                          *)
ASSUME RingAssumption ==
  /\ RingFrames \in Nat \ {0}
  /\ SafetyOffset \in Nat
  /\ DefaultMargin \in Nat \ {0}
  /\ Latencies \subseteq Nat \ {0}
  /\ BufferSizes \subseteq Nat \ {0}
  /\ PacketSizes \subseteq Nat \ {0}
  /\ MaxFrames \in Nat
  /\ MaxEpoch \in Nat
  /\ MaxCycle \in Nat
  /\ IsFiniteSet(Clients)
  /\ \A n \in BufferSizes :
       /\ 3 * n + SafetyOffset <= RingFrames
       /\ \A l \in Latencies \cup {DefaultMargin} : l + n <= RingFrames

VARIABLES
  writeFrames,     \* shm->write_frames
  latencyFrames,   \* shm->latency_frames
  ring,            \* shm->ring, one frame per slot
  producer,        \* the daemon: what it is doing, its local w, frames left to store
  epoch,           \* incarnations of the segment so far
  gIORunning,      \* gIO_Running
  gReadFrame,      \* where the next cycle will read
  gCycleReadFrame, \* where the current cycle reads
  gLastCycle,      \* the cycle gCycleReadFrame belongs to
  cycle,           \* the host's current IO cycle: its mIOCycleCounter and inFrames
  client,          \* each IO client's progress through DoIOOperation
  anchor           \* history: the write head and incarnation the cursor was last
                   \* placed against, where it was put, and the depth it was given;
                   \* and the head the current cycle's window was checked against

shmVars == <<writeFrames, latencyFrames, ring>>
daemonVars == <<producer, epoch>>
cursorVars == <<gIORunning, gReadFrame, gCycleReadFrame, gLastCycle>>
hostVars == <<cycle, client>>
vars == <<shmVars, daemonVars, cursorVars, hostVars, anchor>>

Silence == [ep |-> 0, fr |-> -1]     \* memset(out, 0, frameBytes)
Frame(e, f) == [ep |-> e, fr |-> f]
Slot(f) == f % RingFrames            \* f & LINE6_RING_MASK

(* The depth a resync gives the cursor when a cycle moves n frames.        *)
Depth(n) ==
  LET lat == 2 * n + SafetyOffset
      margin == IF latencyFrames # 0 THEN latencyFrames ELSE DefaultMargin
  IN  IF lat < margin THEN margin ELSE lat

IdleClient == [pc |-> "off", w |-> 0, ep |-> 0, rf |-> 0, i |-> 0, frame |-> Silence]

(* The segment's first daemon has got as far as the magic number, so the   *)
(* plugin attaches to a header whose other fields are still zero.          *)
Init ==
  /\ writeFrames = 0
  /\ latencyFrames = 0
  /\ ring = [s \in 0 .. RingFrames - 1 |-> Silence]
  /\ producer = [pc |-> "down", w |-> 0, left |-> 0]
  /\ epoch = 0
  /\ gIORunning = 0
  /\ gReadFrame = 0
  /\ gCycleReadFrame = 0
  /\ gLastCycle = NoCycle
  /\ cycle \in [id : {0}, n : BufferSizes]
  /\ client = [c \in Clients |-> IdleClient]
  /\ anchor = [head |-> 0, pos |-> 0, depth |-> 0, ep |-> 0, checked |-> 0]

-----------------------------------------------------------------------------
(* The daemon.                                                             *)

(* shm::create, as far as the last header field before write_frames.  A    *)
(* fresh process brings its own --latency-ms; a process that re-creates    *)
(* the segment for another device model keeps the one it has.              *)
CreateHeader(l) ==
  /\ \/ producer.pc = "down"
     \/ producer.pc = "idle" /\ l = latencyFrames
  /\ epoch < MaxEpoch
  /\ latencyFrames' = l
  /\ producer' = [producer EXCEPT !.pc = "create"]
  /\ UNCHANGED <<writeFrames, ring, epoch, cursorVars, hostVars, anchor>>

(* shm::create: write_frames.store(0).  The ring keeps its old contents.   *)
CreateReset ==
  /\ producer.pc = "create"
  /\ writeFrames' = 0
  /\ epoch' = epoch + 1
  /\ producer' = [pc |-> "idle", w |-> 0, left |-> 0]
  /\ UNCHANGED <<latencyFrames, ring, cursorVars, hostVars, anchor>>

(* push_frames is entered with k whole frames and loads write_frames.      *)
PushBegin(k) ==
  /\ producer.pc = "idle"
  /\ writeFrames + k <= MaxFrames
  /\ producer' = [pc |-> "push", w |-> writeFrames, left |-> k]
  /\ UNCHANGED <<shmVars, epoch, cursorVars, hostVars, anchor>>

(* push_frames stores one frame in its slot.                               *)
PushFrame ==
  /\ producer.pc = "push"
  /\ producer.left > 0
  /\ ring' = [ring EXCEPT ![Slot(producer.w)] = Frame(epoch, producer.w)]
  /\ producer' = [producer EXCEPT !.w = @ + 1, !.left = @ - 1]
  /\ UNCHANGED <<writeFrames, latencyFrames, epoch, cursorVars, hostVars, anchor>>

(* push_frames publishes the batch.                                        *)
PushPublish ==
  /\ producer.pc = "push"
  /\ producer.left = 0
  /\ writeFrames' = producer.w
  /\ producer' = [producer EXCEPT !.pc = "idle"]
  /\ UNCHANGED <<latencyFrames, ring, epoch, cursorVars, hostVars, anchor>>

(* The process ends or is killed, in the middle of a batch or of           *)
(* shm::create included; the segment stays.                                *)
DaemonStops ==
  /\ producer.pc # "down"
  /\ producer' = [producer EXCEPT !.pc = "down"]
  /\ UNCHANGED <<shmVars, epoch, cursorVars, hostVars, anchor>>

-----------------------------------------------------------------------------
(* The plugin, called by the host.                                         *)

Started == {c \in Clients : client[c].pc # "off"}
InFlight == {c \in Clients : client[c].pc \in {"load", "copy"}}

(* StartIO: the first client anchors the session at the write head.  The   *)
(* host may number the session's cycles from one again or carry on.        *)
StartIO(c) ==
  /\ client[c].pc = "off"
  /\ gIORunning' = gIORunning + 1
  /\ \/ /\ gIORunning = 0
        /\ gReadFrame' = writeFrames
        /\ gCycleReadFrame' = writeFrames
        /\ gLastCycle' = NoCycle
        /\ cycle' \in [id : {1, cycle.id + 1} \cap 0 .. MaxCycle, n : BufferSizes]
        /\ anchor' = [head |-> writeFrames, pos |-> writeFrames, depth |-> 0,
                      ep |-> epoch, checked |-> writeFrames]
     \/ /\ gIORunning > 0
        /\ UNCHANGED <<gReadFrame, gCycleReadFrame, gLastCycle, cycle, anchor>>
  /\ client' = [client EXCEPT ![c] = [IdleClient EXCEPT !.pc = "ready"]]
  /\ UNCHANGED <<shmVars, daemonVars>>

(* StopIO.  The host does not stop a client inside one of its IO calls.    *)
StopIO(c) ==
  /\ client[c].pc \in {"ready", "done"}
  /\ gIORunning > 0
  /\ gIORunning' = gIORunning - 1
  /\ client' = [client EXCEPT ![c] = IdleClient]
  /\ UNCHANGED <<shmVars, daemonVars, gReadFrame, gCycleReadFrame, gLastCycle,
                 cycle, anchor>>

(* The host begins the next IO cycle, with the buffer size then in force.  *)
(* Cycles do not overlap: every call of the last one has returned.         *)
NextCycle ==
  /\ Started # {}
  /\ InFlight = {}
  /\ cycle.id < MaxCycle
  /\ cycle' \in [id : {cycle.id + 1}, n : BufferSizes]
  /\ client' = [c \in Clients |->
                  IF c \in Started THEN [IdleClient EXCEPT !.pc = "ready"] ELSE client[c]]
  /\ UNCHANGED <<shmVars, daemonVars, cursorVars, anchor>>

(* DoIOOperation up to the load of write_frames, before the mutex.         *)
DoIOLoad(c) ==
  /\ client[c].pc = "ready"
  /\ client' = [client EXCEPT ![c].pc = "load", ![c].w = writeFrames, ![c].ep = epoch]
  /\ UNCHANGED <<shmVars, daemonVars, cursorVars, cycle, anchor>>

(* Mutants of the tests and of the resync below, each a plausible slip:    *)
(* the underrun test lost; the overrun test without room for the buffer    *)
(* being read; a resync unaware that the stream may be shorter than the    *)
(* depth; a resync that leaves one buffer instead of the depth.            *)
MustResyncNoUnderrun(n, w) == gReadFrame > w \/ w - gReadFrame > RingFrames - n
MustResyncNoReserve(n, w) == gReadFrame + n > w \/ w - gReadFrame > RingFrames
ResyncUnclamped(n, w) == w - Depth(n)
ResyncOneBuffer(n, w) == IF w > n THEN w - n ELSE 0

(* The cursor cannot serve n frames below head w.  The code's second test, *)
(* gReadFrame > w, follows from the first.                                 *)
MustResync(n, w) ==
  \/ gReadFrame + n > w
  \/ gReadFrame > w
  \/ w - gReadFrame > RingFrames - n

Resync(n, w) == IF w > Depth(n) THEN w - Depth(n) ELSE 0

(* Mutant: the cursor moves for every client instead of once per cycle.    *)
DoIOCursorEveryClient(c) ==
  LET w == client[c].w
      n == cycle.n
      start == IF MustResync(n, w) THEN Resync(n, w) ELSE gReadFrame
  IN
  /\ client[c].pc = "load"
  /\ gLastCycle' = cycle.id
  /\ gCycleReadFrame' = start
  /\ gReadFrame' = start + n
  /\ anchor' = [anchor EXCEPT !.checked = w]
  /\ client' = [client EXCEPT ![c].pc = "copy", ![c].rf = start]
  /\ UNCHANGED <<shmVars, daemonVars, gIORunning, cycle>>

(* DoIOOperation's critical section: the first client of a cycle to get    *)
(* here moves the cursor, the others reuse its position.                   *)
DoIOCursor(c) ==
  LET w == client[c].w
      n == cycle.n
      start == IF MustResync(n, w) THEN Resync(n, w) ELSE gReadFrame
  IN
  /\ client[c].pc = "load"
  /\ \/ /\ cycle.id # gLastCycle
        /\ gLastCycle' = cycle.id
        /\ gCycleReadFrame' = start
        /\ gReadFrame' = start + n
        /\ anchor' = IF MustResync(n, w)
                     THEN [head |-> w, pos |-> start, depth |-> Depth(n),
                           ep |-> client[c].ep, checked |-> w]
                     ELSE [anchor EXCEPT !.checked = w]
     \/ /\ cycle.id = gLastCycle
        /\ UNCHANGED <<gLastCycle, gCycleReadFrame, gReadFrame, anchor>>
  /\ client' = [client EXCEPT ![c].pc = "copy", ![c].rf = gCycleReadFrame']
  /\ UNCHANGED <<shmVars, daemonVars, gIORunning, cycle>>

(* DoIOOperation copies one frame, or silence past the head it loaded.     *)
DoIOCopy(c) ==
  LET k == client[c]
      src == k.rf + k.i
  IN
  /\ k.pc = "copy"
  /\ client' = [client EXCEPT
       ![c].frame = IF src < k.w THEN ring[Slot(src)] ELSE Silence,
       ![c].i = k.i + 1,
       ![c].pc = IF k.i + 1 = cycle.n THEN "done" ELSE "copy"]
  /\ UNCHANGED <<shmVars, daemonVars, cursorVars, cycle, anchor>>

-----------------------------------------------------------------------------
Daemon ==
  \/ \E l \in Latencies : CreateHeader(l)
  \/ CreateReset
  \/ \E k \in PacketSizes : PushBegin(k)
  \/ PushFrame
  \/ PushPublish
  \/ DaemonStops

Plugin == \E c \in Clients : DoIOLoad(c) \/ DoIOCursor(c) \/ DoIOCopy(c)

Host == NextCycle \/ \E c \in Clients : StartIO(c) \/ StopIO(c)

Next == Daemon \/ Plugin \/ Host

Spec == Init /\ [][Next]_vars

-----------------------------------------------------------------------------
(* Properties.                                                             *)

ClientState ==
  [pc : {"off", "ready", "load", "copy", "done"}, w : Nat, ep : Nat, rf : Nat,
   i : Nat, frame : [ep : Nat, fr : Nat \cup {-1}]]

(* Every variable has its type: above all, no cursor ever goes below zero, *)
(* where the code's UInt64 would wrap round to the far end of the stream.  *)
TypeOK ==
  /\ writeFrames \in Nat
  /\ latencyFrames \in Latencies \cup {0}
  /\ ring \in [0 .. RingFrames - 1 -> [ep : Nat, fr : Nat \cup {-1}]]
  /\ producer \in [pc : {"down", "create", "idle", "push"}, w : Nat, left : Nat]
  /\ epoch \in Nat
  /\ gIORunning \in Nat
  /\ gReadFrame \in Nat
  /\ gCycleReadFrame \in Nat
  /\ gLastCycle \in Nat \cup {NoCycle}
  /\ cycle \in [id : Nat, n : BufferSizes]
  /\ client \in [Clients -> ClientState]
  /\ anchor \in [head : Nat, pos : Nat, depth : Nat, ep : Nat, checked : Nat]

Copied(c) == client[c].pc \in {"copy", "done"} /\ client[c].i > 0
LastSource(c) == client[c].rf + client[c].i - 1

(* The host has not fallen a whole cycle behind: the daemon has stored at  *)
(* most one buffer since the head the cycle's window was checked against.  *)
OnTime == producer.w <= anchor.checked + cycle.n

(* A client that is on time hears intact audio although it reads without   *)
(* a lock: every frame DoIOOperation copies is the frame of that position  *)
(* in the stream, neither one the daemon has already overwritten nor one   *)
(* it has counted but not stored; past the head it is silence.             *)
IntactFrame ==
  \A c \in Clients :
    Copied(c) /\ client[c].ep = epoch /\ OnTime =>
      client[c].frame = IF LastSource(c) < client[c].w
                        THEN Frame(epoch, LastSource(c))
                        ELSE Silence

(* DoIOOperation turns an underrun into a resync, not into a gap: silence  *)
(* is heard only while the segment holds less than one buffer, or by a     *)
(* client that loaded an older head than the one which placed the cursor.  *)
SilenceOnlyAtStart ==
  \A c \in Clients :
    Copied(c) /\ client[c].frame = Silence =>
      client[c].w < cycle.n \/ client[c].w < anchor.checked

(* All the clients the host serves in one IO cycle read the same window,   *)
(* whatever order their calls and the daemon's stores come in, and across  *)
(* sessions that number their cycles alike.                                *)
SameWindow ==
  \A c \in Clients :
    client[c].pc \in {"copy", "done"} =>
      /\ gLastCycle = cycle.id
      /\ client[c].rf = gCycleReadFrame
      /\ gReadFrame = gCycleReadFrame + cycle.n

(* This step is a DoIOOperation that moves the cursor for a new cycle and  *)
(* drops or replays frames in doing so.                                    *)
Jumps(c) ==
  /\ client[c].pc = "load" /\ client'[c].pc = "copy"
  /\ cycle.id # gLastCycle
  /\ gCycleReadFrame' # gReadFrame

(* The buffer depth does its job: from one full anchor to the next, the    *)
(* stream has a discontinuity only if the host has consumed more than the  *)
(* depth less one buffer ahead of capture, or lagged by more than the ring *)
(* has left over.                                                          *)
JitterAbsorbed ==
  [][\A c \in Clients :
       LET captured == client[c].w - anchor.head
           consumed == gReadFrame - anchor.pos
       IN  Jumps(c) /\ anchor.ep = client[c].ep /\ anchor.head > anchor.depth =>
             \/ consumed > captured + anchor.depth - cycle.n
             \/ captured > consumed + RingFrames - cycle.n - anchor.depth]_vars

(* Line6HAL.c:635, "the cursor re-anchors on the first DoIO": the first    *)
(* cycle of a session reads at the full depth below the head, once the     *)
(* stream is that long.                                                    *)
FirstCycleReAnchors ==
  [][\A c \in Clients :
       /\ client[c].pc = "load" /\ client'[c].pc = "copy"
       /\ gLastCycle = NoCycle
       /\ client[c].w > Depth(cycle.n)
       => client[c].w - gCycleReadFrame' = Depth(cycle.n)]_vars

(* The ring and the cursor implement Line6Stream: captured frames are the  *)
(* daemon's own count, published ones write_frames, and the one window is  *)
(* the cycle's cursor.                                                     *)
Shown(k) == [pc |-> k.pc, w |-> k.w, ep |-> k.ep, i |-> k.i, heard |-> k.frame]

Stream == INSTANCE Line6Stream WITH
  Reach <- RingFrames,
  captured <- producer.w,
  published <- writeFrames,
  served <- gLastCycle,
  window <- gCycleReadFrame,
  next <- gReadFrame,
  checked <- anchor.checked,
  client <- [c \in Clients |-> Shown(client[c])]

(* Every behaviour of daemon, segment and plugin is one the abstract       *)
(* stream allows: what clients hear is a gapless, shared, lock-free view   *)
(* of it, with the jumps, the silence and the late frames that it lists    *)
(* and no others (docs/ARCHITECTURE.md:83-90).                             *)
Implements == Stream!Spec
=============================================================================
