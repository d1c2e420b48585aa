-------------------------- MODULE Line6StreamProofs --------------------------
(***************************************************************************)
(* Line6Ring implements Line6Stream, for every instance: each step of the  *)
(* daemon, the plugin and the host is a step of the stream or invisible in *)
(* it, because of the ring's inductive invariant.                          *)
(***************************************************************************)
EXTENDS Line6RingProofs

Mapped == [c \in Clients |-> Shown(client[c])]

(* What one client's step shows is that client's entry of the mapping.     *)
LEMMA OneShown ==
  ASSUME TypeOK, NEW c \in Clients, NEW k, client' = [client EXCEPT ![c] = k]
  PROVE  Mapped' = [Mapped EXCEPT ![c] = Shown(k)]
<1>1. client \in [Clients -> ClientState]
  BY DEF TypeOK
<1>2. \A d \in Clients : client'[d] = IF d = c THEN k ELSE client[d]
  BY <1>1
<1>3. \A d \in Clients : Shown(client'[d]) = IF d = c THEN Shown(k) ELSE Shown(client[d])
  BY <1>2
<1>4. QED
  BY <1>3 DEF Mapped

(* The stream's idle and ready clients.                                    *)
LEMMA FreshShown ==
  /\ Shown(IdleClient) = Stream!Client("off")
  /\ Shown([IdleClient EXCEPT !.pc = "ready"]) = Stream!Client("ready")
  BY DEF Shown, IdleClient, Stream!Client, Silence, Stream!Silence

LEMMA StartedShown ==
  /\ \A c \in Clients : Mapped[c] = Shown(client[c]) /\ Mapped[c].pc = client[c].pc
  /\ Stream!Started = Started
  BY DEF Mapped, Shown, Stream!Started, Started

-----------------------------------------------------------------------------
(* The daemon.                                                             *)
LEMMA DaemonShown ==
  ASSUME RingInv, Daemon
  PROVE  [Stream!Next]_(Stream!vars)
<1> USE DEF Stream!vars, Stream!stream, Stream!reader
<1>0. /\ producer \in [pc : {"down", "create", "idle", "push"}, w : Nat, left : Nat]
      /\ producer.pc = "idle" => producer.w = writeFrames
  BY DEF RingInv, TypeOK, DaemonInv
<1>1. ASSUME NEW l \in Latencies, CreateHeader(l)
      PROVE  UNCHANGED Stream!vars
  BY <1>0, <1>1 DEF CreateHeader, cursorVars, hostVars
<1>2. CASE CreateReset
  <2>1. Stream!BeginStream
    BY <1>2 DEF CreateReset, cursorVars, hostVars, Stream!BeginStream
  <2>2. QED
    BY <2>1 DEF Stream!Next
<1>3. ASSUME NEW k \in PacketSizes, PushBegin(k)
      PROVE  UNCHANGED Stream!vars
  BY <1>0, <1>3 DEF PushBegin, shmVars, cursorVars, hostVars
<1>4. CASE PushFrame
  <2>1. Stream!Capture
    BY <1>0, <1>4 DEF PushFrame, cursorVars, hostVars, Stream!Capture
  <2>2. QED
    BY <2>1 DEF Stream!Next
<1>5. CASE PushPublish
  <2>1. Stream!Publish
    BY <1>0, <1>5 DEF PushPublish, cursorVars, hostVars, Stream!Publish
  <2>2. QED
    BY <2>1 DEF Stream!Next
<1>6. CASE DaemonStops
  BY <1>0, <1>6 DEF DaemonStops, shmVars, cursorVars, hostVars
<1>7. QED
  BY <1>1, <1>2, <1>3, <1>4, <1>5, <1>6 DEF Daemon

-----------------------------------------------------------------------------
(* The host.                                                               *)
LEMMA StartShown ==
  ASSUME RingInv, NEW c \in Clients, StartIO(c)
  PROVE  Stream!Start(c)
<1>1. Mapped[c].pc = "off"
  BY StartedShown DEF StartIO
<1>2. Mapped' = [Mapped EXCEPT ![c] = Stream!Client("ready")]
  BY OneShown, FreshShown DEF StartIO, RingInv
<1>3. gIORunning = 0 <=> Stream!Started = {}
  <2>1. IsFiniteSet(Started)
    BY RingAssumption, FS_Subset DEF Started
  <2>2. QED
    BY <2>1, FS_EmptySet, StartedShown DEF RingInv, SessionInv
<1>4. CASE gIORunning = 0
  <2>1. /\ gReadFrame' = writeFrames /\ gCycleReadFrame' = writeFrames
        /\ gLastCycle' = -1 /\ anchor'.checked = writeFrames
    BY <1>4 DEF StartIO, NoCycle
  <2>2. cycle' \in [id : Nat, n : BufferSizes]
    BY TypeStep DEF RingInv, TypeOK, Next, Host
  <2>3. QED
    BY <1>1, <1>2, <1>3, <1>4, <2>1, <2>2
       DEF StartIO, shmVars, daemonVars, Stream!Start, Stream!stream, Mapped
<1>5. CASE gIORunning # 0
  <2>1. gIORunning > 0
    BY <1>5 DEF RingInv, TypeOK
  <2>2. UNCHANGED <<gReadFrame, gCycleReadFrame, gLastCycle, cycle, anchor>>
    BY <2>1 DEF StartIO
  <2>3. QED
    BY <1>1, <1>2, <1>3, <1>5, <2>2
       DEF StartIO, shmVars, daemonVars, Stream!Start, Stream!stream, Stream!reader, Mapped
<1>6. QED
  BY <1>4, <1>5

LEMMA StopShown ==
  ASSUME RingInv, NEW c \in Clients, StopIO(c)
  PROVE  Stream!Stop(c)
<1>1. Mapped[c].pc \in {"ready", "done"}
  BY StartedShown DEF StopIO
<1>2. Mapped' = [Mapped EXCEPT ![c] = Stream!Client("off")]
  BY OneShown, FreshShown DEF StopIO, RingInv
<1>3. QED
  BY <1>1, <1>2 DEF StopIO, shmVars, daemonVars, Stream!Stop, Stream!stream, Stream!reader, Mapped

LEMMA CycleShown ==
  ASSUME RingInv, NextCycle
  PROVE  Stream!NextCycle
<1>1. \A c \in Clients : Mapped[c].pc \notin {"load", "copy"}
  BY StartedShown DEF NextCycle, InFlight
<1>2. Mapped' = [c \in Clients |->
                   IF c \in Started THEN Stream!Client("ready") ELSE Mapped[c]]
  <2>1. \A c \in Clients : client'[c] = IF c \in Started THEN [IdleClient EXCEPT !.pc = "ready"]
                                        ELSE client[c]
    BY DEF NextCycle
  <2>2. \A c \in Clients : Shown(client'[c]) = IF c \in Started THEN Stream!Client("ready")
                                               ELSE Shown(client[c])
    BY <2>1, FreshShown
  <2>3. QED
    BY <2>2 DEF Mapped
<1>3. QED
  BY <1>1, <1>2, StartedShown
     DEF NextCycle, shmVars, daemonVars, cursorVars, Stream!NextCycle, Stream!stream,
         Stream!reader, Mapped

-----------------------------------------------------------------------------
(* The plugin.                                                             *)
LEMMA LookShown ==
  ASSUME RingInv, NEW c \in Clients, DoIOLoad(c)
  PROVE  Stream!Look(c)
<1> DEFINE k == [client[c] EXCEPT !.pc = "load", !.w = writeFrames, !.ep = epoch]
<1>0. client[c] \in ClientState
  BY DEF RingInv, TypeOK
<1>1. Mapped[c].pc = "ready"
  BY StartedShown DEF DoIOLoad
<1>2. client' = [client EXCEPT ![c] = k]
  BY DEF DoIOLoad
<1>3. Shown(k) = [pc |-> "load", w |-> writeFrames, ep |-> epoch,
                  i |-> Mapped[c].i, heard |-> Mapped[c].heard]
  <2>1. /\ k.pc = "load" /\ k.w = writeFrames /\ k.ep = epoch
        /\ k.i = client[c].i /\ k.frame = client[c].frame
    BY <1>0 DEF ClientState
  <2> HIDE DEF k
  <2>2. Mapped[c] = Shown(client[c])
    BY StartedShown
  <2>3. Mapped[c].i = client[c].i /\ Mapped[c].heard = client[c].frame
    BY <2>2 DEF Shown
  <2>4. QED
    BY <2>1, <2>3 DEF Shown
<1>4. Mapped' = [Mapped EXCEPT ![c] = Shown(k)]
  BY <1>2, OneShown DEF RingInv
<1> HIDE DEF k
<1>5. Mapped' = [Mapped EXCEPT ![c] = [pc |-> "load", w |-> writeFrames, ep |-> epoch,
                                       i |-> @.i, heard |-> @.heard]]
  BY <1>3, <1>4
<1>6. QED
  BY <1>1, <1>5 DEF DoIOLoad, shmVars, daemonVars, cursorVars, Stream!Look, Stream!stream,
     Stream!reader, Mapped

(* The cursor's tests are the offer of the next window, and what a resync  *)
(* chooses is offered too, or the stream is shorter than a buffer.         *)
LEMMA PlaceShown ==
  ASSUME RingInv, NEW c \in Clients, DoIOCursor(c)
  PROVE  Stream!Place(c)
<1> DEFINE k == [client[c] EXCEPT !.pc = "copy", !.rf = gCycleReadFrame']
           w == client[c].w
           n == cycle.n
<1>0. /\ client[c] \in ClientState /\ w \in Nat /\ n \in Nat /\ n <= RingFrames
      /\ gReadFrame \in Nat /\ RingFrames \in Nat /\ TypeOK
  <2>1. n \in BufferSizes /\ client[c] \in ClientState /\ gReadFrame \in Nat
    BY DEF RingInv, TypeOK
  <2>2. n \in Nat /\ SafetyOffset \in Nat /\ RingFrames \in Nat /\ 3 * n + SafetyOffset <= RingFrames
    BY <2>1, RingAssumption
  <2>3. QED
    BY <2>1, <2>2 DEF RingInv, ClientState
<1>1. Mapped[c].pc = "load" /\ Mapped[c].w = w
  <2>1. client[c].pc = "load"
    BY DEF DoIOCursor
  <2>2. Mapped[c] = Shown(client[c])
    BY StartedShown
  <2>3. QED
    BY <2>1, <2>2 DEF Shown
<1>2. Mapped' = [Mapped EXCEPT ![c].pc = "copy"]
  <2>1. client' = [client EXCEPT ![c] = k]
    BY DEF DoIOCursor
  <2>2. Shown(k) = [Shown(client[c]) EXCEPT !.pc = "copy"]
    BY <1>0 DEF Shown, ClientState
  <2>3. Mapped' = [Mapped EXCEPT ![c] = Shown(k)]
    BY <2>1, OneShown DEF RingInv
  <2> HIDE DEF k
  <2>4. QED
    BY <2>2, <2>3, StartedShown
<1>3. UNCHANGED <<epoch, producer, writeFrames, cycle>>
  BY DEF DoIOCursor, shmVars, daemonVars
<1> HIDE DEF k
<1>4. CASE cycle.id = gLastCycle
  BY <1>1, <1>2, <1>3, <1>4 DEF DoIOCursor, Stream!Place, Stream!stream, Stream!reader, Mapped
<1>5. CASE cycle.id # gLastCycle
  <2>1. /\ gLastCycle' = cycle.id /\ gCycleReadFrame' \in Nat
        /\ gReadFrame' = gCycleReadFrame' + n /\ anchor'.checked = w
        /\ w + n <= gCycleReadFrame' + RingFrames
        /\ gCycleReadFrame' = 0 \/ gCycleReadFrame' + n <= w
        /\ gCycleReadFrame' # gReadFrame => MustResync(n, w)
    BY <1>0, <1>5, CursorMove
  <2>2. MustResync(n, w) <=> ~Stream!Offers(gReadFrame, n, w)
    BY <1>0 DEF MustResync, Stream!Offers
  <2>3. \/ Stream!Offers(gReadFrame, n, w) /\ gCycleReadFrame' = gReadFrame
        \/ ~Stream!Offers(gReadFrame, n, w) /\ Stream!Offers(gCycleReadFrame', n, w)
        \/ w < n /\ gCycleReadFrame' = 0
    <3>1. CASE gCycleReadFrame' + n <= w
      BY <1>0, <2>1, <2>2, <3>1 DEF Stream!Offers
    <3>2. CASE ~(gCycleReadFrame' + n <= w)
      BY <1>0, <2>1, <3>2
    <3>3. QED
      BY <3>1, <3>2
  <2>4. QED
    BY <1>1, <1>2, <1>3, <1>5, <2>1, <2>3 DEF Stream!Place, Stream!stream, Mapped
<1>6. QED
  BY <1>4, <1>5

LEMMA HearShown ==
  ASSUME RingInv, NEW c \in Clients, DoIOCopy(c)
  PROVE  Stream!Hear(c)
<1> DEFINE k == client[c]
           src == k.rf + k.i
           heard == IF src < k.w THEN ring[Slot(src)] ELSE Silence
           pc == IF k.i + 1 = cycle.n THEN "done" ELSE "copy"
           k2 == [k EXCEPT !.frame = heard, !.i = k.i + 1, !.pc = pc]
<1>0. /\ k \in ClientState /\ client \in [Clients -> ClientState]
      /\ gCycleReadFrame \in Nat /\ k.pc = "copy"
  BY DEF RingInv, TypeOK, DoIOCopy
<1>1. k.rf = gCycleReadFrame
  BY <1>0 DEF RingInv, CopyInv, SameWindow
<1>2. client' = [client EXCEPT ![c] = k2]
  BY DEF DoIOCopy
<1>3. client'[c].frame = heard
  BY <1>0, <1>2 DEF ClientState
<1>4. k.ep = epoch /\ OnTime => heard = IF src < k.w THEN Frame(epoch, src) ELSE Silence
  BY <1>3, CopyOne DEF RingInv
<1>5. UNCHANGED <<epoch, producer, writeFrames, cycle, gLastCycle, gCycleReadFrame, gReadFrame,
                  anchor>>
  BY DEF DoIOCopy, shmVars, daemonVars, cursorVars
<1>6. Mapped' = [Mapped EXCEPT ![c] = Shown(k2)]
  BY <1>2, OneShown DEF RingInv
<1>7. Shown(k2) = [pc |-> pc, w |-> k.w, ep |-> k.ep, i |-> k.i + 1, heard |-> heard]
  <2>1. /\ k2.i = k.i + 1 /\ k2.pc = pc /\ k2.frame = heard
        /\ k2.w = k.w /\ k2.ep = k.ep
    BY <1>0 DEF ClientState
  <2> HIDE DEF k, k2, heard, pc
  <2>2. QED
    BY <2>1 DEF Shown
<1>8. Mapped[c] = Shown(k) /\ Mapped'[c].heard = heard
      /\ Shown(k).i = k.i /\ Shown(k).pc = "copy" /\ Shown(k).w = k.w /\ Shown(k).ep = k.ep
  BY <1>0, <1>6, <1>7 DEF Mapped, Shown
<1>9. Stream!May(Shown(k), gCycleReadFrame + k.i, heard)
  <2>1. CASE src < k.w
    BY <1>0, <1>1, <1>4, <1>8, <2>1
       DEF Stream!May, Stream!Frame, Frame, OnTime, ClientState
  <2>2. CASE ~(src < k.w)
    BY <1>0, <1>1, <1>8, <2>2 DEF Stream!May, Stream!Silence, Silence, ClientState
  <2>3. QED
    BY <2>1, <2>2
<1> HIDE DEF k, heard, k2, src
<1>10. QED
  BY <1>5, <1>6, <1>7, <1>8, <1>9 DEF Stream!Hear, Stream!stream, Stream!reader, Mapped

-----------------------------------------------------------------------------
(* Every step of the ring is a step of the stream or invisible in it.      *)
LEMMA StepShown ==
  RingInv /\ [Next]_vars => [Stream!Next]_(Stream!vars)
<1> SUFFICES ASSUME RingInv, [Next]_vars
             PROVE  [Stream!Next]_(Stream!vars)
  OBVIOUS
<1>1. CASE Daemon
  BY <1>1, DaemonShown
<1>2. CASE Plugin
  BY <1>2, LookShown, PlaceShown, HearShown DEF Plugin, Stream!Next
<1>3. CASE Host
  BY <1>3, StartShown, StopShown, CycleShown DEF Host, Stream!Next
<1>4. CASE UNCHANGED vars
  BY <1>4 DEF vars, shmVars, daemonVars, cursorVars, hostVars, Stream!vars, Stream!stream,
     Stream!reader
<1>5. QED
  BY <1>1, <1>2, <1>3, <1>4 DEF Next

LEMMA StartsShown ==
  Init => Stream!Init
<1> SUFFICES ASSUME Init
             PROVE  Stream!Init
  OBVIOUS
<1>1. Mapped = [c \in Clients |-> Stream!Client("off")]
  BY FreshShown DEF Init, Mapped
<1>2. QED
  BY <1>1 DEF Init, Stream!Init, Mapped, NoCycle

(* The audio data path implements the abstract stream, whatever the ring   *)
(* size, depth, buffers, packets and clients that meet RingAssumption.     *)
THEOREM RingImplementsStream == Spec => Implements
  BY StartsShown, StepShown, RingInvariant, PTL DEF Spec, Implements, Stream!Spec
=============================================================================
