--------------------------- MODULE Line6RingProofs ---------------------------
(***************************************************************************)
(* The safety of the audio data path for every ring size, depth, buffer    *)
(* size, packet size and number of clients that meets RingAssumption, and  *)
(* for runs of every length: MaxFrames, MaxEpoch and MaxCycle only guard   *)
(* actions, and no proof uses them.                                        *)
(***************************************************************************)
EXTENDS Line6Ring, FiniteSetTheorems, TLAPS

(* What the daemon guarantees: the newest RingFrames frames it has stored  *)
(* are in their slots, the published head is not past them, and a slot     *)
(* once filled is never silent again.                                      *)
DaemonInv ==
  /\ writeFrames <= producer.w
  /\ producer.pc = "idle" => producer.w = writeFrames
  /\ \A j \in Nat : j < producer.w /\ producer.w <= j + RingFrames =>
       ring[Slot(j)] = Frame(epoch, j)
  /\ \A j \in Nat : j < producer.w => ring[Slot(j)] # Silence

(* What a client may rely on after it has loaded the head.                 *)
LoadInv ==
  \A c \in Clients : client[c].pc \in {"load", "copy", "done"} =>
    /\ client[c].ep <= epoch
    /\ client[c].ep = epoch => client[c].w <= writeFrames
    /\ \A j \in Nat : j < client[c].w => ring[Slot(j)] # Silence

(* gIO_Running counts the clients that are started.                        *)
SessionInv == gIORunning = Cardinality(Started)

(* The window of the current cycle lies below the head it was checked      *)
(* against, and leaves the daemon a buffer of room before it is lapped.    *)
CursorInv ==
  /\ gLastCycle <= cycle.id
  /\ gLastCycle = cycle.id =>
       /\ gReadFrame = gCycleReadFrame + cycle.n
       /\ anchor.checked + cycle.n <= gCycleReadFrame + RingFrames
       /\ gCycleReadFrame = 0 \/ gCycleReadFrame + cycle.n <= anchor.checked
  /\ anchor.head > anchor.depth => anchor.pos = anchor.head - anchor.depth

(* Where a client is inside its copy loop, and what it copied last.        *)
CopyInv ==
  /\ \A c \in Clients : client[c].pc \in {"ready", "load"} => client[c].i = 0
  /\ \A c \in Clients : client[c].pc \in {"copy", "done"} =>
       /\ client[c].i <= cycle.n
       /\ client[c].pc = "copy" => client[c].i < cycle.n
       /\ client[c].i > 0 /\ client[c].frame = Silence => LastSource(c) >= client[c].w
  /\ SameWindow
  /\ IntactFrame

RingInv == TypeOK /\ DaemonInv /\ LoadInv /\ SessionInv /\ CursorInv /\ CopyInv

-----------------------------------------------------------------------------
(* The slots of two frames less than a ring apart are different: with the  *)
(* mask, a store touches no frame the window of the newest RingFrames      *)
(* still holds.                                                            *)
LEMMA SlotsDiffer ==
  ASSUME NEW a \in Nat, NEW b \in Nat, a < b, b < a + RingFrames
  PROVE  Slot(a) # Slot(b)
<1>1. RingFrames \in Nat \ {0}
  BY RingAssumption
<1> DEFINE qa == a \div RingFrames
           qb == b \div RingFrames
<1>2. a = (RingFrames * qa) + (a % RingFrames) /\ qa \in Int
  BY <1>1
<1>3. b = (RingFrames * qb) + (b % RingFrames) /\ qb \in Int
  BY <1>1
<1> DEFINE q == qb - qa
<1>4. SUFFICES ASSUME a % RingFrames = b % RingFrames
               PROVE  FALSE
  BY DEF Slot
<1>5. b - a = RingFrames * q /\ q \in Int
  BY <1>1, <1>2, <1>3, <1>4
<1> HIDE DEF q
<1>6. CASE q <= 0
  BY <1>1, <1>5, <1>6
<1>7. CASE q >= 1
  BY <1>1, <1>5, <1>7
<1>8. QED
  BY <1>5, <1>6, <1>7

LEMMA SlotType ==
  ASSUME NEW a \in Nat
  PROVE  Slot(a) \in 0 .. RingFrames - 1
  BY RingAssumption DEF Slot

(* A resync goes below the head by exactly one depth or to the start of    *)
(* the stream, and either way leaves room for the buffer on both sides.    *)
LEMMA ResyncBounds ==
  ASSUME TypeOK, NEW n \in BufferSizes, NEW w \in Nat
  PROVE  /\ Depth(n) \in Nat
         /\ Resync(n, w) \in Nat
         /\ w + n <= Resync(n, w) + RingFrames
         /\ Resync(n, w) = 0 \/ Resync(n, w) + n <= w
         /\ w > Depth(n) => Resync(n, w) = w - Depth(n)
<1>1. n \in Nat /\ RingFrames \in Nat /\ SafetyOffset \in Nat /\ latencyFrames \in Nat
  BY RingAssumption DEF TypeOK
<1>2. 3 * n + SafetyOffset <= RingFrames /\ DefaultMargin + n <= RingFrames
  BY RingAssumption
<1>3. latencyFrames # 0 => latencyFrames + n <= RingFrames
  BY RingAssumption DEF TypeOK
<1>4. Depth(n) \in Nat /\ Depth(n) + n <= RingFrames /\ Depth(n) >= n
  BY <1>1, <1>2, <1>3, RingAssumption DEF Depth
<1>5. QED
  BY <1>1, <1>4 DEF Resync

(* What the critical section of DoIOOperation leaves behind: either the    *)
(* cycle's window as it was, or a window that fits below the head.         *)
AnchorType == [head : Nat, pos : Nat, depth : Nat, ep : Nat, checked : Nat]

LEMMA CursorMove ==
  ASSUME TypeOK, NEW c \in Clients, DoIOCursor(c), cycle.id # gLastCycle
  PROVE  /\ gLastCycle' = cycle.id
         /\ gCycleReadFrame' \in Nat
         /\ gReadFrame' = gCycleReadFrame' + cycle.n
         /\ client[c].w + cycle.n <= gCycleReadFrame' + RingFrames
         /\ gCycleReadFrame' = 0 \/ gCycleReadFrame' + cycle.n <= client[c].w
         /\ anchor' \in AnchorType
         /\ anchor'.checked = client[c].w
         /\ \/ anchor'.head = anchor.head /\ anchor'.pos = anchor.pos /\ anchor'.depth = anchor.depth
            \/ anchor'.head > anchor'.depth => anchor'.pos = anchor'.head - anchor'.depth
         /\ gCycleReadFrame' # gReadFrame => MustResync(cycle.n, client[c].w)
<1> DEFINE k == client[c]
           w == client[c].w
           n == cycle.n
<1>1. client[c] \in ClientState /\ cycle \in [id : Nat, n : BufferSizes]
      /\ gReadFrame \in Nat /\ anchor \in AnchorType
  BY DEF TypeOK, AnchorType
<1>2. /\ n \in BufferSizes /\ n \in Nat /\ w \in Nat /\ k.ep \in Nat /\ RingFrames \in Nat
      /\ n <= RingFrames
  <2>1. w \in Nat /\ k.ep \in Nat
    BY <1>1 DEF ClientState
  <2>2. n \in BufferSizes
    BY <1>1
  <2>3. n \in Nat /\ SafetyOffset \in Nat /\ RingFrames \in Nat /\ 3 * n + SafetyOffset <= RingFrames
    BY <2>2, RingAssumption
  <2>4. QED
    BY <2>1, <2>2, <2>3
<1>3. /\ Resync(n, w) \in Nat
      /\ Depth(n) \in Nat
      /\ w + n <= Resync(n, w) + RingFrames
      /\ Resync(n, w) = 0 \/ Resync(n, w) + n <= w
      /\ w > Depth(n) => Resync(n, w) = w - Depth(n)
  BY <1>2, ResyncBounds
<1>4. /\ gLastCycle' = cycle.id
      /\ gCycleReadFrame' = IF MustResync(n, w) THEN Resync(n, w) ELSE gReadFrame
      /\ gReadFrame' = gCycleReadFrame' + n
      /\ anchor' = IF MustResync(n, w)
                   THEN [head |-> w, pos |-> gCycleReadFrame', depth |-> Depth(n),
                         ep |-> k.ep, checked |-> w]
                   ELSE [anchor EXCEPT !.checked = w]
  BY DEF DoIOCursor
<1> HIDE DEF k, w, n
<1>5. CASE MustResync(n, w)
  <2>1. anchor' = [head |-> w, pos |-> Resync(n, w), depth |-> Depth(n),
                   ep |-> k.ep, checked |-> w]
    BY <1>4, <1>5
  <2>2. anchor' \in AnchorType
    BY <1>2, <1>3, <2>1 DEF AnchorType
  <2>3. /\ anchor'.head = w /\ anchor'.pos = Resync(n, w) /\ anchor'.depth = Depth(n)
        /\ anchor'.checked = w
    BY <2>1
  <2>4. QED
    BY <1>2, <1>3, <1>4, <1>5, <2>2, <2>3 DEF k, w, n
<1>6. CASE ~MustResync(n, w)
  <2>1. anchor' = [anchor EXCEPT !.checked = w]
    BY <1>4, <1>6
  <2>2. /\ anchor' \in AnchorType /\ anchor'.checked = w
        /\ anchor'.head = anchor.head /\ anchor'.pos = anchor.pos /\ anchor'.depth = anchor.depth
    BY <1>1, <1>2, <2>1 DEF AnchorType
  <2>3. gReadFrame + n <= w /\ w - gReadFrame <= RingFrames - n
    BY <1>1, <1>2, <1>6 DEF MustResync
  <2>4. QED
    BY <1>1, <1>2, <1>4, <1>6, <2>2, <2>3 DEF k, w, n
<1>7. QED
  BY <1>5, <1>6

-----------------------------------------------------------------------------
(* One step lemma per part of the invariant.                               *)

LEMMA TypeStep ==
  TypeOK /\ [Next]_vars => TypeOK'
<1> SUFFICES ASSUME TypeOK, [Next]_vars
             PROVE  TypeOK'
  OBVIOUS
<1> USE DEF TypeOK
<1>0. /\ Latencies \subseteq Nat /\ PacketSizes \subseteq Nat
      /\ BufferSizes \subseteq Nat /\ MaxCycle \in Nat
      /\ IdleClient \in ClientState
      /\ [IdleClient EXCEPT !.pc = "ready"] \in ClientState
  BY RingAssumption DEF IdleClient, ClientState, Silence
<1> HIDE DEF IdleClient
<1>1. ASSUME NEW l \in Latencies, CreateHeader(l)
      PROVE  TypeOK'
  BY <1>1 DEF CreateHeader, cursorVars, hostVars
<1>2. CASE CreateReset
  BY <1>2 DEF CreateReset, cursorVars, hostVars
<1>3. ASSUME NEW k \in PacketSizes, PushBegin(k)
      PROVE  TypeOK'
  BY <1>0, <1>3 DEF PushBegin, shmVars, cursorVars, hostVars
<1>4. CASE PushFrame
  <2>1. Frame(epoch, producer.w) \in [ep : Nat, fr : Nat \cup {-1}]
    BY DEF Frame
  <2>2. ring' \in [0 .. RingFrames - 1 -> [ep : Nat, fr : Nat \cup {-1}]]
    BY <1>4, <2>1, SlotType DEF PushFrame
  <2>3. producer' \in [pc : {"down", "create", "idle", "push"}, w : Nat, left : Nat]
    <3>1. producer.w + 1 \in Nat /\ producer.left - 1 \in Nat
      BY <1>4 DEF PushFrame
    <3>2. QED
      BY <1>4, <3>1 DEF PushFrame
  <2>4. QED
    BY <1>4, <2>2, <2>3 DEF PushFrame, cursorVars, hostVars
<1>5. CASE PushPublish
  BY <1>5 DEF PushPublish, cursorVars, hostVars
<1>6. CASE DaemonStops
  BY <1>6 DEF DaemonStops, shmVars, cursorVars, hostVars
<1>7. ASSUME NEW c \in Clients, StartIO(c)
      PROVE  TypeOK'
  <2>1. client' \in [Clients -> ClientState]
    BY <1>0, <1>7 DEF StartIO
  <2>2. /\ gIORunning' \in Nat /\ gReadFrame' \in Nat /\ gCycleReadFrame' \in Nat
        /\ gLastCycle' \in Nat \cup {NoCycle}
    BY <1>7 DEF StartIO
  <2>3. cycle' \in [id : Nat, n : BufferSizes]
    BY <1>0, <1>7 DEF StartIO
  <2>4. anchor' \in [head : Nat, pos : Nat, depth : Nat, ep : Nat, checked : Nat]
    BY <1>7 DEF StartIO
  <2>5. QED
    BY <1>7, <2>1, <2>2, <2>3, <2>4 DEF StartIO, shmVars, daemonVars
<1>8. ASSUME NEW c \in Clients, StopIO(c)
      PROVE  TypeOK'
  <2>1. gIORunning' \in Nat
    BY <1>8 DEF StopIO
  <2>2. client' \in [Clients -> ClientState]
    BY <1>0, <1>8 DEF StopIO
  <2>3. QED
    BY <1>8, <2>1, <2>2 DEF StopIO, shmVars, daemonVars
<1>9. CASE NextCycle
  <2>1. client' \in [Clients -> ClientState]
    BY <1>0, <1>9 DEF NextCycle
  <2>2. cycle' \in [id : Nat, n : BufferSizes]
    BY <1>9 DEF NextCycle
  <2>3. QED
    BY <1>9, <2>1, <2>2 DEF NextCycle, shmVars, daemonVars, cursorVars
<1>10. ASSUME NEW c \in Clients, DoIOLoad(c)
       PROVE  TypeOK'
  <2> DEFINE k == client[c]
  <2>1. k \in ClientState
    OBVIOUS
  <2>2. client' = [client EXCEPT ![c] =
                     [k EXCEPT !.pc = "load", !.w = writeFrames, !.ep = epoch]]
    BY <1>10 DEF DoIOLoad
  <2> HIDE DEF k
  <2>3. [k EXCEPT !.pc = "load", !.w = writeFrames, !.ep = epoch] \in ClientState
    BY <2>1 DEF ClientState
  <2>4. client' \in [Clients -> ClientState]
    BY <2>2, <2>3
  <2>5. QED
    BY <1>10, <2>4 DEF DoIOLoad, shmVars, daemonVars, cursorVars
<1>11. ASSUME NEW c \in Clients, DoIOCursor(c)
       PROVE  TypeOK'
  <2> DEFINE k == client[c]
  <2>1. k \in ClientState
    OBVIOUS
  <2>2. client' = [client EXCEPT ![c] = [k EXCEPT !.pc = "copy", !.rf = gCycleReadFrame']]
    BY <1>11 DEF DoIOCursor
  <2>3. /\ gCycleReadFrame' \in Nat /\ gReadFrame' \in Nat
        /\ gLastCycle' \in Nat \cup {NoCycle} /\ anchor' \in AnchorType
    <3>1. CASE cycle.id # gLastCycle
      <4>1. cycle.id \in Nat /\ cycle.n \in Nat
        BY <1>0
      <4>2. /\ gLastCycle' = cycle.id /\ gCycleReadFrame' \in Nat
            /\ gReadFrame' = gCycleReadFrame' + cycle.n /\ anchor' \in AnchorType
        BY <1>11, <3>1, CursorMove
      <4>3. QED
        BY <4>1, <4>2
    <3>2. CASE cycle.id = gLastCycle
      BY <1>11, <3>2 DEF DoIOCursor, AnchorType
    <3>3. QED
      BY <3>1, <3>2
  <2> HIDE DEF k
  <2>4. [k EXCEPT !.pc = "copy", !.rf = gCycleReadFrame'] \in ClientState
    BY <2>1, <2>3 DEF ClientState
  <2>5. client' \in [Clients -> ClientState]
    BY <2>2, <2>4
  <2>6. UNCHANGED <<shmVars, daemonVars, gIORunning, cycle>>
    BY <1>11 DEF DoIOCursor
  <2>7. QED
    BY <2>3, <2>5, <2>6 DEF shmVars, daemonVars, AnchorType
<1>12. ASSUME NEW c \in Clients, DoIOCopy(c)
       PROVE  TypeOK'
  <2> DEFINE k == client[c]
             heard == IF k.rf + k.i < k.w THEN ring[Slot(k.rf + k.i)] ELSE Silence
             pc == IF k.i + 1 = cycle.n THEN "done" ELSE "copy"
  <2>1. k \in ClientState
    OBVIOUS
  <2>2. heard \in [ep : Nat, fr : Nat \cup {-1}]
    <3>1. k.rf + k.i \in Nat
      BY <2>1 DEF ClientState
    <3>2. QED
      BY <3>1, SlotType DEF Silence
  <2>3. client' = [client EXCEPT ![c] = [k EXCEPT !.frame = heard, !.i = k.i + 1, !.pc = pc]]
    BY <1>12 DEF DoIOCopy
  <2>4. pc \in {"done", "copy"} /\ k.i + 1 \in Nat
    BY <2>1 DEF ClientState
  <2> HIDE DEF k, heard, pc
  <2>5. [k EXCEPT !.frame = heard, !.i = k.i + 1, !.pc = pc] \in ClientState
    BY <2>1, <2>2, <2>4 DEF ClientState
  <2>6. client' \in [Clients -> ClientState]
    BY <2>3, <2>5
  <2>7. QED
    BY <1>12, <2>6 DEF DoIOCopy, shmVars, daemonVars, cursorVars
<1>13. CASE UNCHANGED vars
  BY <1>13 DEF vars, shmVars, daemonVars, cursorVars, hostVars
<1>14. QED
  BY <1>1, <1>2, <1>3, <1>4, <1>5, <1>6, <1>7, <1>8, <1>9, <1>10, <1>11, <1>12, <1>13
     DEF Next, Daemon, Plugin, Host

(* The daemon's part: only a store disturbs the ring, and it replaces a    *)
(* frame exactly RingFrames older than the one it stores.                  *)
LEMMA DaemonStep ==
  TypeOK /\ DaemonInv /\ [Next]_vars => DaemonInv'
<1> SUFFICES ASSUME TypeOK, DaemonInv, [Next]_vars
             PROVE  DaemonInv'
  OBVIOUS
<1> USE DEF DaemonInv
<1>0. /\ writeFrames \in Nat /\ producer.w \in Nat /\ producer.left \in Nat
      /\ producer \in [pc : {"down", "create", "idle", "push"}, w : Nat, left : Nat]
      /\ RingFrames \in Nat \ {0} /\ PacketSizes \subseteq Nat
  BY RingAssumption DEF TypeOK
<1>1. ASSUME NEW l \in Latencies, CreateHeader(l)
      PROVE  DaemonInv'
  BY <1>0, <1>1 DEF CreateHeader
<1>2. CASE CreateReset
  BY <1>0, <1>2 DEF CreateReset
<1>3. ASSUME NEW k \in PacketSizes, PushBegin(k)
      PROVE  DaemonInv'
  BY <1>0, <1>3 DEF PushBegin, shmVars
<1>4. CASE PushFrame
  <2>1. /\ producer' = [producer EXCEPT !.w = @ + 1, !.left = @ - 1]
        /\ ring' = [ring EXCEPT ![Slot(producer.w)] = Frame(epoch, producer.w)]
        /\ producer.pc = "push"
        /\ writeFrames' = writeFrames /\ epoch' = epoch
    BY <1>4 DEF PushFrame
  <2>2. producer'.w = producer.w + 1 /\ producer'.pc = "push"
    BY <1>0, <2>1
  <2>3. DOMAIN ring = 0 .. RingFrames - 1
    BY DEF TypeOK
  <2>4. ring'[Slot(producer.w)] = Frame(epoch, producer.w)
    BY <1>0, <2>1, <2>3, SlotType
  <2>5. ASSUME NEW j \in Nat, j < producer'.w, producer'.w <= j + RingFrames
        PROVE  ring'[Slot(j)] = Frame(epoch', j)
    <3>1. CASE j = producer.w
      BY <2>1, <2>4, <3>1
    <3>2. CASE j < producer.w
      <4>1. Slot(j) # Slot(producer.w)
        BY <1>0, <2>2, <2>5, <3>2, SlotsDiffer
      <4>2. ring[Slot(j)] = Frame(epoch, j)
        BY <1>0, <2>2, <2>5, <3>2
      <4>3. QED
        BY <2>1, <2>3, <4>1, <4>2, SlotType
    <3>3. QED
      BY <1>0, <2>2, <2>5, <3>1, <3>2
  <2>6. ASSUME NEW j \in Nat, j < producer'.w
        PROVE  ring'[Slot(j)] # Silence
    <3>1. Frame(epoch, producer.w) # Silence
      BY <1>0 DEF Frame, Silence
    <3>2. CASE Slot(j) = Slot(producer.w)
      BY <2>4, <3>1, <3>2
    <3>3. CASE Slot(j) # Slot(producer.w)
      <4>1. j < producer.w
        BY <1>0, <2>2, <2>6, <3>3
      <4>2. QED
        BY <2>1, <2>3, <3>3, <4>1, SlotType
    <3>4. QED
      BY <3>2, <3>3
  <2>7. writeFrames' <= producer'.w
    BY <1>0, <2>1, <2>2
  <2>8. QED
    BY <2>2, <2>5, <2>6, <2>7
<1>5. CASE PushPublish
  BY <1>0, <1>5 DEF PushPublish
<1>6. CASE DaemonStops
  BY <1>0, <1>6 DEF DaemonStops, shmVars
<1>7. CASE UNCHANGED <<shmVars, daemonVars>>
  BY <1>7 DEF shmVars, daemonVars
<1>8. ASSUME NEW c \in Clients,
             \/ StartIO(c) \/ StopIO(c)
             \/ DoIOLoad(c) \/ DoIOCursor(c) \/ DoIOCopy(c)
      PROVE  UNCHANGED <<shmVars, daemonVars>>
  BY <1>8 DEF StartIO, StopIO, DoIOLoad, DoIOCursor, DoIOCopy
<1>9. CASE NextCycle
  BY <1>7, <1>9 DEF NextCycle
<1>10. QED
  BY <1>1, <1>2, <1>3, <1>4, <1>5, <1>6, <1>7, <1>8, <1>9
     DEF Next, Daemon, Plugin, Host, vars

(* A head once loaded stays within what is published, in the incarnation   *)
(* it was loaded from.                                                     *)
LEMMA LoadStep ==
  TypeOK /\ DaemonInv /\ LoadInv /\ [Next]_vars => LoadInv'
<1> SUFFICES ASSUME TypeOK, DaemonInv, LoadInv, [Next]_vars
             PROVE  LoadInv'
  OBVIOUS
<1>0. /\ epoch \in Nat /\ writeFrames \in Nat /\ producer.w \in Nat
      /\ \A c \in Clients : client[c].w \in Nat /\ client[c].ep \in Nat
      /\ DOMAIN client = Clients /\ \A c \in Clients : client[c] \in ClientState
      /\ ring \in [0 .. RingFrames - 1 -> [ep : Nat, fr : Nat \cup {-1}]]
  BY DEF TypeOK, ClientState
<1>1. CASE UNCHANGED <<ring, writeFrames, epoch, client>>
  BY <1>1 DEF LoadInv
<1>2. CASE CreateReset
  BY <1>0, <1>2 DEF CreateReset, LoadInv, hostVars
<1>3. CASE PushFrame
  <2>1. ring' = [ring EXCEPT ![Slot(producer.w)] = Frame(epoch, producer.w)]
    BY <1>3 DEF PushFrame
  <2>2. Frame(epoch, producer.w) # Silence
    BY <1>0 DEF Frame, Silence
  <2>3. ASSUME NEW j \in Nat, ring[Slot(j)] # Silence
        PROVE  ring'[Slot(j)] # Silence
    BY <1>0, <2>1, <2>2, <2>3, SlotType
  <2>4. UNCHANGED <<writeFrames, epoch, client>>
    BY <1>3 DEF PushFrame, hostVars
  <2>5. QED
    BY <2>3, <2>4 DEF LoadInv
<1>4. CASE PushPublish
  <2>1. writeFrames <= writeFrames' /\ writeFrames' \in Nat
    BY <1>0, <1>4 DEF PushPublish, DaemonInv
  <2>2. UNCHANGED <<ring, epoch, client>>
    BY <1>4 DEF PushPublish, hostVars
  <2>3. QED
    BY <1>0, <2>1, <2>2 DEF LoadInv
<1>5. ASSUME NEW c \in Clients, DoIOLoad(c)
      PROVE  LoadInv'
  <2>1. /\ client'[c].w = writeFrames /\ client'[c].ep = epoch
        /\ \A d \in Clients \ {c} : client'[d] = client[d]
        /\ UNCHANGED <<ring, writeFrames, epoch>>
    BY <1>0, <1>5 DEF DoIOLoad, shmVars, daemonVars, ClientState
  <2>2. \A j \in Nat : j < writeFrames => ring[Slot(j)] # Silence
    BY <1>0 DEF DaemonInv
  <2>3. QED
    BY <1>0, <2>1, <2>2 DEF LoadInv
<1>6. ASSUME NEW c \in Clients, DoIOCursor(c) \/ DoIOCopy(c)
      PROVE  LoadInv'
  <2>1. /\ client[c].pc \in {"load", "copy"}
        /\ client'[c].w = client[c].w /\ client'[c].ep = client[c].ep
        /\ \A d \in Clients \ {c} : client'[d] = client[d]
        /\ UNCHANGED <<ring, writeFrames, epoch>>
    BY <1>0, <1>6 DEF DoIOCursor, DoIOCopy, shmVars, daemonVars, ClientState
  <2>2. QED
    BY <2>1 DEF LoadInv
<1>7. ASSUME NEW c \in Clients, StartIO(c) \/ StopIO(c)
      PROVE  LoadInv'
  <2>1. /\ client'[c].pc \in {"off", "ready"}
        /\ \A d \in Clients \ {c} : client'[d] = client[d]
        /\ UNCHANGED <<ring, writeFrames, epoch>>
    BY <1>0, <1>7 DEF StartIO, StopIO, shmVars, daemonVars, IdleClient
  <2>2. QED
    BY <2>1 DEF LoadInv
<1>8. CASE NextCycle
  <2>1. \A c \in Clients : client'[c].pc \in {"off", "ready"}
    BY <1>8 DEF NextCycle, IdleClient, Started
  <2>2. QED
    BY <2>1 DEF LoadInv
<1>9. ASSUME NEW l \in Latencies, CreateHeader(l)
      PROVE  LoadInv'
  BY <1>1, <1>9 DEF CreateHeader, hostVars
<1>10. ASSUME NEW k \in PacketSizes, PushBegin(k)
       PROVE  LoadInv'
  BY <1>1, <1>10 DEF PushBegin, shmVars, hostVars
<1>11. CASE DaemonStops
  BY <1>1, <1>11 DEF DaemonStops, shmVars, hostVars
<1>12. CASE UNCHANGED vars
  BY <1>1, <1>12 DEF vars, shmVars, daemonVars, hostVars
<1>13. QED
  BY <1>2, <1>3, <1>4, <1>5, <1>6, <1>7, <1>8, <1>9, <1>10, <1>11, <1>12
     DEF Next, Daemon, Plugin, Host

(* The plugin's count of clients is the number of started clients.         *)
LEMMA SessionStep ==
  TypeOK /\ SessionInv /\ [Next]_vars => SessionInv'
<1> SUFFICES ASSUME TypeOK, SessionInv, [Next]_vars
             PROVE  SessionInv'
  OBVIOUS
<1>0. /\ DOMAIN client = Clients /\ \A c \in Clients : client[c] \in ClientState
      /\ IsFiniteSet(Clients)
  BY RingAssumption DEF TypeOK
<1>1. IsFiniteSet(Started)
  BY <1>0, FS_Subset DEF Started
<1>2. CASE UNCHANGED gIORunning /\ Started' = Started
  BY <1>2 DEF SessionInv
<1>3. ASSUME NEW c \in Clients, StartIO(c)
      PROVE  SessionInv'
  <2>1. c \notin Started /\ Started' = Started \cup {c}
    BY <1>0, <1>3 DEF StartIO, Started, IdleClient
  <2>2. Cardinality(Started') = Cardinality(Started) + 1
    BY <1>1, <2>1, FS_AddElement
  <2>3. gIORunning' = gIORunning + 1
    BY <1>3 DEF StartIO
  <2>4. QED
    BY <2>2, <2>3 DEF SessionInv
<1>4. ASSUME NEW c \in Clients, StopIO(c)
      PROVE  SessionInv'
  <2>1. c \in Started /\ Started' = Started \ {c}
    BY <1>0, <1>4 DEF StopIO, Started, IdleClient
  <2>2. Cardinality(Started') = Cardinality(Started) - 1
    BY <1>1, <2>1, FS_RemoveElement
  <2>3. gIORunning' = gIORunning - 1
    BY <1>4 DEF StopIO
  <2>4. QED
    BY <2>2, <2>3 DEF SessionInv
<1>5. CASE NextCycle
  <2>1. Started' = Started
    BY <1>0, <1>5 DEF NextCycle, Started, IdleClient
  <2>2. QED
    BY <1>2, <1>5, <2>1 DEF NextCycle, cursorVars
<1>6. ASSUME NEW c \in Clients, DoIOLoad(c) \/ DoIOCursor(c) \/ DoIOCopy(c)
      PROVE  SessionInv'
  <2>1. /\ client[c].pc # "off" /\ client'[c].pc # "off"
        /\ \A d \in Clients \ {c} : client'[d] = client[d]
    BY <1>0, <1>6 DEF DoIOLoad, DoIOCursor, DoIOCopy, ClientState
  <2>2. Started' = Started
    BY <2>1 DEF Started
  <2>3. UNCHANGED gIORunning
    BY <1>6 DEF DoIOLoad, DoIOCursor, DoIOCopy, cursorVars
  <2>4. QED
    BY <1>2, <2>2, <2>3
<1>7. CASE UNCHANGED <<gIORunning, client>>
  BY <1>2, <1>7 DEF Started
<1>8. CASE Daemon \/ UNCHANGED vars
  BY <1>7, <1>8 DEF Daemon, CreateHeader, CreateReset, PushBegin, PushFrame, PushPublish,
     DaemonStops, cursorVars, hostVars, vars
<1>9. QED
  BY <1>3, <1>4, <1>5, <1>6, <1>8 DEF Next, Plugin, Host

(* Only the first client of a session and the first client of a cycle      *)
(* touch the cursor.                                                       *)
LEMMA CursorStep ==
  TypeOK /\ CursorInv /\ [Next]_vars => CursorInv'
<1> SUFFICES ASSUME TypeOK, CursorInv, [Next]_vars
             PROVE  CursorInv'
  OBVIOUS
<1>0. /\ gLastCycle \in Nat \cup {NoCycle} /\ NoCycle = -1 /\ gCycleReadFrame \in Nat
      /\ cycle \in [id : Nat, n : BufferSizes] /\ cycle.id \in Nat /\ cycle.n \in Nat
      /\ writeFrames \in Nat /\ RingFrames \in Nat /\ MaxCycle \in Nat
      /\ \A c \in Clients : client[c].w \in Nat
      /\ anchor \in AnchorType
  BY RingAssumption DEF TypeOK, NoCycle, ClientState, AnchorType
<1>1. CASE UNCHANGED <<gLastCycle, gReadFrame, gCycleReadFrame, cycle, anchor>>
  BY <1>1 DEF CursorInv
<1>2. ASSUME NEW c \in Clients, StartIO(c)
      PROVE  CursorInv'
  <2>1. CASE gIORunning = 0
    <3>1. /\ gLastCycle' = -1 /\ cycle'.id \in Nat
          /\ anchor'.head = writeFrames /\ anchor'.pos = writeFrames /\ anchor'.depth = 0
      BY <1>0, <1>2, <2>1 DEF StartIO
    <3>2. QED
      BY <1>0, <3>1 DEF CursorInv
  <2>2. CASE gIORunning # 0
    BY <1>1, <1>2, <2>2 DEF StartIO
  <2>3. QED
    BY <2>1, <2>2
<1>3. CASE NextCycle
  <2>1. cycle'.id = cycle.id + 1 /\ UNCHANGED <<gLastCycle, gReadFrame, gCycleReadFrame, anchor>>
    BY <1>3 DEF NextCycle, cursorVars
  <2>2. QED
    BY <1>0, <2>1 DEF CursorInv
<1>4. ASSUME NEW c \in Clients, DoIOCursor(c)
      PROVE  CursorInv'
  <2>1. CASE cycle.id = gLastCycle
    BY <1>1, <1>4, <2>1 DEF DoIOCursor
  <2>2. CASE cycle.id # gLastCycle
    <3>1. cycle' = cycle
      BY <1>4 DEF DoIOCursor
    <3>2. /\ gLastCycle' = cycle.id
          /\ gCycleReadFrame' \in Nat /\ gReadFrame' = gCycleReadFrame' + cycle.n
          /\ client[c].w + cycle.n <= gCycleReadFrame' + RingFrames
          /\ gCycleReadFrame' = 0 \/ gCycleReadFrame' + cycle.n <= client[c].w
          /\ anchor'.checked = client[c].w
          /\ \/ anchor'.head = anchor.head /\ anchor'.pos = anchor.pos /\ anchor'.depth = anchor.depth
             \/ anchor'.head > anchor'.depth => anchor'.pos = anchor'.head - anchor'.depth
      BY <1>4, <2>2, CursorMove
    <3>3. anchor'.head > anchor'.depth => anchor'.pos = anchor'.head - anchor'.depth
      BY <3>2 DEF CursorInv
    <3>4. QED
      BY <1>0, <3>1, <3>2, <3>3 DEF CursorInv
  <2>3. QED
    BY <2>1, <2>2
<1>5. ASSUME NEW c \in Clients, StopIO(c) \/ DoIOLoad(c) \/ DoIOCopy(c)
      PROVE  CursorInv'
  BY <1>1, <1>5 DEF StopIO, DoIOLoad, DoIOCopy, cursorVars
<1>6. CASE Daemon \/ UNCHANGED vars
  BY <1>1, <1>6 DEF Daemon, CreateHeader, CreateReset, PushBegin, PushFrame, PushPublish,
     DaemonStops, cursorVars, hostVars, vars
<1>7. QED
  BY <1>2, <1>3, <1>4, <1>5, <1>6 DEF Next, Plugin, Host

(* The heart of the argument: one frame copied.  It lies in the window, so *)
(* below the head the client loaded; and if the daemon has stored no more  *)
(* than a buffer since the window was checked, it is still in its slot.    *)
LEMMA CopyOne ==
  ASSUME TypeOK, DaemonInv, LoadInv, CursorInv, CopyInv, NEW c \in Clients, DoIOCopy(c)
  PROVE  /\ client'[c].i = client[c].i + 1 /\ client'[c].i <= cycle.n
         /\ client'[c].pc \in {"copy", "done"}
         /\ client'[c].pc = "copy" => client'[c].i < cycle.n
         /\ client'[c].w = client[c].w /\ client'[c].ep = client[c].ep
         /\ client'[c].rf = client[c].rf
         /\ client'[c].frame = Silence => client[c].rf + client[c].i >= client[c].w
         /\ client[c].ep = epoch /\ OnTime =>
              client'[c].frame = IF client[c].rf + client[c].i < client[c].w
                                 THEN Frame(epoch, client[c].rf + client[c].i)
                                 ELSE Silence
<1> DEFINE k == client[c]
           src == k.rf + k.i
           heard == IF src < k.w THEN ring[Slot(src)] ELSE Silence
           pc == IF k.i + 1 = cycle.n THEN "done" ELSE "copy"
<1>0. k \in ClientState /\ DOMAIN client = Clients
  BY DEF TypeOK
<1>1. client' = [client EXCEPT ![c] = [k EXCEPT !.frame = heard, !.i = k.i + 1, !.pc = pc]]
  BY DEF DoIOCopy
<1>2. /\ k.w \in Nat /\ k.rf \in Nat /\ k.i \in Nat /\ cycle.n \in Nat /\ src \in Nat
      /\ RingFrames \in Nat /\ anchor.checked \in Nat /\ producer.w \in Nat
      /\ writeFrames \in Nat
  <2>1. k.w \in Nat /\ k.rf \in Nat /\ k.i \in Nat /\ src \in Nat
    BY <1>0 DEF ClientState
  <2>2. /\ RingFrames \in Nat /\ anchor.checked \in Nat /\ producer.w \in Nat
        /\ writeFrames \in Nat /\ cycle.n \in Nat
    BY RingAssumption DEF TypeOK
  <2>3. QED
    BY <2>1, <2>2
<1>3. k.pc = "copy" /\ k.i < cycle.n /\ k.rf = gCycleReadFrame /\ gLastCycle = cycle.id
  BY DEF DoIOCopy, CopyInv, SameWindow
<1> HIDE DEF k, heard, pc
<1>4. client'[c] = [k EXCEPT !.frame = heard, !.i = k.i + 1, !.pc = pc]
  BY <1>0, <1>1
<1>5. /\ client'[c].frame = heard /\ client'[c].i = k.i + 1 /\ client'[c].pc = pc
      /\ client'[c].w = k.w /\ client'[c].ep = k.ep /\ client'[c].rf = k.rf
  BY <1>0, <1>4 DEF ClientState
<1>6. heard = Silence => src >= k.w
  <2>1. src < k.w => ring[Slot(src)] # Silence
    BY <1>2, <1>3 DEF LoadInv, k
  <2>2. QED
    BY <1>2, <2>1 DEF heard
<1>7. ASSUME k.ep = epoch, OnTime, src < k.w
      PROVE  heard = Frame(epoch, src)
  <2>1. src < producer.w
    BY <1>2, <1>3, <1>7 DEF LoadInv, DaemonInv, k
  <2>2. producer.w <= src + RingFrames
    BY <1>2, <1>3, <1>7 DEF CursorInv, OnTime
  <2>3. ring[Slot(src)] = Frame(epoch, src)
    BY <1>2, <2>1, <2>2 DEF DaemonInv
  <2>4. QED
    BY <1>7, <2>3 DEF heard
<1>8. k.ep = epoch /\ OnTime => heard = IF src < k.w THEN Frame(epoch, src) ELSE Silence
  BY <1>7 DEF heard
<1>9. pc \in {"copy", "done"} /\ (pc = "copy" => k.i + 1 < cycle.n) /\ k.i + 1 <= cycle.n
  BY <1>2, <1>3 DEF pc
<1>10. QED
  BY <1>5, <1>6, <1>8, <1>9 DEF k

LEMMA CopyStep ==
  TypeOK /\ DaemonInv /\ LoadInv /\ SessionInv /\ CursorInv /\ CopyInv /\ [Next]_vars => CopyInv'
<1> SUFFICES ASSUME TypeOK, DaemonInv, LoadInv, SessionInv, CursorInv, CopyInv, [Next]_vars
             PROVE  CopyInv'
  OBVIOUS
<1>0. /\ DOMAIN client = Clients /\ \A c \in Clients : client[c] \in ClientState
      /\ cycle.n \in Nat \ {0} /\ epoch \in Nat /\ gCycleReadFrame \in Nat
      /\ producer.w \in Nat /\ anchor.checked \in Nat
      /\ \A c \in Clients : client[c].w \in Nat /\ client[c].ep \in Nat
           /\ client[c].rf \in Nat /\ client[c].i \in Nat
  BY RingAssumption DEF TypeOK, ClientState
<1> DEFINE Reading(c) == client[c].pc \in {"copy", "done"}
           Good(c) == /\ client[c].i <= cycle.n
                      /\ client[c].pc = "copy" => client[c].i < cycle.n
                      /\ client[c].i > 0 /\ client[c].frame = Silence
                           => LastSource(c) >= client[c].w
                      /\ gLastCycle = cycle.id
                      /\ client[c].rf = gCycleReadFrame
                      /\ gReadFrame = gCycleReadFrame + cycle.n
                      /\ client[c].i > 0 /\ client[c].ep = epoch /\ OnTime =>
                           client[c].frame = IF LastSource(c) < client[c].w
                                             THEN Frame(epoch, LastSource(c))
                                             ELSE Silence
           Waiting(c) == client[c].pc \in {"ready", "load"} => client[c].i = 0
<1>1. CopyInv <=> \A c \in Clients : Waiting(c) /\ (Reading(c) => Good(c))
  BY DEF CopyInv, SameWindow, IntactFrame, Copied
<1>2. CopyInv' <=> \A c \in Clients : Waiting(c)' /\ (Reading(c)' => Good(c)')
  BY DEF CopyInv, SameWindow, IntactFrame, Copied
(* The daemon's steps: time only runs out, and an incarnation only ends.   *)
<1>3. ASSUME UNCHANGED <<cursorVars, hostVars, anchor>>,
             epoch' = epoch => producer'.w >= producer.w,
             producer'.w \in Nat,
             epoch' = epoch \/ \A c \in Clients : Reading(c) => client[c].ep # epoch'
      PROVE  CopyInv'
  <2>1. ASSUME NEW c \in Clients
        PROVE  Waiting(c)' /\ (Reading(c)' => Good(c)')
    <3>1. UNCHANGED <<client, cycle, anchor, gLastCycle, gCycleReadFrame, gReadFrame>>
      BY <1>3 DEF cursorVars, hostVars
    <3>2. Waiting(c) /\ (Reading(c) => Good(c))
      BY <1>1
    <3>3. epoch' = epoch => (OnTime' => OnTime)
      BY <1>0, <1>3, <3>1 DEF OnTime
    <3>4. QED
      BY <1>3, <3>1, <3>2, <3>3 DEF LastSource
  <2>2. QED
    BY <1>2, <2>1
<1>4. CASE CreateReset
  <2>1. /\ UNCHANGED <<cursorVars, hostVars, anchor>>
        /\ epoch' = epoch + 1 /\ producer'.w = 0
    BY <1>4 DEF CreateReset
  <2>2. \A c \in Clients : Reading(c) => client[c].ep # epoch'
    BY <1>0, <2>1 DEF LoadInv
  <2>3. QED
    BY <1>0, <1>3, <2>1, <2>2
<1>5. CASE PushFrame
  <2>1. producer'.w = producer.w + 1
    BY <1>5 DEF PushFrame, TypeOK
  <2>2. QED
    BY <1>0, <1>3, <1>5, <2>1 DEF PushFrame
<1>6. ASSUME NEW k \in PacketSizes, PushBegin(k)
      PROVE  CopyInv'
  <2>1. producer'.w = producer.w
    BY <1>6 DEF PushBegin, DaemonInv
  <2>2. QED
    BY <1>0, <1>3, <1>6, <2>1 DEF PushBegin
<1>7. CASE (\E l \in Latencies : CreateHeader(l)) \/ PushPublish \/ DaemonStops
  <2>1. producer'.w = producer.w
    BY <1>7 DEF CreateHeader, PushPublish, DaemonStops, TypeOK
  <2>2. QED
    BY <1>0, <1>3, <1>7, <2>1 DEF CreateHeader, PushPublish, DaemonStops
<1>8. CASE UNCHANGED vars
  BY <1>0, <1>3, <1>8 DEF vars, daemonVars
(* The plugin's steps.                                                     *)
<1>9. ASSUME NEW c \in Clients, StartIO(c)
      PROVE  CopyInv'
  <2>1. /\ client'[c].pc = "ready" /\ client'[c].i = 0
        /\ \A d \in Clients \ {c} : client'[d] = client[d]
        /\ UNCHANGED <<epoch, producer>>
    BY <1>0, <1>9 DEF StartIO, IdleClient, daemonVars
  <2>2. CASE gIORunning = 0
    <3>1. Started = {}
      <4>1. IsFiniteSet(Started)
        BY RingAssumption, FS_Subset DEF Started
      <4>2. QED
        BY <2>2, <4>1, FS_EmptySet DEF SessionInv
    <3>2. \A d \in Clients \ {c} : client[d].pc = "off"
      BY <3>1 DEF Started
    <3>3. QED
      BY <1>2, <2>1, <3>2
  <2>3. CASE gIORunning # 0
    <3>1. UNCHANGED <<gReadFrame, gCycleReadFrame, gLastCycle, cycle, anchor>>
      BY <1>9, <2>3 DEF StartIO
    <3>2. QED
      BY <1>1, <1>2, <2>1, <3>1 DEF LastSource, OnTime
  <2>4. QED
    BY <2>2, <2>3
<1>10. ASSUME NEW c \in Clients, StopIO(c) \/ DoIOLoad(c)
       PROVE  CopyInv'
  <2>1. /\ client'[c].pc \in {"off", "load"} /\ client'[c].i = 0
        /\ \A d \in Clients \ {c} : client'[d] = client[d]
    BY <1>0, <1>1, <1>10 DEF StopIO, DoIOLoad, IdleClient, ClientState
  <2>2. UNCHANGED <<epoch, producer, gReadFrame, gCycleReadFrame, gLastCycle, cycle, anchor>>
    BY <1>10 DEF StopIO, DoIOLoad, daemonVars, cursorVars
  <2>3. QED
    BY <1>1, <1>2, <2>1, <2>2 DEF LastSource, OnTime
<1>11. CASE NextCycle
  <2>1. \A c \in Clients : client'[c].pc \in {"off", "ready"} /\
          (client'[c].pc = "ready" => client'[c].i = 0)
    BY <1>11 DEF NextCycle, IdleClient, Started
  <2>2. QED
    BY <1>2, <2>1
<1>12. ASSUME NEW c \in Clients, DoIOCursor(c)
       PROVE  CopyInv'
  <2>1. /\ client'[c].pc = "copy" /\ client'[c].i = 0 /\ client'[c].rf = gCycleReadFrame'
        /\ \A d \in Clients \ {c} : client'[d] = client[d]
        /\ UNCHANGED <<epoch, producer, cycle>>
    BY <1>0, <1>1, <1>12 DEF DoIOCursor, daemonVars, ClientState
  <2>2. CASE cycle.id = gLastCycle
    <3>1. UNCHANGED <<gLastCycle, gCycleReadFrame, gReadFrame, anchor>>
      BY <1>12, <2>2 DEF DoIOCursor
    <3>2. gReadFrame = gCycleReadFrame + cycle.n
      BY <2>2 DEF CursorInv
    <3>3. QED
      BY <1>0, <1>1, <1>2, <2>1, <2>2, <3>1, <3>2 DEF LastSource, OnTime
  <2>3. CASE cycle.id # gLastCycle
    <3>1. \A d \in Clients : ~Reading(d)
      BY <1>1, <2>3
    <3>2. gLastCycle' = cycle.id /\ gReadFrame' = gCycleReadFrame' + cycle.n
      BY <1>12, <2>3, CursorMove
    <3>3. QED
      BY <1>0, <1>1, <1>2, <2>1, <3>1, <3>2
  <2>4. QED
    BY <2>2, <2>3
<1>13. ASSUME NEW c \in Clients, DoIOCopy(c)
       PROVE  CopyInv'
  <2>1. /\ \A d \in Clients \ {c} : client'[d] = client[d]
        /\ client[c].pc = "copy"
        /\ UNCHANGED <<epoch, producer, gReadFrame, gCycleReadFrame, gLastCycle, cycle, anchor>>
    BY <1>0, <1>13 DEF DoIOCopy, daemonVars, cursorVars
  <2>2. Good(c) /\ LastSource(c)' = client[c].rf + client[c].i
    BY <1>0, <1>1, <1>13, <2>1, CopyOne DEF LastSource
  <2>3. Good(c)' /\ Waiting(c)'
    BY <1>0, <1>13, <2>1, <2>2, CopyOne DEF OnTime
  <2>4. QED
    BY <1>1, <1>2, <2>1, <2>3 DEF LastSource, OnTime
<1>14. QED
  BY <1>4, <1>5, <1>6, <1>7, <1>8, <1>9, <1>10, <1>11, <1>12, <1>13
     DEF Next, Daemon, Plugin, Host

-----------------------------------------------------------------------------
LEMMA RingInvStart ==
  Init => RingInv
<1> SUFFICES ASSUME Init
             PROVE  RingInv
  OBVIOUS
<1>1. TypeOK
  <2>1. IdleClient \in ClientState
    BY DEF IdleClient, ClientState, Silence
  <2>2. client \in [Clients -> ClientState]
    BY <2>1 DEF Init
  <2>3. ring \in [0 .. RingFrames - 1 -> [ep : Nat, fr : Nat \cup {-1}]]
    BY DEF Init, Silence
  <2>4. QED
    BY <2>2, <2>3 DEF Init, TypeOK
<1>2. \A c \in Clients : client[c].pc = "off"
  BY DEF Init, IdleClient
<1>3. DaemonInv
  BY DEF Init, DaemonInv
<1>4. LoadInv
  BY <1>2 DEF LoadInv
<1>5. SessionInv
  <2>1. Started = {}
    BY <1>2 DEF Started
  <2>2. QED
    BY <2>1, FS_EmptySet DEF Init, SessionInv
<1>6. CursorInv
  BY DEF Init, CursorInv, NoCycle
<1>7. CopyInv
  BY <1>2 DEF CopyInv, SameWindow, IntactFrame, Copied
<1>8. QED
  BY <1>1, <1>3, <1>4, <1>5, <1>6, <1>7 DEF RingInv

(* The inductive invariant holds of the daemon, the plugin and the host    *)
(* together: whatever their interleaving, restarts of the daemon included. *)
THEOREM RingInvariant == Spec => []RingInv
<1>1. RingInv /\ [Next]_vars => RingInv'
  BY TypeStep, DaemonStep, LoadStep, SessionStep, CursorStep, CopyStep DEF RingInv
<1>2. QED
  BY RingInvStart, <1>1, PTL DEF Spec

(* Every variable keeps its type; no cursor of DoIOOperation goes below    *)
(* zero, where the code's UInt64 would wrap.                               *)
THEOREM TypeCorrect == Spec => []TypeOK
<1>1. RingInv => TypeOK
  BY DEF RingInv
<1>2. QED
  BY RingInvariant, <1>1, PTL

(* A frame DoIOOperation copies without a lock is intact for as long as    *)
(* the daemon has stored at most one buffer since the window was checked,  *)
(* for every ring size, depth and buffer size.                             *)
THEOREM FramesIntact == Spec => []IntactFrame
<1>1. RingInv => IntactFrame
  BY DEF RingInv, CopyInv
<1>2. QED
  BY RingInvariant, <1>1, PTL

(* All clients of one IO cycle read the window the first of them chose.    *)
THEOREM OneWindowPerCycle == Spec => []SameWindow
<1>1. RingInv => SameWindow
  BY DEF RingInv, CopyInv
<1>2. QED
  BY RingInvariant, <1>1, PTL

(* DoIOOperation's resync leaves no gap: silence is heard only before the  *)
(* first buffer is captured or by a client with an older head.             *)
THEOREM NoGaps == Spec => []SilenceOnlyAtStart
<1>1. RingInv => SilenceOnlyAtStart
  <2> SUFFICES ASSUME RingInv, NEW c \in Clients, Copied(c), client[c].frame = Silence
               PROVE  client[c].w < cycle.n \/ client[c].w < anchor.checked
    BY DEF SilenceOnlyAtStart
  <2> DEFINE k == client[c]
  <2>1. /\ k.w \in Nat /\ k.rf \in Nat /\ k.i \in Nat /\ cycle.n \in Nat
        /\ anchor.checked \in Nat
    BY RingAssumption DEF RingInv, TypeOK, ClientState
  <2>2. k.pc \in {"copy", "done"} /\ k.i > 0
    BY DEF Copied
  <2>3. k.i <= cycle.n /\ k.rf + k.i - 1 >= k.w
    BY <2>2 DEF RingInv, CopyInv, LastSource
  <2>4. k.rf = 0 \/ k.rf + cycle.n <= anchor.checked
    BY <2>2 DEF RingInv, CopyInv, SameWindow, CursorInv
  <2> HIDE DEF k
  <2>5. k.w < cycle.n \/ k.w < anchor.checked
    BY <2>1, <2>3, <2>4
  <2>6. QED
    BY <2>5 DEF k
<1>2. QED
  BY RingInvariant, <1>1, PTL

(* DoIOOperation's stream is continuous while the host's consumption and   *)
(* the daemon's capture drift apart by no more than the buffer depth.      *)
THEOREM DepthAbsorbsJitter == Spec => JitterAbsorbed
<1> DEFINE Absorbed(c) ==
      LET captured == client[c].w - anchor.head
          consumed == gReadFrame - anchor.pos
      IN  Jumps(c) /\ anchor.ep = client[c].ep /\ anchor.head > anchor.depth =>
            \/ consumed > captured + anchor.depth - cycle.n
            \/ captured > consumed + RingFrames - cycle.n - anchor.depth
<1>1. RingInv /\ [Next]_vars => [\A c \in Clients : Absorbed(c)]_vars
  <2> SUFFICES ASSUME RingInv, Next, NEW c \in Clients, Jumps(c), anchor.head > anchor.depth
               PROVE  LET captured == client[c].w - anchor.head
                          consumed == gReadFrame - anchor.pos
                      IN  \/ consumed > captured + anchor.depth - cycle.n
                          \/ captured > consumed + RingFrames - cycle.n - anchor.depth
    OBVIOUS
  <2>1. /\ client[c].w \in Nat /\ cycle.n \in Nat /\ gReadFrame \in Nat /\ RingFrames \in Nat
        /\ anchor.head \in Nat /\ anchor.depth \in Nat /\ anchor.pos = anchor.head - anchor.depth
    BY RingAssumption DEF RingInv, TypeOK, ClientState, CursorInv
  <2>2. DoIOCursor(c)
    <3>1. /\ client[c].pc = "load" /\ client'[c].pc = "copy"
          /\ DOMAIN client = Clients
          /\ \A d \in Clients : client[d] \in ClientState
      BY DEF Jumps, RingInv, TypeOK
    <3>2. ~(Daemon \/ NextCycle)
      BY <3>1 DEF Daemon, CreateHeader, CreateReset, PushBegin, PushFrame, PushPublish,
         DaemonStops, NextCycle, InFlight, hostVars
    <3>3. ASSUME NEW d \in Clients, StartIO(d) \/ StopIO(d) \/ DoIOLoad(d) \/ DoIOCopy(d)
          PROVE  FALSE
      <4>1. CASE d = c
        BY <3>1, <3>3, <4>1 DEF StartIO, StopIO, DoIOLoad, DoIOCopy, IdleClient
      <4>2. CASE d # c
        BY <3>1, <3>3, <4>2 DEF StartIO, StopIO, DoIOLoad, DoIOCopy
      <4>3. QED
        BY <4>1, <4>2
    <3>4. ASSUME NEW d \in Clients, DoIOCursor(d)
          PROVE  d = c
      BY <3>1, <3>4 DEF DoIOCursor
    <3>5. QED
      BY <3>2, <3>3, <3>4 DEF Next, Plugin, Host
  <2>3. MustResync(cycle.n, client[c].w)
    BY <2>2, CursorMove DEF Jumps, RingInv
  <2>4. QED
    BY <2>1, <2>3 DEF MustResync
<1>2. QED
  BY RingInvariant, <1>1, PTL DEF Spec, JitterAbsorbed
=============================================================================
