----------------------------- MODULE Line6Stream -----------------------------
(***************************************************************************)
(* What the daemon, the segment and the plugin promise an IO client, with  *)
(* no ring, no depth and no lock: one unbounded stream of captured frames, *)
(* begun anew by every new daemon, which all the clients of an IO cycle    *)
(* hear through one window.  The window follows the last one without a     *)
(* gap whenever the stream still offers that, and otherwise is any one     *)
(* that it does offer.  Line6Ring implements this.                         *)
(***************************************************************************)
EXTENDS Integers

CONSTANTS
  Reach,           \* how many frames back the stream can be heard
  BufferSizes,     \* the frames one IO cycle may move
  Clients          \* the IO clients of the device

VARIABLES
  epoch,           \* the streams so far
  captured,        \* frames of the current one
  published,       \* frames of it that a client may know of
  cycle,           \* the current IO cycle: id and n, the frames it moves
  served,          \* the last cycle that has a window
  window,          \* where that begins
  next,            \* where it ends
  checked,         \* the head it was chosen for
  client           \* each client: pc; the head it saw and of which stream; how
                   \* much it has heard, and the last frame of that

stream == <<epoch, captured, published>>
reader == <<served, window, next, checked>>
vars == <<stream, cycle, reader, client>>

Silence == [ep |-> 0, fr |-> -1]
Frame(e, f) == [ep |-> e, fr |-> f]
Client(pc) == [pc |-> pc, w |-> 0, ep |-> 0, i |-> 0, heard |-> Silence]

Init ==
  /\ epoch = 0 /\ captured = 0 /\ published = 0
  /\ cycle \in [id : {0}, n : BufferSizes]
  /\ served = -1 /\ window = 0 /\ next = 0 /\ checked = 0
  /\ client = [c \in Clients |-> Client("off")]

-----------------------------------------------------------------------------
Capture ==
  /\ captured' = captured + 1
  /\ UNCHANGED <<epoch, published, cycle, reader, client>>

Publish ==
  /\ published' = captured
  /\ UNCHANGED <<epoch, captured, cycle, reader, client>>

BeginStream ==
  /\ epoch' = epoch + 1 /\ captured' = 0 /\ published' = 0
  /\ UNCHANGED <<cycle, reader, client>>

Started == {c \in Clients : client[c].pc # "off"}

(* A session begins at the head.                                           *)
Start(c) ==
  /\ client[c].pc = "off"
  /\ client' = [client EXCEPT ![c] = Client("ready")]
  /\ \/ /\ Started = {}
        /\ cycle' \in [id : Nat, n : BufferSizes]
        /\ served' = -1 /\ window' = published /\ next' = published /\ checked' = published
     \/ Started # {} /\ UNCHANGED <<cycle, reader>>
  /\ UNCHANGED stream

Stop(c) ==
  /\ client[c].pc \in {"ready", "done"}
  /\ client' = [client EXCEPT ![c] = Client("off")]
  /\ UNCHANGED <<stream, cycle, reader>>

NextCycle ==
  /\ \A c \in Clients : client[c].pc \notin {"load", "copy"}
  /\ cycle' \in [id : {cycle.id + 1}, n : BufferSizes]
  /\ client' = [c \in Clients |-> IF c \in Started THEN Client("ready") ELSE client[c]]
  /\ UNCHANGED <<stream, reader>>

Look(c) ==
  /\ client[c].pc = "ready"
  /\ client' = [client EXCEPT
       ![c] = [pc |-> "load", w |-> published, ep |-> epoch, i |-> @.i, heard |-> @.heard]]
  /\ UNCHANGED <<stream, cycle, reader>>

(* Below head w the stream offers n frames from start on, and will still   *)
(* do so when n more have been captured.                                   *)
Offers(start, n, w) == start + n <= w /\ w + n <= start + Reach

(* The first client of a cycle to get here chooses the window of all.      *)
Place(c) ==
  /\ client[c].pc = "load"
  /\ client' = [client EXCEPT ![c].pc = "copy"]
  /\ LET w == client[c].w
         n == cycle.n
     IN
     \/ served = cycle.id /\ UNCHANGED reader
     \/ /\ served # cycle.id
        /\ served' = cycle.id /\ checked' = w /\ next' = window' + n
        /\ \/ Offers(next, n, w) /\ window' = next
           \/ ~Offers(next, n, w) /\ window' \in Nat /\ Offers(window', n, w)
           \/ w < n /\ window' = 0
  /\ UNCHANGED <<stream, cycle>>

(* What a client may hear at a position: silence past the head it saw; the *)
(* frame of that position, as long as its stream goes on and no more than  *)
(* a buffer has been captured since the window was chosen; anything, if    *)
(* the host is later than that.                                            *)
May(k, position, frame) ==
  IF position >= k.w THEN frame = Silence
  ELSE k.ep = epoch /\ captured <= checked + cycle.n => frame = Frame(epoch, position)

Hear(c) ==
  LET k == client[c] IN
  /\ k.pc = "copy"
  /\ May(k, window + k.i, client'[c].heard)
  /\ client' = [client EXCEPT
       ![c] = [pc |-> IF k.i + 1 = cycle.n THEN "done" ELSE "copy",
               w |-> k.w, ep |-> k.ep, i |-> k.i + 1, heard |-> client'[c].heard]]
  /\ UNCHANGED <<stream, cycle, reader>>

-----------------------------------------------------------------------------
Next ==
  \/ Capture \/ Publish \/ BeginStream \/ NextCycle
  \/ \E c \in Clients : Start(c) \/ Stop(c) \/ Look(c) \/ Place(c) \/ Hear(c)

Spec == Init /\ [][Next]_vars
=============================================================================
