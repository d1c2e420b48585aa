---------------------------- MODULE Line6Samples ----------------------------
(***************************************************************************)
(* From the bytes of a capture transfer to samples: the framing of the     *)
(* packets by on_in (usb.rs) and the conversion of 24-bit little-endian    *)
(* samples by push_frames and s24_to_f32 (shm.rs), as operators.           *)
(***************************************************************************)
EXTENDS Integers, Sequences

CONSTANTS
  Channels,        \* capture_channels
  FramesPerPkt,    \* MAX_FRAMES_PER_IN_PKT
  IsoPackets,      \* ISO_PACKETS
  ByteSize         \* 256; small where all samples are enumerated

ASSUME SamplesAssumption ==
  /\ Channels \in Nat \ {0}
  /\ FramesPerPkt \in Nat \ {0}
  /\ IsoPackets \in Nat \ {0}
  /\ ByteSize \in Nat \ {0} /\ ByteSize % 2 = 0

SampleBytes == 3
FrameBytes == SampleBytes * Channels
InPktLen == FrameBytes * FramesPerPkt
Packets == 0 .. IsoPackets - 1

-----------------------------------------------------------------------------
(* Framing.                                                                *)

(* Mutant: the tail of a packet is taken for a frame.                      *)
WholeRoundedUp(alen) == ((alen + FrameBytes - 1) \div FrameBytes) * FrameBytes

(* The bytes of a packet that make whole frames.                           *)
Whole(alen) == alen - (alen % FrameBytes)

(* Where push_frames takes its samples from, frame by frame and channel by *)
(* channel, as offsets in the transfer's buffer.                           *)
PushFrames(base, len) ==
  [f \in 1 .. len \div FrameBytes |->
     [ch \in 0 .. Channels - 1 |-> base + (f - 1) * FrameBytes + ch * SampleBytes]]

(* The diagnostic tone instead: samples that come from no byte.            *)
Tone == -1
PushSine(frames) == [f \in 1 .. frames |-> [ch \in 0 .. Channels - 1 |-> Tone]]

(* on_in's loop: what each packet of a transfer pushes, given its          *)
(* actual_length, whatever its status.                                     *)
OnIn(actual, sine) ==
  [i \in Packets |->
     IF sine THEN PushSine(Whole(actual[i]) \div FrameBytes)
             ELSE PushFrames(i * InPktLen, Whole(actual[i]))]

-----------------------------------------------------------------------------
(* Conversion.  A sample is an integer, in units of 2^-23: the division    *)
(* by 8388608.0 is exact in an f32.                                        *)

Byte == 0 .. ByteSize - 1

(* Mutant: the word is not signed.                                         *)
SignedUnsigned(x) == x % (ByteSize * ByteSize * ByteSize * ByteSize)

(* The value of a word of four bytes, an i32.                              *)
Signed(x) ==
  LET size == ByteSize * ByteSize * ByteSize * ByteSize
      u == x % size
  IN  IF u < size \div 2 THEN u ELSE u - size

(* s24_to_f32: three bytes shifted up by one and, with the sign, down.     *)
SampleOf(b0, b1, b2) ==
  Signed((b0 + b1 * ByteSize + b2 * ByteSize * ByteSize) * ByteSize) \div ByteSize

(* What the bytes mean: a two's complement integer of 24 bits.             *)
S24(b0, b1, b2) ==
  LET half == ByteSize \div 2
      top == IF b2 < half THEN b2 ELSE b2 - ByteSize
  IN  b0 + b1 * ByteSize + top * ByteSize * ByteSize
=============================================================================
