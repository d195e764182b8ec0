------------------------------ MODULE LaneCodec ------------------------------
(***************************************************************************)
(* Bytes to lane levels and back, clock by clock: PackByte on the sending  *)
(* side, ByteAssembler::Feed on the reading side, which may be in another  *)
(* mode than the sender is.                                                *)
(*                                                                         *)
(* A frame starts with its opcode; an in-band reset holds every lane high. *)
(* What the capture shows on a lane nobody drives is not up to the code:   *)
(* it may be high or low at any clock. Two bytes are read of a frame when  *)
(* the modes agree, and the one that decides what it is taken for when     *)
(* they do not.                                                            *)
(***************************************************************************)
EXTENDS EspiTables, Integers

CONSTANTS
    FirstBytes,    \* the byte a frame starts with
    NextBytes      \* the bytes after it

ASSUME LaneAssumption == FirstBytes \subseteq Byte /\ NextBytes \subseteq Byte

VARIABLES
    sent,      \* how the frame was sent: [mode, phase, bytes]
    mode,      \* the reader's mode
    clock,     \* clocks seen
    group,     \* mGroup
    accum,     \* mAccum
    out        \* bytes assembled

vars == <<sent, mode, clock, group, accum, out>>

Lane      == 0..3
LaneBits  == [Lane -> BOOLEAN]
Phase     == {"Command", "Response"}
FrameSize == 4

(* |= on a byte *)
SetBit(byte, bit) == IF Bit(byte, bit) THEN byte ELSE byte + 2^bit

(* A plausible bug: the least significant bit first. *)
BitPositionLsbFirst(g, offset, width) == g * width + offset

BitPositionFor(g, offset, width) == 7 - g * width - (width - 1) + offset

ActiveLanes(m, phase) ==
    LET lanes == LanesFor(m, phase)
    IN  lanes.first..lanes.first + lanes.count - 1

(* The lane levels of group g of a byte, false on lanes not driven.         *)
PackByte(m, phase, byte, g) ==
    [lane \in Lane |->
        /\ lane \in ActiveLanes(m, phase)
        /\ Bit(byte, BitPositionFor(g, lane - LanesFor(m, phase).first, BitsPerClock(m)))]

(* What the capture holds at a clock (external): the reset pattern, or what *)
(* is driven and whatever is on the other lanes.                            *)
Levels(c, undriven) ==
    LET byte == sent.bytes[(c \div ClocksPerByte(sent.mode)) + 1]
        bits == PackByte(sent.mode, sent.phase, byte, c % ClocksPerByte(sent.mode))
    IN  IF sent.bytes[1] = 255 THEN [lane \in Lane |-> TRUE]
        ELSE [lane \in Lane |-> IF lane \in ActiveLanes(sent.mode, sent.phase) THEN bits[lane]
                                ELSE undriven[lane]]

(* The accumulator after one clock. *)
Gather(levels) ==
    LET lanes == LanesFor(mode, sent.phase)
        take(acc, offset) ==
            IF offset < lanes.count /\ levels[lanes.first + offset]
            THEN SetBit(acc, BitPositionFor(group, offset, BitsPerClock(mode)))
            ELSE acc
    IN  take(take(take(take(accum, 0), 1), 2), 3)

Wanted == IF mode = sent.mode THEN 2 ELSE 1

(* Plausible bugs: what the last byte left in the accumulator, and the      *)
(* group count, not cleared.                                                *)
FeedKeepsAccum(levels) ==
    /\ clock' = clock + 1
    /\ accum' = Gather(levels)
    /\ IF group + 1 < ClocksPerByte(mode)
       THEN group' = group + 1 /\ out' = out
       ELSE group' = 0 /\ out' = Append(out, Gather(levels))
    /\ UNCHANGED <<sent, mode>>

FeedKeepsGroup(levels) ==
    /\ clock' = clock + 1
    /\ group' = group + 1
    /\ IF group + 1 < ClocksPerByte(mode)
       THEN accum' = Gather(levels) /\ out' = out
       ELSE accum' = 0 /\ out' = Append(out, Gather(levels))
    /\ UNCHANGED <<sent, mode>>

(* ByteAssembler::Feed, with the Reset a completed byte ends in.            *)
Feed(levels) ==
    /\ clock' = clock + 1
    /\ IF group + 1 < ClocksPerByte(mode)
       THEN group' = group + 1 /\ accum' = Gather(levels) /\ out' = out
       ELSE group' = 0 /\ accum' = 0 /\ out' = Append(out, Gather(levels))
    /\ UNCHANGED <<sent, mode>>

-----------------------------------------------------------------------------
Init ==
    /\ \E m \in IoMode, phase \in Phase, first \in FirstBytes, next \in NextBytes :
           sent = [mode  |-> m, phase |-> phase,
                   bytes |-> [i \in 1..FrameSize |-> IF i = 1 \/ first = 255 THEN first ELSE next]]
    /\ mode \in IoMode
    /\ clock = 0 /\ group = 0 /\ accum = 0
    /\ out = << >>

Next ==
    /\ Len(out) < Wanted
    /\ clock < FrameSize * ClocksPerByte(sent.mode)
    /\ \E undriven \in LaneBits : Feed(Levels(clock, undriven))

Spec == Init /\ [][Next]_vars

-----------------------------------------------------------------------------
(* Properties *)

TypeOK ==
    /\ sent \in [mode : IoMode, phase : Phase, bytes : Seq(Byte)]
    /\ mode \in IoMode
    /\ clock \in 0..FrameSize * ClocksPerByte(sent.mode)
    /\ group \in 0..ClocksPerByte(mode) - 1
    /\ accum \in Byte
    /\ out \in Seq(Byte) /\ Len(out) <= Wanted

(* IoMode.h and LaneCodec.h (Figures 56 to 58): read in the mode it was     *)
(* sent in, a byte comes most significant bit first: after each clock the   *)
(* accumulator is the byte with the bits still to come cleared.             *)
TopBitsFirst ==
    mode = sent.mode /\ Len(out) < Wanted =>
        LET byte == sent.bytes[Len(out) + 1]
        IN  accum = byte - (byte % 2^(8 - group * BitsPerClock(mode)))

(* LaneCodec.h: what is assembled is what was sent, whatever is on the      *)
(* other lanes, the second byte as the first.                               *)
RoundTrip == mode = sent.mode => \A i \in DOMAIN out : out[i] = sent.bytes[i]

(* LinkDecoder.cpp:1192 (Figure 65): an in-band reset reads as one in every *)
(* mode, which is what makes it the way out of any uncertainty.             *)
ResetReadsInAnyMode == sent.bytes[1] = 255 /\ out # << >> => out[1] = 255

(* Session.cpp:88-91 rests on this: no other command the tables define is   *)
(* taken for a reset by a reader in the wrong mode.                         *)
NothingElseReadsAsReset ==
    /\ sent.phase = "Command"
    /\ KnownOpcode(sent.bytes[1]) /\ sent.bytes[1] # 255
    /\ out # << >>
    => out[1] # 255
=============================================================================
