-------------------------- MODULE LaneCodec_proofs ---------------------------
(***************************************************************************)
(* Proofs that a byte gets over the lanes whole in every mode, that an     *)
(* in-band reset is one to every reader and that no other command is, for  *)
(* any bytes sent and whatever is on the lanes nobody drives.              *)
(***************************************************************************)
EXTENDS LaneCodec, EspiTables_proofs

-----------------------------------------------------------------------------
(* One clock: w bits or-ed into a byte at position q and up. *)

Places == [w : {1}, q : 0..7] \cup [w : {2}, q : {0, 2, 4, 6}] \cup [w : {4}, q : {0, 4}]

Ors(w, q, acc, bits) ==
    LET take(a, k) == IF k < w /\ bits[k] THEN SetBit(a, q + k) ELSE a
    IN  take(take(take(take(acc, 0), 1), 2), 3)

(* A byte that holds nothing below q + w yet holds nothing below q after it. *)
Gathers(w, q) ==
    \A acc \in Byte, bits \in LaneBits :
        acc % 2^(q + w) = 0 => Ors(w, q, acc, bits) \in Byte /\ Ors(w, q, acc, bits) % 2^q = 0

(* Or-ing in a byte's own bits takes it w bits further. *)
Copies(w, q) ==
    \A byte \in Byte, bits \in LaneBits :
        (\A k \in Lane : k < w => (bits[k] <=> Bit(byte, q + k)))
        => Ors(w, q, byte - (byte % 2^(q + w)), bits) = byte - (byte % 2^q)

(* It is filled with ones by nothing but ones.                              *)
NotFills(w, q) ==
    \A acc \in Byte, bits \in LaneBits :
        /\ acc % 2^(q + w) = 0 /\ acc <= 256 - 2^(q + w)
        /\ ~bits[0] \/ acc < 256 - 2^(q + w)
        => Ors(w, q, acc, bits) < 256 - 2^q

(* So it is at every place. *)
LEMMA AllGather == \A place \in Places : Gathers(place.w, place.q)
<1>1. Gathers(1, 7)
  BY DEF Gathers, Ors, SetBit, Bit, Byte, LaneBits, Lane
<1>2. Gathers(1, 6)
  BY DEF Gathers, Ors, SetBit, Bit, Byte, LaneBits, Lane
<1>3. Gathers(1, 5)
  BY DEF Gathers, Ors, SetBit, Bit, Byte, LaneBits, Lane
<1>4. Gathers(1, 4)
  BY DEF Gathers, Ors, SetBit, Bit, Byte, LaneBits, Lane
<1>5. Gathers(1, 3)
  BY DEF Gathers, Ors, SetBit, Bit, Byte, LaneBits, Lane
<1>6. Gathers(1, 2)
  BY DEF Gathers, Ors, SetBit, Bit, Byte, LaneBits, Lane
<1>7. Gathers(1, 1)
  BY DEF Gathers, Ors, SetBit, Bit, Byte, LaneBits, Lane
<1>8. Gathers(1, 0)
  BY DEF Gathers, Ors, SetBit, Bit, Byte, LaneBits, Lane
<1>9. Gathers(2, 6)
  BY DEF Gathers, Ors, SetBit, Bit, Byte, LaneBits, Lane
<1>10. Gathers(2, 4)
  BY DEF Gathers, Ors, SetBit, Bit, Byte, LaneBits, Lane
<1>11. Gathers(2, 2)
  BY DEF Gathers, Ors, SetBit, Bit, Byte, LaneBits, Lane
<1>12. Gathers(2, 0)
  BY DEF Gathers, Ors, SetBit, Bit, Byte, LaneBits, Lane
<1>13. Gathers(4, 4)
  <2> DEFINE worth(on, p) == IF on THEN 2^p ELSE 0
             sum(bits) == worth(bits[0], 4) + worth(bits[1], 5) + worth(bits[2], 6)
                              + worth(bits[3], 7)
  <2>1. ASSUME NEW acc \in Byte, NEW bits \in LaneBits, acc % 2^8 = 0
        PROVE  Ors(4, 4, acc, bits) = acc + sum(bits)
    BY <2>1 DEF Ors, SetBit, Bit, Byte, LaneBits, Lane
  <2>2. ASSUME NEW bits \in LaneBits
        PROVE  sum(bits) \in 0..240 /\ sum(bits) % 2^4 = 0
    BY DEF LaneBits, Lane
  <2>3. \A acc \in Byte : acc % 2^8 = 0 => acc = 0
    BY DEF Byte
  <2> HIDE DEF sum
  <2>4. QED
    BY <2>1, <2>2, <2>3 DEF Gathers, Byte
<1>14. Gathers(4, 0)
  <2> DEFINE worth(on, p) == IF on THEN 2^p ELSE 0
             sum(bits) == worth(bits[0], 0) + worth(bits[1], 1) + worth(bits[2], 2)
                              + worth(bits[3], 3)
  <2>1. ASSUME NEW acc \in Byte, NEW bits \in LaneBits, acc % 2^4 = 0
        PROVE  Ors(4, 0, acc, bits) = acc + sum(bits)
    BY <2>1 DEF Ors, SetBit, Bit, Byte, LaneBits, Lane
  <2>2. ASSUME NEW bits \in LaneBits
        PROVE  sum(bits) \in 0..15
    BY DEF LaneBits, Lane
  <2>3. ASSUME NEW acc \in Byte, NEW n \in 0..15, acc % 2^4 = 0
        PROVE  acc + n \in Byte /\ (acc + n) % 2^0 = 0
    BY <2>3 DEF Byte
  <2>4. 0 + 4 = 4
    OBVIOUS
  <2> HIDE DEF sum
  <2>5. SUFFICES ASSUME NEW acc \in Byte, NEW bits \in LaneBits, acc % 2^4 = 0
                 PROVE  Ors(4, 0, acc, bits) \in Byte /\ Ors(4, 0, acc, bits) % 2^0 = 0
    BY <2>4 DEF Gathers
  <2>6. QED
    BY <2>1, <2>2, <2>3, <2>5
<1>15. QED
  BY <1>1, <1>2, <1>3, <1>4, <1>5, <1>6, <1>7,
     <1>8, <1>9, <1>10, <1>11, <1>12, <1>13, <1>14 DEF Places

(* So it does at every place. *)
LEMMA AllCopy == \A place \in Places : Copies(place.w, place.q)
<1>1. Copies(1, 7)
  BY DEF Copies, Ors, SetBit, Bit, Byte, LaneBits, Lane
<1>2. Copies(1, 6)
  BY DEF Copies, Ors, SetBit, Bit, Byte, LaneBits, Lane
<1>3. Copies(1, 5)
  BY DEF Copies, Ors, SetBit, Bit, Byte, LaneBits, Lane
<1>4. Copies(1, 4)
  BY DEF Copies, Ors, SetBit, Bit, Byte, LaneBits, Lane
<1>5. Copies(1, 3)
  BY DEF Copies, Ors, SetBit, Bit, Byte, LaneBits, Lane
<1>6. Copies(1, 2)
  BY DEF Copies, Ors, SetBit, Bit, Byte, LaneBits, Lane
<1>7. Copies(1, 1)
  BY DEF Copies, Ors, SetBit, Bit, Byte, LaneBits, Lane
<1>8. Copies(1, 0)
  BY DEF Copies, Ors, SetBit, Bit, Byte, LaneBits, Lane
<1>9. Copies(2, 6)
  BY DEF Copies, Ors, SetBit, Bit, Byte, LaneBits, Lane
<1>10. Copies(2, 4)
  BY DEF Copies, Ors, SetBit, Bit, Byte, LaneBits, Lane
<1>11. Copies(2, 2)
  BY DEF Copies, Ors, SetBit, Bit, Byte, LaneBits, Lane
<1>12. Copies(2, 0)
  BY DEF Copies, Ors, SetBit, Bit, Byte, LaneBits, Lane
<1>13. Copies(4, 4)
  BY DEF Copies, Ors, SetBit, Bit, Byte, LaneBits, Lane
<1>14. Copies(4, 0)
  BY SMTT(30) DEF Copies, Ors, SetBit, Bit, Byte, LaneBits, Lane
<1>15. QED
  BY <1>1, <1>2, <1>3, <1>4, <1>5, <1>6, <1>7,
     <1>8, <1>9, <1>10, <1>11, <1>12, <1>13, <1>14 DEF Places

(* So it is at every place. *)
LEMMA AllNotFill == \A place \in Places : NotFills(place.w, place.q)
<1>1. NotFills(1, 7)
  BY DEF NotFills, Ors, SetBit, Bit, Byte, LaneBits, Lane
<1>2. NotFills(1, 6)
  BY DEF NotFills, Ors, SetBit, Bit, Byte, LaneBits, Lane
<1>3. NotFills(1, 5)
  BY DEF NotFills, Ors, SetBit, Bit, Byte, LaneBits, Lane
<1>4. NotFills(1, 4)
  BY DEF NotFills, Ors, SetBit, Bit, Byte, LaneBits, Lane
<1>5. NotFills(1, 3)
  BY DEF NotFills, Ors, SetBit, Bit, Byte, LaneBits, Lane
<1>6. NotFills(1, 2)
  BY DEF NotFills, Ors, SetBit, Bit, Byte, LaneBits, Lane
<1>7. NotFills(1, 1)
  BY DEF NotFills, Ors, SetBit, Bit, Byte, LaneBits, Lane
<1>8. NotFills(1, 0)
  BY DEF NotFills, Ors, SetBit, Bit, Byte, LaneBits, Lane
<1>9. NotFills(2, 6)
  BY DEF NotFills, Ors, SetBit, Bit, Byte, LaneBits, Lane
<1>10. NotFills(2, 4)
  BY DEF NotFills, Ors, SetBit, Bit, Byte, LaneBits, Lane
<1>11. NotFills(2, 2)
  BY DEF NotFills, Ors, SetBit, Bit, Byte, LaneBits, Lane
<1>12. NotFills(2, 0)
  BY DEF NotFills, Ors, SetBit, Bit, Byte, LaneBits, Lane
<1>13. NotFills(4, 4)
  BY DEF NotFills, Ors, SetBit, Bit, Byte, LaneBits, Lane
<1>14. NotFills(4, 0)
  BY DEF NotFills, Ors, SetBit, Bit, Byte, LaneBits, Lane
<1>15. QED
  BY <1>1, <1>2, <1>3, <1>4, <1>5, <1>6, <1>7,
     <1>8, <1>9, <1>10, <1>11, <1>12, <1>13, <1>14 DEF Places

-----------------------------------------------------------------------------
(* Where the assembler stands: it takes Width bits a clock, the next of     *)
(* them at Position and up.                                                 *)

Width    == BitsPerClock(mode)
Position == 7 - group * Width - (Width - 1)

TakenBits(levels) ==
    [k \in Lane |-> k < Width /\ levels[LanesFor(mode, sent.phase).first + k]]

(* The width of each mode, and the clocks of a byte in it. *)
LEMMA Widths ==
    /\ BitsPerClock("Single") = 1 /\ ClocksPerByte("Single") = 8
    /\ BitsPerClock("Dual") = 2 /\ ClocksPerByte("Dual") = 4
    /\ BitsPerClock("Quad") = 4 /\ ClocksPerByte("Quad") = 2
<1>1. /\ BitsPerClock("Single") = 1
      /\ BitsPerClock("Dual") = 2
      /\ BitsPerClock("Quad") = 4
  BY DEF BitsPerClock
<1>2. QED
  BY <1>1 DEF ClocksPerByte

(* The assembler is at one of the places; the last group of a byte ends at  *)
(* its bit 0, and the next one starts where this one ends.                  *)
LEMMA AtPlace ==
    ASSUME mode \in IoMode, group \in 0..ClocksPerByte(mode) - 1
    PROVE  /\ [w |-> Width, q |-> Position] \in Places
           /\ Width \in {1, 2, 4} /\ Position \in 0..7
           /\ Position + Width = 8 - group * Width
           /\ Position = 8 - (group + 1) * Width
           /\ group + 1 < ClocksPerByte(mode) <=> Position # 0
<1>1. CASE mode = "Single"
  <2>1. Width = 1 /\ ClocksPerByte(mode) = 8
    BY <1>1, Widths DEF Width
  <2>2. group \in 0..7 /\ Position = 7 - group
    BY <2>1 DEF Position
  <2>3. Position \in 0..7 /\ [w |-> Width, q |-> Position] \in Places
    BY <2>1, <2>2 DEF Places
  <2>4. QED
    BY <2>1, <2>2, <2>3
<1>2. CASE mode = "Dual"
  <2>1. Width = 2 /\ ClocksPerByte(mode) = 4
    BY <1>2, Widths DEF Width
  <2>2. group \in 0..3 /\ Position = 6 - group * 2
    BY <2>1 DEF Position
  <2>3. Position \in {0, 2, 4, 6}
    BY <2>2
  <2>4. [w |-> Width, q |-> Position] \in Places
    BY <2>1, <2>3 DEF Places
  <2>5. QED
    BY <2>1, <2>2, <2>3, <2>4
<1>3. CASE mode = "Quad"
  <2>1. Width = 4 /\ ClocksPerByte(mode) = 2
    BY <1>3, Widths DEF Width
  <2>2. group \in 0..1 /\ Position = 4 - group * 4
    BY <2>1 DEF Position
  <2>3. Position \in {0, 4}
    BY <2>2
  <2>4. [w |-> Width, q |-> Position] \in Places
    BY <2>1, <2>3 DEF Places
  <2>5. QED
    BY <2>1, <2>2, <2>3, <2>4
<1>4. QED
  BY <1>1, <1>2, <1>3 DEF IoMode

(* The lanes of a mode are as many as its bits a clock; a command starts on *)
(* lane 0.                                                                  *)
LEMMA LanesOfMode ==
    ASSUME NEW m \in IoMode, NEW phase \in Phase
    PROVE  /\ LanesFor(m, phase).count = BitsPerClock(m)
           /\ LanesFor(m, phase).first \in Nat
           /\ LanesFor(m, phase).first + BitsPerClock(m) <= 4
           /\ phase = "Command" => LanesFor(m, phase).first = 0
BY Widths DEF LanesFor, IoMode, Phase

(* A clock ors the levels of the active lanes in. *)
LEMMA GatherOrs ==
    ASSUME mode \in IoMode, sent.phase \in Phase, NEW levels \in LaneBits
    PROVE  /\ TakenBits(levels) \in LaneBits
           /\ Gather(levels) = Ors(Width, Position, accum, TakenBits(levels))
<1>1. /\ LanesFor(mode, sent.phase).count = Width
      /\ LanesFor(mode, sent.phase).first \in Nat
      /\ LanesFor(mode, sent.phase).first + Width <= 4
      /\ Width \in {1, 2, 4}
  BY LanesOfMode, Widths DEF Width, IoMode
<1> DEFINE first == LanesFor(mode, sent.phase).first
<1>2. ASSUME NEW k \in Lane, k < Width
      PROVE  first + k \in Lane /\ levels[first + k] \in BOOLEAN
  BY <1>1, <1>2 DEF Lane, LaneBits
<1>3. TakenBits(levels) \in LaneBits
  BY <1>2 DEF TakenBits, LaneBits, Lane
<1>4. /\ TakenBits(levels)[0] = (0 < Width /\ levels[first + 0])
      /\ TakenBits(levels)[1] = (1 < Width /\ levels[first + 1])
      /\ TakenBits(levels)[2] = (2 < Width /\ levels[first + 2])
      /\ TakenBits(levels)[3] = (3 < Width /\ levels[first + 3])
  BY DEF TakenBits, Lane
<1>5. Gather(levels) = Ors(Width, Position, accum, TakenBits(levels))
  BY <1>1, <1>4 DEF Gather, Ors, BitPositionFor, Width, Position
<1>6. QED
  BY <1>3, <1>5

-----------------------------------------------------------------------------
(* Arithmetic on clocks and bytes *)

(* The clocks of n bytes and g more. *)
LEMMA ClockDivides ==
    ASSUME NEW n \in Nat, NEW c \in {2, 4, 8}, NEW g \in 0..c - 1
    PROVE  (n * c + g) \div c = n /\ (n * c + g) % c = g
<1>1. CASE c = 2
  BY <1>1
<1>2. CASE c = 4
  BY <1>2
<1>3. CASE c = 8
  BY <1>3
<1>4. QED
  BY <1>1, <1>2, <1>3

(* A byte that holds nothing below a position is that much short of full. *)
LEMMA NothingBelow == \A p \in 0..8 : \A acc \in Byte : acc % 2^p = 0 => acc <= 256 - 2^p
<1>1. \A acc \in Byte : acc % 2^0 = 0 => acc <= 256 - 2^0
  BY DEF Byte
<1>2. \A acc \in Byte : acc % 2^1 = 0 => acc <= 256 - 2^1
  BY DEF Byte
<1>3. \A acc \in Byte : acc % 2^2 = 0 => acc <= 256 - 2^2
  BY DEF Byte
<1>4. \A acc \in Byte : acc % 2^3 = 0 => acc <= 256 - 2^3
  BY DEF Byte
<1>5. \A acc \in Byte : acc % 2^4 = 0 => acc <= 256 - 2^4
  BY DEF Byte
<1>6. \A acc \in Byte : acc % 2^5 = 0 => acc <= 256 - 2^5
  BY DEF Byte
<1>7. \A acc \in Byte : acc % 2^6 = 0 => acc <= 256 - 2^6
  BY DEF Byte
<1>8. \A acc \in Byte : acc % 2^7 = 0 => acc <= 256 - 2^7
  BY DEF Byte
<1>9. \A acc \in Byte : acc % 2^8 = 0 => acc <= 256 - 2^8
  BY DEF Byte
<1>10. \A p \in 0..8 : p \in {0, 1, 2, 3, 4, 5, 6, 7, 8}
  OBVIOUS
<1> DEFINE short(p) == \A acc \in Byte : acc % 2^p = 0 => acc <= 256 - 2^p
<1>11. short(0) /\ short(1) /\ short(2) /\ short(3) /\ short(4)
  BY <1>1, <1>2, <1>3, <1>4, <1>5
<1>12. short(5) /\ short(6) /\ short(7) /\ short(8)
  BY <1>6, <1>7, <1>8, <1>9
<1> HIDE DEF short
<1>13. \A p \in 0..8 : short(p)
  BY <1>10, <1>11, <1>12
<1>14. QED
  BY <1>13 DEF short

(* Before the first bit of a byte all of it is to come. *)
LEMMA AllToCome == \A p : p = 8 => 2^p = 256
<1>1. 2^8 = 256
  OBVIOUS
<1>2. QED
  BY <1>1, Zenon

(* A byte is a byte once nothing of it is to come, and 0 while all is. *)
LEMMA NoneOrAll == \A byte \in Byte : byte - (byte % 1) = byte /\ byte - (byte % 256) = 0
BY DEF Byte

(* A reset's byte has every bit. *)
LEMMA EveryBit == \A p \in 0..7 : Bit(255, p)
<1>1. /\ Bit(255, 0) /\ Bit(255, 1) /\ Bit(255, 2) /\ Bit(255, 3)
      /\ Bit(255, 4) /\ Bit(255, 5) /\ Bit(255, 6) /\ Bit(255, 7)
  BY DEF Bit
<1>2. \A p \in 0..7 : p \in {0, 1, 2, 3, 4, 5, 6, 7}
  OBVIOUS
<1>3. QED
  BY <1>1, <1>2

(* No other opcode of the tables has bit 7 or bit 4. *)
LEMMA ClearBits ==
    ASSUME NEW byte \in Byte, KnownOpcode(byte), byte # 255
    PROVE  ~Bit(byte, 7) /\ ~Bit(byte, 4)
<1>1. PICK o \in Opcodes : MatchesOpcode(byte, o)
  BY DEF KnownOpcode
<1>2. /\ o.encoding \in 0..11 \cup {33, 34, 37, 255} \cup {64, 68, 72, 76}
      /\ o.short => o.encoding \in {64, 68, 72, 76}
  BY <1>1 DEF Opcodes, Opcode
<1>3. CASE o.short
  <2>1. byte - (byte % 4) \in {64, 68, 72, 76}
    BY <1>1, <1>2, <1>3 DEF MatchesOpcode
  <2>2. byte \in 64..79
    BY <2>1 DEF Byte
  <2>3. QED
    BY <2>2 DEF Bit
<1>4. CASE ~o.short
  <2>1. byte = o.encoding
    BY <1>1, <1>4 DEF MatchesOpcode
  <2>2. byte \in 0..11 \cup {33, 34, 37} \cup {64, 68, 72, 76}
    BY <1>2, <2>1
  <2>3. QED
    BY <2>2 DEF Bit
<1>5. QED
  BY <1>3, <1>4

-----------------------------------------------------------------------------
(* The inductive invariant *)

(* What the accumulator lacks to be a byte is below this. *)
Scale == 2^(Position + Width)

(* A frame is bytes, and a reset nothing but ones. *)
Framed ==
    /\ sent.bytes \in [1..FrameSize -> Byte]
    /\ sent.bytes[1] = 255 => \A i \in 1..FrameSize : sent.bytes[i] = 255

(* Every clock went into a byte assembled or into the accumulator. *)
InStep == clock = Len(out) * ClocksPerByte(mode) + group

(* Nothing of the bits to come is in the accumulator yet. *)
Blank == accum % Scale = 0

(* A reset is all ones so far, in whatever mode it is read. *)
OnesSoFar ==
    sent.bytes[1] = 255 =>
        /\ accum = 255 - (255 % Scale)
        /\ \A i \in DOMAIN out : out[i] = 255

(* Another command, read in a mode it was not sent in. *)
Misread ==
    /\ mode # sent.mode /\ sent.phase = "Command"
    /\ KnownOpcode(sent.bytes[1]) /\ sent.bytes[1] # 255

(* Bit 7 or bit 4 has been on lane 0. *)
ClearBitSeen == clock >= 2 \/ (clock >= 1 /\ sent.mode # "Dual")

(* By then a one is missing from the accumulator, and stays missing. *)
NeverFull ==
    Misread => /\ out = << >> /\ ClearBitSeen => accum < 256 - Scale
               /\ out # << >> => out[1] # 255

IInv ==
    /\ TypeOK /\ Framed /\ InStep /\ Blank /\ TopBitsFirst /\ RoundTrip
    /\ OnesSoFar /\ NeverFull

-----------------------------------------------------------------------------
(* One clock *)

(* What a clock leaves in the accumulator, before the byte is taken out.    *)
After(undriven) == Gather(Levels(clock, undriven))

(* The capture has a level on every lane. *)
LEMMA LevelsTyped ==
    ASSUME NEW undriven \in LaneBits
    PROVE  Levels(clock, undriven) \in LaneBits
<1> DEFINE byte == sent.bytes[(clock \div ClocksPerByte(sent.mode)) + 1]
           bits == PackByte(sent.mode, sent.phase, byte, clock % ClocksPerByte(sent.mode))
<1>1. bits \in LaneBits
  BY DEF PackByte, LaneBits
<1> HIDE DEF bits
<1>2. [lane \in Lane |-> TRUE] \in LaneBits
  BY DEF LaneBits
<1>3. [lane \in Lane |-> IF lane \in ActiveLanes(sent.mode, sent.phase) THEN bits[lane]
                         ELSE undriven[lane]] \in LaneBits
  BY <1>1 DEF LaneBits
<1>4. QED
  BY <1>2, <1>3 DEF Levels, bits

(* During a reset every lane taken is high. *)
LEMMA ResetTakesOnes ==
    ASSUME mode \in IoMode, sent.phase \in Phase, sent.bytes[1] = 255, NEW undriven \in LaneBits
    PROVE  \A k \in Lane : k < Width => TakenBits(Levels(clock, undriven))[k]
<1>1. /\ LanesFor(mode, sent.phase).first \in Nat
      /\ LanesFor(mode, sent.phase).first + Width <= 4
      /\ Width \in {1, 2, 4}
  BY LanesOfMode, Widths DEF Width, IoMode
<1>2. Levels(clock, undriven) = [lane \in Lane |-> TRUE]
  BY DEF Levels
<1>3. ASSUME NEW k \in Lane, k < Width
      PROVE  LanesFor(mode, sent.phase).first + k \in Lane
  BY <1>1, <1>3 DEF Lane
<1>4. QED
  BY <1>2, <1>3 DEF TakenBits

(* Read in the mode it was sent in, a byte other than a reset's gives its   *)
(* own bits, in place.                                                      *)
LEMMA TakesOwnBits ==
    ASSUME TypeOK, Framed, InStep, mode = sent.mode, sent.bytes[1] # 255,
           NEW undriven \in LaneBits
    PROVE  \A k \in Lane : k < Width =>
               (TakenBits(Levels(clock, undriven))[k]
                    <=> Bit(sent.bytes[Len(out) + 1], Position + k))
<1>1. /\ mode \in IoMode /\ sent.phase \in Phase
      /\ group \in 0..ClocksPerByte(mode) - 1
      /\ Len(out) \in Nat
  BY DEF TypeOK
<1>2. /\ LanesFor(mode, sent.phase).first \in Nat
      /\ LanesFor(mode, sent.phase).count = Width
      /\ LanesFor(mode, sent.phase).first + Width <= 4
      /\ Width \in {1, 2, 4}
      /\ ClocksPerByte(mode) \in {2, 4, 8}
  BY <1>1, LanesOfMode, Widths DEF Width, IoMode
<1>3. clock \div ClocksPerByte(mode) = Len(out) /\ clock % ClocksPerByte(mode) = group
  <2>1. PICK n \in Nat, c \in {2, 4, 8}, g \in Nat :
            n = Len(out) /\ c = ClocksPerByte(mode) /\ g = group
    BY <1>1, <1>2
  <2>2. g \in 0..c - 1 /\ clock = n * c + g
    BY <1>1, <2>1 DEF InStep
  <2>3. (n * c + g) \div c = n /\ (n * c + g) % c = g
    BY <2>2, ClockDivides
  <2>4. QED
    BY <2>1, <2>2, <2>3
<1> DEFINE first  == LanesFor(mode, sent.phase).first
           levels == Levels(clock, undriven)
<1>4. SUFFICES ASSUME NEW k \in Lane, k < Width
               PROVE  TakenBits(levels)[k] <=> Bit(sent.bytes[Len(out) + 1], Position + k)
  OBVIOUS
<1>5. /\ first + k \in Lane
      /\ first + k \in ActiveLanes(mode, sent.phase)
      /\ first + k - first = k
  BY <1>2, <1>4 DEF Lane, ActiveLanes
<1>6. levels[first + k]
        = PackByte(mode, sent.phase, sent.bytes[Len(out) + 1], group)[first + k]
  BY <1>3, <1>5 DEF Levels
<1>7. PackByte(mode, sent.phase, sent.bytes[Len(out) + 1], group)[first + k]
        <=> Bit(sent.bytes[Len(out) + 1], BitPositionFor(group, k, Width))
  <2>1. ASSUME NEW byte, NEW lane \in Lane
        PROVE  PackByte(mode, sent.phase, byte, group)[lane]
                 <=> /\ lane \in ActiveLanes(mode, sent.phase)
                     /\ Bit(byte, BitPositionFor(group, lane - first, Width))
    BY Zenon DEF PackByte, Width
  <2>2. PICK lane \in Lane : lane = first + k
    BY <1>5
  <2>3. lane \in ActiveLanes(mode, sent.phase)
    BY <1>2, <1>4, <2>2 DEF ActiveLanes, Lane
  <2>4. lane - first = k
    BY <1>2, <1>4, <2>2 DEF Lane
  <2>5. PackByte(mode, sent.phase, sent.bytes[Len(out) + 1], group)[lane]
          <=> Bit(sent.bytes[Len(out) + 1], BitPositionFor(group, k, Width))
    BY <2>1, <2>3, <2>4, Zenon
  <2>6. QED
    BY <2>2, <2>5, Zenon
<1>8. BitPositionFor(group, k, Width) = Position + k
  BY DEF BitPositionFor, Position
<1>9. TakenBits(levels)[k] = levels[first + k]
  BY <1>4, <1>5, LevelsTyped DEF TakenBits, LaneBits
<1>10. QED
  BY <1>6, <1>7, <1>8, <1>9

(* A clock makes a byte of a byte, and leaves what is still to come blank.  *)
LEMMA AfterTyped ==
    ASSUME TypeOK, Blank, NEW undriven \in LaneBits
    PROVE  After(undriven) \in Byte /\ After(undriven) % 2^Position = 0
<1>1. /\ [w |-> Width, q |-> Position] \in Places
      /\ accum \in Byte
      /\ mode \in IoMode /\ sent.phase \in Phase
  BY AtPlace DEF TypeOK
<1>2. Gathers(Width, Position)
  BY <1>1, AllGather
<1> DEFINE bits == TakenBits(Levels(clock, undriven))
<1>3. bits \in LaneBits /\ After(undriven) = Ors(Width, Position, accum, bits)
  BY <1>1, LevelsTyped, GatherOrs DEF After
<1>4. QED
  BY <1>1, <1>2, <1>3 DEF Gathers, Blank, Scale

(* Where bits agree with a byte's own, a clock takes the byte w bits        *)
(* further.                                                                 *)
LEMMA Copied ==
    ASSUME TypeOK, NEW byte \in Byte, accum = byte - (byte % Scale), NEW undriven \in LaneBits,
           \A k \in Lane : k < Width =>
               (TakenBits(Levels(clock, undriven))[k] <=> Bit(byte, Position + k))
    PROVE  After(undriven) = byte - (byte % 2^Position)
<1>1. /\ [w |-> Width, q |-> Position] \in Places
      /\ mode \in IoMode /\ sent.phase \in Phase
  BY AtPlace DEF TypeOK
<1>2. Copies(Width, Position)
  BY <1>1, AllCopy
<1> DEFINE bits == TakenBits(Levels(clock, undriven))
<1>3. bits \in LaneBits /\ After(undriven) = Ors(Width, Position, accum, bits)
  BY <1>1, LevelsTyped, GatherOrs DEF After
<1>4. QED
  BY <1>2, <1>3 DEF Copies, Scale

(* During a reset that is the byte of ones. *)
LEMMA AfterReset ==
    ASSUME TypeOK, OnesSoFar, sent.bytes[1] = 255, NEW undriven \in LaneBits
    PROVE  After(undriven) = 255 - (255 % 2^Position)
<1>1. /\ mode \in IoMode /\ sent.phase \in Phase
      /\ Position \in 0..7 /\ Width \in {1, 2, 4} /\ Position + Width <= 8
  <2>1. mode \in IoMode /\ sent.phase \in Phase /\ group \in 0..ClocksPerByte(mode) - 1
    BY DEF TypeOK
  <2>2. [w |-> Width, q |-> Position] \in Places /\ Position \in 0..7 /\ Width \in {1, 2, 4}
    BY <2>1, AtPlace
  <2>3. Position + Width <= 8
    BY <2>2 DEF Places
  <2>4. QED
    BY <2>1, <2>2, <2>3
<1>2. \A k \in Lane : k < Width => TakenBits(Levels(clock, undriven))[k]
  BY <1>1, ResetTakesOnes
<1>3. ASSUME NEW k \in Lane, k < Width
      PROVE  Bit(255, Position + k)
  <2>1. Position + k \in 0..7
    BY <1>1, <1>3 DEF Lane
  <2>2. QED
    BY <2>1, EveryBit
<1>4. \A k \in Lane : k < Width =>
          (TakenBits(Levels(clock, undriven))[k] <=> Bit(255, Position + k))
  BY <1>2, <1>3
<1>5. 255 \in Byte /\ accum = 255 - (255 % Scale)
  BY DEF OnesSoFar, Byte
<1>6. QED
  BY <1>4, <1>5, Copied

(* In the mode it was sent in, it is the byte that comes. *)
LEMMA AfterOwn ==
    ASSUME TypeOK, Framed, InStep, OnesSoFar, TopBitsFirst,
           mode = sent.mode, Len(out) < Wanted, NEW undriven \in LaneBits
    PROVE  After(undriven)
             = sent.bytes[Len(out) + 1] - (sent.bytes[Len(out) + 1] % 2^Position)
<1>1. Len(out) + 1 \in 1..FrameSize
  BY DEF TypeOK, Wanted, FrameSize
<1>2. CASE sent.bytes[1] = 255
  <2>1. sent.bytes[Len(out) + 1] = 255
    BY <1>1, <1>2 DEF Framed
  <2>2. QED
    BY <1>2, <2>1, AfterReset
<1>3. CASE sent.bytes[1] # 255
  <2>1. sent.bytes[Len(out) + 1] \in Byte
    BY <1>1 DEF Framed
  <2>2. Scale = 2^(8 - group * BitsPerClock(mode))
    BY AtPlace DEF TypeOK, Scale, Width
  <2>3. accum = sent.bytes[Len(out) + 1] - (sent.bytes[Len(out) + 1] % Scale)
    BY <2>2 DEF TopBitsFirst
  <2>4. QED
    BY <1>3, <2>1, <2>3, TakesOwnBits, Copied
<1>4. QED
  BY <1>2, <1>3

(* A command that is not a reset holds lane 0 low at its first clock, or at *)
(* its second in Dual mode.                                                 *)
LEMMA LowLane ==
    ASSUME TypeOK, Framed, Misread, NEW undriven \in LaneBits,
           \/ clock = 0 /\ sent.mode # "Dual"
           \/ clock = 1 /\ sent.mode = "Dual"
    PROVE  ~TakenBits(Levels(clock, undriven))[0]
<1>1. /\ mode \in IoMode /\ sent.mode \in IoMode
      /\ sent.phase = "Command" /\ sent.phase \in Phase
  BY DEF TypeOK, Misread
<1> DEFINE byte == sent.bytes[1]
<1>2. byte \in Byte /\ byte # 255 /\ ~Bit(byte, 7) /\ ~Bit(byte, 4)
  BY ClearBits DEF Framed, FrameSize, Misread
<1>3. /\ LanesFor(mode, sent.phase).first = 0
      /\ LanesFor(sent.mode, sent.phase).first = 0
      /\ 0 \in ActiveLanes(sent.mode, sent.phase)
  BY <1>1, LanesOfMode, Widths DEF ActiveLanes, IoMode
<1>4. /\ clock \div ClocksPerByte(sent.mode) = 0
      /\ clock % ClocksPerByte(sent.mode) = clock
  BY <1>1, Widths DEF IoMode
<1>5. ~Bit(byte, BitPositionFor(clock, 0, BitsPerClock(sent.mode)))
  BY <1>1, <1>2, Widths DEF IoMode, BitPositionFor
<1>6. ~PackByte(sent.mode, sent.phase, byte, clock)[0]
  <2>1. ASSUME NEW lane \in Lane, lane - 0 = 0
        PROVE  ~PackByte(sent.mode, sent.phase, byte, clock)[lane]
    BY <1>3, <1>5, <2>1, Zenon DEF PackByte
  <2>2. QED
    BY <2>1 DEF Lane
<1>7. ~Levels(clock, undriven)[0]
  BY <1>2, <1>3, <1>4, <1>6 DEF Levels, Lane
<1>8. ASSUME NEW k \in Lane, k = 0
      PROVE  ~TakenBits(Levels(clock, undriven))[k]
  <2>1. LanesFor(mode, sent.phase).first + k = 0
    BY <1>3, <1>8
  <2>2. ~Levels(clock, undriven)[LanesFor(mode, sent.phase).first + k]
    BY <1>7, <2>1
  <2>3. QED
    BY <2>2, Zenon DEF TakenBits
<1>9. QED
  BY <1>8 DEF Lane

(* Once it has, the byte it is taken for lacks a one. *)
LEMMA AfterMisread ==
    ASSUME TypeOK, Framed, InStep, Blank, NeverFull, Misread, out = << >>,
           clock + 1 >= 2 \/ sent.mode # "Dual", NEW undriven \in LaneBits
    PROVE  After(undriven) < 256 - 2^Position
<1>1. /\ [w |-> Width, q |-> Position] \in Places
      /\ accum \in Byte
      /\ mode \in IoMode /\ sent.phase \in Phase
  BY AtPlace DEF TypeOK
<1>2. NotFills(Width, Position)
  BY <1>1, AllNotFill
<1> DEFINE bits == TakenBits(Levels(clock, undriven))
<1>3. bits \in LaneBits /\ After(undriven) = Ors(Width, Position, accum, bits)
  BY <1>1, LevelsTyped, GatherOrs DEF After
<1>4. accum <= 256 - Scale
  <2>1. Position + Width \in 0..8
    BY <1>1 DEF Places
  <2>2. QED
    BY <1>1, <2>1, NothingBelow DEF Blank, Scale
<1>5. ~bits[0] \/ accum < 256 - Scale
  <2>1. CASE ClearBitSeen
    BY <2>1 DEF NeverFull
  <2>2. CASE ~ClearBitSeen
    <3>1. clock \in Nat
      BY DEF TypeOK
    <3>2. \/ clock = 0 /\ sent.mode # "Dual"
          \/ clock = 1 /\ sent.mode = "Dual"
      BY <2>2, <3>1 DEF ClearBitSeen
    <3>3. QED
      BY <3>2, LowLane
  <2>3. QED
    BY <2>1, <2>2
<1>6. QED
  BY <1>1, <1>2, <1>3, <1>4, <1>5 DEF NotFills, Blank, Scale

-----------------------------------------------------------------------------
(* The invariant holds *)

(* A clock that goes on with a byte, and one that ends it: what is left in  *)
(* the accumulator, and where the next clock goes.                          *)
LEMMA GoesOn ==
    ASSUME TypeOK, NEW undriven \in LaneBits, Feed(Levels(clock, undriven))
    PROVE  /\ clock' = clock + 1 /\ sent' = sent /\ mode' = mode
           /\ \/ /\ group + 1 < ClocksPerByte(mode)
                 /\ group' = group + 1 /\ accum' = After(undriven) /\ out' = out
                 /\ Scale' = 2^Position
              \/ /\ group + 1 = ClocksPerByte(mode) /\ Position = 0
                 /\ group' = 0 /\ accum' = 0 /\ out' = Append(out, After(undriven))
                 /\ Scale' = 256
<1>1. /\ mode \in IoMode
      /\ group \in 0..ClocksPerByte(mode) - 1
      /\ ClocksPerByte(mode) \in {2, 4, 8}
  BY Widths DEF TypeOK, IoMode
<1>2. /\ clock' = clock + 1 /\ sent' = sent /\ mode' = mode /\ Width' = Width
  BY DEF Feed, Width
<1>3. /\ Width \in {1, 2, 4} /\ Position \in 0..7
      /\ Position = 8 - (group + 1) * Width
      /\ group + 1 < ClocksPerByte(mode) <=> Position # 0
  BY <1>1, AtPlace
<1>4. CASE group + 1 < ClocksPerByte(mode)
  <2>1. group' = group + 1 /\ accum' = After(undriven) /\ out' = out
    BY <1>4 DEF Feed, After
  <2>2. Position' + Width' = Position
    BY <1>1, <1>2, <1>3, <2>1 DEF Position
  <2>3. QED
    BY <1>2, <1>4, <2>1, <2>2 DEF Scale
<1>5. CASE ~(group + 1 < ClocksPerByte(mode))
  <2>1. group' = 0 /\ accum' = 0 /\ out' = Append(out, After(undriven))
    BY <1>5 DEF Feed, After
  <2>2. Position' + Width' = 8
    BY <1>2, <1>3, <2>1 DEF Position
  <2>3. Scale' = 256
    BY <2>2, AllToCome DEF Scale
  <2>4. group + 1 = ClocksPerByte(mode) /\ Position = 0
    BY <1>1, <1>3, <1>5
  <2>5. QED
    BY <1>2, <2>1, <2>3, <2>4
<1>6. QED
  BY <1>4, <1>5

(* No clock has been seen: nothing is assembled and all of a byte is to     *)
(* come.                                                                    *)
LEMMA InitIInv == Init => IInv
<1> SUFFICES ASSUME Init PROVE IInv
  OBVIOUS
<1>1. PICK m \in IoMode, phase \in Phase, first \in FirstBytes, next \in NextBytes :
          sent = [mode  |-> m, phase |-> phase,
                  bytes |-> [i \in 1..FrameSize |-> IF i = 1 \/ first = 255 THEN first ELSE next]]
  BY DEF Init
<1>2. /\ mode \in IoMode /\ clock = 0 /\ group = 0 /\ accum = 0 /\ out = << >>
      /\ sent.mode = m /\ sent.phase = phase /\ Len(out) = 0
      /\ sent.bytes = [i \in 1..FrameSize |-> IF i = 1 \/ first = 255 THEN first ELSE next]
  BY <1>1 DEF Init
<1>3. first \in Byte /\ next \in Byte
  BY LaneAssumption
<1>4. Framed
  BY <1>2, <1>3 DEF Framed, FrameSize
<1>5. /\ ClocksPerByte(mode) \in {2, 4, 8}
      /\ ClocksPerByte(sent.mode) \in {2, 4, 8}
  BY <1>2, Widths DEF IoMode
<1>6. TypeOK
  <2>1. sent.bytes \in [1..4 -> Byte]
    BY <1>4 DEF Framed, FrameSize
  <2>2. sent.bytes \in Seq(Byte)
    BY <2>1, SeqDef
  <2>3. sent \in [mode : IoMode, phase : Phase, bytes : Seq(Byte)]
    BY <1>1, <2>2
  <2>4. out \in Seq(Byte)
    BY <1>2
  <2>5. QED
    BY <1>2, <1>5, <2>3, <2>4 DEF TypeOK, Byte, Wanted, FrameSize
<1>7. Scale = 256
  <2>1. Width \in {1, 2, 4} /\ Position + Width = 8 - 0 * Width
    BY <1>2, <1>6, AtPlace DEF TypeOK
  <2>2. Position + Width = 8
    BY <2>1
  <2>3. QED
    BY <2>2, AllToCome DEF Scale
<1>8. InStep /\ Blank
  BY <1>2, <1>5, <1>7 DEF InStep, Blank
<1>9. TopBitsFirst
  <2>1. sent.bytes[1] \in Byte
    BY <1>4 DEF Framed, FrameSize
  <2>2. 8 - group * BitsPerClock(mode) = 8
    BY <1>2, Widths DEF IoMode
  <2>3. 0 = sent.bytes[1] - (sent.bytes[1] % 256)
    BY <2>1 DEF Byte
  <2>4. QED
    BY <1>2, <2>2, <2>3, AllToCome DEF TopBitsFirst
<1>10. RoundTrip /\ OnesSoFar
  BY <1>2, <1>7 DEF RoundTrip, OnesSoFar
<1>11. NeverFull
  BY <1>2 DEF NeverFull, ClearBitSeen
<1>12. QED
  BY <1>4, <1>6, <1>8, <1>9, <1>10, <1>11 DEF IInv

(* A clock that goes on with a byte keeps the invariant. *)
LEMMA GoesOnIInv ==
    ASSUME IInv, Len(out) < Wanted, clock < FrameSize * ClocksPerByte(sent.mode),
           NEW undriven \in LaneBits, Feed(Levels(clock, undriven)),
           group + 1 < ClocksPerByte(mode)
    PROVE  IInv'
<1>1. /\ clock' = clock + 1 /\ sent' = sent /\ mode' = mode
      /\ group' = group + 1 /\ accum' = After(undriven) /\ out' = out
      /\ Scale' = 2^Position
  BY GoesOn DEF IInv, TypeOK
<1>2. /\ mode \in IoMode /\ sent.mode \in IoMode /\ group \in Nat /\ clock \in Nat
      /\ ClocksPerByte(mode) \in {2, 4, 8}
      /\ ClocksPerByte(sent.mode) \in {2, 4, 8}
      /\ Len(out) \in Nat
  BY Widths DEF IInv, TypeOK, IoMode
<1>3. After(undriven) \in Byte /\ After(undriven) % 2^Position = 0
  BY AfterTyped DEF IInv
<1>4. TypeOK'
  <2>1. clock + 1 \in 0..FrameSize * ClocksPerByte(sent.mode)
    BY <1>2 DEF FrameSize
  <2>2. group + 1 \in 0..ClocksPerByte(mode) - 1
    BY <1>2
  <2>3. QED
    BY <1>1, <1>3, <2>1, <2>2 DEF IInv, TypeOK, Wanted
<1>5. Framed'
  BY <1>1 DEF IInv, Framed
<1>6. InStep'
  <2>1. clock = Len(out) * ClocksPerByte(mode) + group
    BY DEF IInv, InStep
  <2>2. clock + 1 = Len(out) * ClocksPerByte(mode) + (group + 1)
    BY <1>2, <2>1
  <2>3. QED
    BY <1>1, <2>2 DEF InStep
<1>7. Blank'
  BY <1>1, <1>3 DEF Blank
<1>8. TopBitsFirst'
  <2>1. SUFFICES ASSUME mode = sent.mode
                 PROVE  accum' = sent.bytes[Len(out) + 1]
                          - (sent.bytes[Len(out) + 1] % 2^(8 - (group + 1) * BitsPerClock(mode)))
    BY <1>1 DEF TopBitsFirst
  <2>2. Position = 8 - (group + 1) * BitsPerClock(mode)
    BY AtPlace DEF IInv, TypeOK, Width
  <2>3. QED
    BY <1>1, <2>1, <2>2, AfterOwn DEF IInv
<1>9. RoundTrip'
  BY <1>1 DEF IInv, RoundTrip
<1>10. OnesSoFar'
  BY <1>1, AfterReset DEF IInv, OnesSoFar
<1>11. NeverFull'
  <2>1. SUFFICES ASSUME Misread
                 PROVE  /\ out = << >> /\ ClearBitSeen' => After(undriven) < 256 - 2^Position
                        /\ out # << >> => out[1] # 255
    BY <1>1 DEF NeverFull, Misread
  <2>2. out # << >> => out[1] # 255
    BY <2>1 DEF IInv, NeverFull
  <2>3. ASSUME out = << >>, ClearBitSeen'
        PROVE  After(undriven) < 256 - 2^Position
    <3>1. clock + 1 >= 2 \/ sent.mode # "Dual"
      BY <1>1, <2>3 DEF ClearBitSeen
    <3>2. QED
      BY <2>1, <2>3, <3>1, AfterMisread DEF IInv
  <2>4. QED
    BY <2>2, <2>3
<1>12. QED
  BY <1>4, <1>5, <1>6, <1>7, <1>8, <1>9, <1>10, <1>11 DEF IInv

(* A clock that ends a byte keeps the invariant. *)
LEMMA EndsByteIInv ==
    ASSUME IInv, Len(out) < Wanted, clock < FrameSize * ClocksPerByte(sent.mode),
           NEW undriven \in LaneBits, Feed(Levels(clock, undriven)),
           ~(group + 1 < ClocksPerByte(mode))
    PROVE  IInv'
<1> DEFINE byte == After(undriven)
<1>1. /\ clock' = clock + 1 /\ sent' = sent /\ mode' = mode
      /\ group + 1 = ClocksPerByte(mode) /\ Position = 0
      /\ group' = 0 /\ accum' = 0 /\ out' = Append(out, byte)
      /\ Scale' = 256
  BY GoesOn DEF IInv, TypeOK
<1>2. /\ mode \in IoMode /\ sent.mode \in IoMode /\ group \in Nat /\ clock \in Nat
      /\ ClocksPerByte(mode) \in {2, 4, 8}
      /\ ClocksPerByte(sent.mode) \in {2, 4, 8}
      /\ Len(out) \in Nat /\ out \in Seq(Byte) /\ Wanted \in {1, 2}
  BY Widths DEF IInv, TypeOK, IoMode, Wanted
<1>3. byte \in Byte
  BY AfterTyped DEF IInv
<1>4. 2^Position = 1
  <2>1. \A p : p = 0 => 2^p = 1
    <3>1. 2^0 = 1
      OBVIOUS
    <3>2. QED
      BY <3>1, Zenon
  <2>2. QED
    BY <1>1, <2>1
<1> HIDE DEF byte
<1>5. /\ out' \in Seq(Byte) /\ Len(out') = Len(out) + 1
      /\ \A i \in 1..Len(out) : out'[i] = out[i]
      /\ out'[Len(out) + 1] = byte
      /\ out' # << >>
  BY <1>1, <1>2, <1>3
<1>6. DOMAIN out = 1..Len(out) /\ DOMAIN out' = 1..Len(out) + 1
  BY <1>2, <1>5
<1>7. TypeOK'
  <2>1. clock + 1 \in 0..FrameSize * ClocksPerByte(sent.mode)
    BY <1>2 DEF FrameSize
  <2>2. 0 \in 0..ClocksPerByte(mode) - 1 /\ 0 \in Byte /\ Len(out') <= Wanted
    BY <1>2, <1>5 DEF Byte
  <2>3. Wanted' = Wanted
    BY <1>1 DEF Wanted
  <2>4. QED
    BY <1>1, <1>5, <2>1, <2>2, <2>3 DEF IInv, TypeOK
<1>8. Framed'
  BY <1>1 DEF IInv, Framed
<1>9. InStep'
  <2>1. clock = Len(out) * ClocksPerByte(mode) + group
    BY DEF IInv, InStep
  <2>2. clock + 1 = (Len(out) + 1) * ClocksPerByte(mode) + 0
    BY <1>1, <1>2, <2>1
  <2>3. QED
    BY <1>1, <1>5, <2>2 DEF InStep
<1>10. Blank'
  BY <1>1 DEF Blank
<1>11. mode = sent.mode => byte = sent.bytes[Len(out) + 1]
  <2>1. SUFFICES ASSUME mode = sent.mode PROVE byte = sent.bytes[Len(out) + 1]
    OBVIOUS
  <2>2. byte = sent.bytes[Len(out) + 1] - (sent.bytes[Len(out) + 1] % 1)
    BY <1>4, <2>1, AfterOwn DEF IInv, byte
  <2>3. sent.bytes[Len(out) + 1] \in Byte
    BY <1>2 DEF IInv, Framed, FrameSize
  <2>4. QED
    BY <2>2, <2>3, NoneOrAll
<1>12. TopBitsFirst'
  <2>1. SUFFICES ASSUME mode = sent.mode, Len(out) + 1 < Wanted
                 PROVE  0 = sent.bytes[Len(out) + 2]
                          - (sent.bytes[Len(out) + 2] % 2^(8 - 0 * BitsPerClock(mode)))
    <3>1. Wanted' = Wanted
      BY <1>1 DEF Wanted
    <3>2. Len(out) + 1 + 1 = Len(out) + 2
      BY <1>2
    <3>3. QED
      BY <1>1, <1>5, <3>1, <3>2 DEF TopBitsFirst
  <2>2. sent.bytes[Len(out) + 2] \in Byte
    BY <1>2, <2>1 DEF IInv, Framed, FrameSize
  <2>3. 8 - 0 * BitsPerClock(mode) = 8
    BY <1>2, Widths DEF IoMode
  <2>4. 0 = sent.bytes[Len(out) + 2] - (sent.bytes[Len(out) + 2] % 256)
    BY <2>2, NoneOrAll
  <2>5. QED
    BY <2>3, <2>4, AllToCome
<1>13. RoundTrip'
  BY <1>1, <1>2, <1>5, <1>6, <1>11 DEF IInv, RoundTrip
<1>14. sent.bytes[1] = 255 => byte = 255
  <2>1. sent.bytes[1] = 255 => byte = 255 - (255 % 1)
    BY <1>4, AfterReset DEF IInv, byte
  <2>2. QED
    BY <2>1
<1>15. OnesSoFar'
  BY <1>1, <1>2, <1>5, <1>6, <1>14 DEF IInv, OnesSoFar
<1>16. NeverFull'
  <2>1. SUFFICES ASSUME Misread PROVE out'[1] # 255
    BY <1>1, <1>5 DEF NeverFull, Misread
  <2>2. Len(out) = 0
    BY <1>2, <2>1 DEF Misread, Wanted
  <2>3. out = << >>
    BY <1>2, <2>2
  <2>4. clock + 1 >= 2
    <3>1. clock = 0 * ClocksPerByte(mode) + group
      BY <2>2 DEF IInv, InStep
    <3>2. QED
      BY <1>1, <1>2, <3>1
  <2>5. byte < 256 - 1
    BY <1>4, <2>1, <2>3, <2>4, AfterMisread DEF IInv, byte
  <2>6. out'[1] = byte
    BY <1>5, <2>2
  <2>7. QED
    BY <1>3, <2>5, <2>6 DEF Byte
<1>17. QED
  BY <1>7, <1>8, <1>9, <1>10, <1>12, <1>13, <1>15, <1>16 DEF IInv

-----------------------------------------------------------------------------
(* The invariant holds of every behaviour. *)
THEOREM Invariance == Spec => []IInv
<1>1. Init => IInv
  BY InitIInv
<1>2. IInv /\ [Next]_vars => IInv'
  <2> SUFFICES ASSUME IInv, [Next]_vars PROVE IInv'
    OBVIOUS
  <2>1. CASE Next
    <3>1. PICK undriven \in LaneBits : Feed(Levels(clock, undriven))
      BY <2>1 DEF Next
    <3>2. QED
      BY <2>1, <3>1, GoesOnIInv, EndsByteIInv DEF Next
  <2>2. CASE UNCHANGED vars
    BY <2>2 DEF vars, IInv, TypeOK, Framed, InStep, Blank, TopBitsFirst, RoundTrip, OnesSoFar,
        NeverFull, Misread, ClearBitSeen, Scale, Position, Width, Wanted
  <2>3. QED
    BY <2>1, <2>2
<1>3. QED
  BY <1>1, <1>2, PTL DEF Spec

(* Every variable has its type: no more bytes are assembled than wanted and *)
(* no more clocks taken than the frame has.                                 *)
THEOREM TypeCorrect == Spec => []TypeOK
<1>1. IInv => TypeOK
  BY DEF IInv
<1>2. QED
  BY <1>1, Invariance, PTL

(* A byte comes most significant bit first in every mode. *)
THEOREM TopBits == Spec => []TopBitsFirst
<1>1. IInv => TopBitsFirst
  BY DEF IInv
<1>2. QED
  BY <1>1, Invariance, PTL

(* What ByteAssembler::Feed assembles is what PackByte was given, whatever  *)
(* the lanes that nobody drives show.                                       *)
THEOREM WholeBytes == Spec => []RoundTrip
<1>1. IInv => RoundTrip
  BY DEF IInv
<1>2. QED
  BY <1>1, Invariance, PTL

(* An in-band reset is one to a reader in any mode. *)
THEOREM ResetReads == Spec => []ResetReadsInAnyMode
<1>1. IInv => ResetReadsInAnyMode
  <2> SUFFICES ASSUME IInv, sent.bytes[1] = 255, out # << >> PROVE out[1] = 255
    BY DEF ResetReadsInAnyMode
  <2>1. out \in Seq(Byte)
    BY DEF IInv, TypeOK
  <2>2. 1 \in DOMAIN out
    BY <2>1
  <2>3. QED
    BY <2>2 DEF IInv, OnesSoFar
<1>2. QED
  BY <1>1, Invariance, PTL

(* No other command of the tables is taken for a reset, in whatever mode it *)
(* is read.                                                                 *)
THEOREM OnlyResetReads == Spec => []NothingElseReadsAsReset
<1>1. IInv => NothingElseReadsAsReset
  <2> SUFFICES ASSUME IInv, sent.phase = "Command", KnownOpcode(sent.bytes[1]),
                      sent.bytes[1] # 255, out # << >>
               PROVE  out[1] # 255
    BY DEF NothingElseReadsAsReset
  <2>1. CASE mode # sent.mode
    BY <2>1 DEF IInv, NeverFull, Misread
  <2>2. CASE mode = sent.mode
    <3>1. out \in Seq(Byte)
      BY DEF IInv, TypeOK
    <3>2. 1 \in DOMAIN out
      BY <3>1
    <3>3. QED
      BY <2>2, <3>2 DEF IInv, RoundTrip
  <2>3. QED
    BY <2>1, <2>2
<1>2. QED
  BY <1>1, Invariance, PTL
=============================================================================
