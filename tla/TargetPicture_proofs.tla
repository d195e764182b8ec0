------------------------ MODULE TargetPicture_proofs -------------------------
(***************************************************************************)
(* Proofs that the rows tell the truth of the line watched and that the    *)
(* session follows the general register, for any lines, interrupts, wires, *)
(* addresses and values, through any sequence of transactions.             *)
(***************************************************************************)
EXTENDS TargetPicture, TLAPS

-----------------------------------------------------------------------------
(* Rows *)

(* A row is about its line and says its level. *)
LEMMA RowSays ==
    ASSUME NEW about, NEW level \in BOOLEAN
    PROVE  Row(about, level).line = about /\ (Row(about, level).level <=> level)
BY DEF Row

(* Rows that agree on the line watched are heard. *)
LEMMA Heard ==
    ASSUME NEW rows, NEW level \in BOOLEAN,
           \E row \in rows : row.line = line,
           \A row \in rows : row.line = line => (row.level <=> level)
    PROVE  Hearing(rows) = LevelText(level)
<1> DEFINE heard == CHOOSE row \in rows : row.line = line
<1>1. heard \in rows /\ heard.line = line
  OBVIOUS
<1> HIDE DEF heard
<1>2. heard.level <=> level
  BY <1>1
<1>3. Hearing(rows) = LevelText(heard.level)
  BY DEF Hearing, heard
<1>4. QED
  BY <1>2, <1>3 DEF LevelText

(* Rows about other lines are no news. *)
LEMMA Unheard ==
    ASSUME NEW rows, \A row \in rows : row.line # line
    PROVE  Hearing(rows) = told
BY DEF Hearing

(* Interrupts, wires and register bits are told apart. *)
LEMMA LinesDiffer ==
    ASSUME NEW a, NEW b, NEW c, NEW d, NEW e
    PROVE  /\ Irq(a) # Wire(b, c) /\ Irq(a) # RegisterBit(d, e)
           /\ Wire(b, c) # RegisterBit(d, e)
           /\ Wire(b, c) = Wire(d, e) <=> b = d /\ c = e
           /\ RegisterBit(b, c) = RegisterBit(d, e) <=> b = d /\ c = e
<1>1. Irq(a)[1] = "irq" /\ Wire(b, c)[1] = "wire" /\ RegisterBit(d, e)[1] = "register"
  BY DEF Irq, Wire, RegisterBit
<1>2. Wire(b, c) = Wire(d, e) <=> b = d /\ c = e
  BY DEF Wire
<1>3. RegisterBit(b, c) = RegisterBit(d, e) <=> b = d /\ c = e
  BY DEF RegisterBit
<1>4. QED
  BY <1>1, <1>2, <1>3

-----------------------------------------------------------------------------
(* Virtual wires *)

(* What a group holds, by its index. *)
LEMMA GroupFormats ==
    ASSUME NEW index \in Byte
    PROVE  /\ index < 2 => LookupVwireIndex(index).format = "Interrupt"
           /\ index \in 2..7 \/ index > 127 => LookupVwireIndex(index).format = "ValidLevel"
           /\ index \in 8..127 => LookupVwireIndex(index).format = "NotDefined"
<1> DEFINE range == LookupVwireIndex(index)
<1>1. \E r \in WireRanges : index \in r.first..r.last
  BY DEF WireRanges, IndexRange, Byte
<1>2. range \in WireRanges /\ index \in range.first..range.last
  BY <1>1 DEF LookupVwireIndex
<1> HIDE DEF range
<1>3. /\ index < 2 => range.format = "Interrupt"
      /\ index \in 2..7 \/ index > 127 => range.format = "ValidLevel"
      /\ index \in 8..127 => range.format = "NotDefined"
  BY <1>2 DEF WireRanges, IndexRange, Byte
<1>4. QED
  BY <1>3 DEF range

(* Four bits make a nibble. *)
LEMMA NibbleBits ==
    ASSUME NEW bits \in SUBSET LevelBits
    PROVE  /\ Nibble(bits) \in 0..15
           /\ \A bit \in LevelBits : Bit(Nibble(bits), bit) <=> bit \in bits
<1> DEFINE worth(b, n) == IF b \in bits THEN n ELSE 0
           total == worth(0, 1) + worth(1, 2) + worth(2, 4) + worth(3, 8)
<1>1. total \in 0..15
  OBVIOUS
<1>2. /\ Bit(total, 0) <=> 0 \in bits
      /\ Bit(total, 1) <=> 1 \in bits
      /\ Bit(total, 2) <=> 2 \in bits
      /\ Bit(total, 3) <=> 3 \in bits
  BY DEF Bit
<1> HIDE DEF total
<1>3. \A bit \in LevelBits : Bit(total, bit) <=> bit \in bits
  BY <1>2 DEF LevelBits
<1>4. \E n \in 0..15 : \A bit \in LevelBits : Bit(n, bit) <=> bit \in bits
  BY <1>1, <1>3, Zenon
<1>5. QED
  BY <1>4, Zenon DEF Nibble

(* A group's byte has the levels in its low half and the valid bits in its  *)
(* high half.                                                               *)
LEMMA TwoNibbles ==
    ASSUME NEW low \in 0..15, NEW high \in 0..15
    PROVE  \A bit \in LevelBits : /\ Bit(low + 16 * high, bit) <=> Bit(low, bit)
                                  /\ Bit(low + 16 * high, VwireValidBitFor(bit)) <=> Bit(high, bit)
<1> DEFINE data == low + 16 * high
<1>1. /\ Bit(data, 0) <=> Bit(low, 0)
      /\ Bit(data, 1) <=> Bit(low, 1)
      /\ Bit(data, 2) <=> Bit(low, 2)
      /\ Bit(data, 3) <=> Bit(low, 3)
  BY DEF Bit
<1>2. /\ Bit(data, 4) <=> Bit(high, 0)
      /\ Bit(data, 5) <=> Bit(high, 1)
      /\ Bit(data, 6) <=> Bit(high, 2)
      /\ Bit(data, 7) <=> Bit(high, 3)
  BY DEF Bit
<1> HIDE DEF data
<1>3. \A bit \in LevelBits : Bit(data, bit) <=> Bit(low, bit)
  BY <1>1 DEF LevelBits
<1>4. \A bit \in LevelBits : Bit(data, VwireValidBitFor(bit)) <=> Bit(high, bit)
  BY <1>2 DEF LevelBits, VwireValidBitFor
<1>5. QED
  BY <1>3, <1>4 DEF data

(* An interrupt's row says which and what level was sent. *)
LEMMA InterruptRow ==
    ASSUME NEW irq \in Byte, NEW level \in BOOLEAN
    PROVE  GroupRows(irq \div 128, (irq % 128) + IF level THEN 128 ELSE 0) = {Row(Irq(irq), level)}
<1> DEFINE index == irq \div 128
           data  == (irq % 128) + IF level THEN 128 ELSE 0
<1>1. index \in Byte /\ index < 2 /\ data \in Byte
  BY DEF Byte
<1>2. VwireIrqNumber(index, data) = irq
  BY DEF VwireIrqNumber, Byte
<1>3. Bit(data, 7) <=> level
  BY DEF Bit, Byte
<1>4. Bit(data, 7) = level
  BY <1>3, Zenon DEF Bit
<1> HIDE DEF index, data
<1>5. GroupRows(index, data) = InterruptRows(index, data)
  BY <1>1, GroupFormats DEF GroupRows
<1>6. QED
  BY <1>2, <1>4, <1>5 DEF InterruptRows, index, data

(* The wires that rows are made of: the reserved, and those of the ranges   *)
(* no table defines, have none.                                             *)
ShownWires ==
    {Wire(index, bit) : index \in 2..7 \cup 128..255, bit \in LevelBits} \ ReservedWires

(* Of a group of wires the valid ones have rows, which say the level sent.  *)
LEMMA WireRowsSay ==
    ASSUME NEW index \in 2..255, NEW valid \in SUBSET LevelBits, NEW levels \in SUBSET LevelBits
    PROVE  LET rows == GroupRows(index, Nibble(levels) + 16 * Nibble(valid))
           IN  /\ \A row \in rows : \E bit \in valid :
                      /\ row.line = Wire(index, bit) /\ row.line \in ShownWires
                      /\ row.level <=> bit \in levels
               /\ \A bit \in valid : Wire(index, bit) \in ShownWires =>
                      \E row \in rows : row.line = Wire(index, bit)
<1> DEFINE data == Nibble(levels) + 16 * Nibble(valid)
           rows == GroupRows(index, data)
<1>1. \A bit \in LevelBits : /\ Bit(data, bit) <=> bit \in levels
                             /\ Bit(data, VwireValidBitFor(bit)) <=> bit \in valid
  <2>1. Nibble(levels) \in 0..15 /\ Nibble(valid) \in 0..15
    BY NibbleBits
  <2>2. \A bit \in LevelBits : /\ Bit(data, bit) <=> Bit(Nibble(levels), bit)
                               /\ Bit(data, VwireValidBitFor(bit)) <=> Bit(Nibble(valid), bit)
    BY <2>1, TwoNibbles
  <2>3. QED
    BY <2>2, NibbleBits
<1> HIDE DEF data
<1>2. index \in Byte
  BY DEF Byte
<1>3. CASE index \in 8..127
  <2>1. rows = {}
    BY <1>2, <1>3, GroupFormats DEF GroupRows
  <2>2. \A bit \in LevelBits : Wire(index, bit) \notin ShownWires
    <3>1. ASSUME NEW bit \in LevelBits, NEW i \in 2..7 \cup 128..255, NEW b \in LevelBits,
                 Wire(index, bit) = Wire(i, b)
          PROVE  FALSE
      <4>1. index = i
        BY <3>1, LinesDiffer
      <4>2. QED
        BY <1>3, <4>1
    <3>2. QED
      BY <3>1 DEF ShownWires
  <2>3. QED
    BY <2>1, <2>2 DEF data
<1>4. CASE index \in 2..7 \cup 128..255
  <2>1. rows = WireRows(index, data)
    BY <1>2, <1>4, GroupFormats DEF GroupRows
  <2>2. \A bit \in LevelBits :
            Wire(index, bit) \in ShownWires <=> Wire(index, bit) \notin ReservedWires
    BY <1>4 DEF ShownWires
  <2>3. ASSUME NEW row \in rows
        PROVE  \E bit \in valid : /\ row.line = Wire(index, bit) /\ row.line \in ShownWires
                                  /\ row.level <=> bit \in levels
    <3>1. PICK bit \in LevelBits : /\ row = Row(Wire(index, bit), Bit(data, bit))
                                   /\ Wire(index, bit) \notin ReservedWires
                                   /\ Bit(data, VwireValidBitFor(bit))
      BY <2>1, <2>3 DEF WireRows
    <3>2. row.line = Wire(index, bit) /\ (row.level <=> Bit(data, bit))
      BY <3>1 DEF Row
    <3>3. bit \in valid
      BY <1>1, <3>1
    <3>4. QED
      BY <1>1, <2>2, <3>1, <3>2, <3>3
  <2>4. ASSUME NEW bit \in valid, Wire(index, bit) \in ShownWires
        PROVE  \E row \in rows : row.line = Wire(index, bit)
    <3>1. bit \in LevelBits /\ Bit(data, VwireValidBitFor(bit))
      BY <1>1
    <3>2. Row(Wire(index, bit), Bit(data, bit)) \in rows
      BY <2>1, <2>2, <2>4, <3>1 DEF WireRows
    <3>3. QED
      BY <3>2 DEF Row
  <2>5. QED
    BY <2>3, <2>4 DEF data
<1>5. QED
  BY <1>3, <1>4

-----------------------------------------------------------------------------
(* Configuration registers *)

(* A value below 2^12, in DWords. *)
LEMMA Aligned ==
    ASSUME NEW address \in Nat
    PROVE  /\ Reached(address) = ConfigRegisterOf(address)
           /\ address < 4096 /\ address % 4 = 0 => Reached(address) = address
           /\ address % 4 = 0 => (IsGeneralConfigAddress(address) <=> Reached(address) = 8)
           /\ IsGeneralConfigAddress(address) => Reached(address) = 8
BY DEF Reached, ConfigRegisterOf, SelectedBy, IsGeneralConfigAddress

(* A decoded address is that of a register with a layout. *)
LEMMA DecodedAddress ==
    ASSUME NEW address \in Nat, ClassifyConfigAddress(address) = "Decoded"
    PROVE  Reached(address) = address /\ address \in DOMAIN ConfigFields
<1>1. address < 4096 /\ address % 4 = 0 /\ HasLayout(address)
  BY DEF ClassifyConfigAddress
<1>2. QED
  BY <1>1, Aligned DEF HasLayout

(* The bits a field is of. *)
Spans(field, high, low) == field.high = high /\ field.low = low

(* They are the two numbers it is stated with. *)
LEMMA FieldSpans ==
    /\ \A name, high, low, access, default :
           Spans(ConfigField(name, high, low, access, default), high, low)
    /\ \A high, low, n : Spans(RW(high, low, n), high, low)
    /\ \A high, low : Spans(RO(high, low), high, low) /\ Spans(ReservedField(high, low), high, low)
    /\ \A bit : Spans(Ready(bit), bit, bit)
BY DEF ConfigField, RW, RO, ReservedField, Ready, Spans

(* Field i of a register, one of those decoded. *)
FieldAt(offset, i, high, low) ==
    /\ i \in DOMAIN ConfigFields[offset] \cap 1..FieldCapacity
    /\ Spans(ConfigFields[offset][i], high, low)

(* A field of those decoded has the bit. *)
HasField(offset, bit) ==
    \E i \in DOMAIN ConfigFields[offset] \cap 1..FieldCapacity : bit \in BitsOf(ConfigFields[offset][i])

(* The bits of a field have one. *)
LEMMA FieldHasBits ==
    ASSUME NEW offset, NEW i, NEW high, NEW low, FieldAt(offset, i, high, low)
    PROVE  \A bit \in low..high : HasField(offset, bit)
BY SMTT(30) DEF FieldAt, HasField, Spans, BitsOf

(* The fields of a register are of its bits, leave out none of them, and    *)
(* all of them are decoded.                                                 *)
LEMMA Tiled ==
    ASSUME NEW offset \in DOMAIN ConfigFields
    PROVE  /\ \A bit \in DWordBits : HasField(offset, bit)
           /\ \A i \in DOMAIN ConfigFields[offset] :
                  ConfigFields[offset][i].low \in DWordBits /\ ConfigFields[offset][i].high \in DWordBits
<1>1. CASE offset = 4
  <2>1. DOMAIN ConfigFields[4] \cap 1..FieldCapacity = 1..2
    BY DEF ConfigFields, FieldCapacity
  <2>2. /\ Spans(ConfigFields[4][1], 31, 8) /\ Spans(ConfigFields[4][2], 7, 0)
    <3>1. /\ ConfigFields[4][2] = ConfigField("VersionId", 7, 0, "RO", Value(1))
      BY DEF ConfigFields
    <3>2. /\ Spans(ConfigFields[4][2], 7, 0)
      BY <3>1, FieldSpans
    <3>3. /\ Spans(ConfigFields[4][1], 31, 8)
      BY FieldSpans DEF ConfigFields
    <3>4. QED
      BY <3>2, <3>3
  <2>3. /\ FieldAt(4, 1, 31, 8) /\ FieldAt(4, 2, 7, 0)
    BY <2>1, <2>2 DEF FieldAt
  <2>4. \A bit \in DWordBits : HasField(4, bit)
    BY <2>3, FieldHasBits DEF DWordBits
  <2>5. \A i \in 1..2 :
            ConfigFields[4][i].low \in DWordBits /\ ConfigFields[4][i].high \in DWordBits
    BY <2>2 DEF Spans, DWordBits
  <2>6. DOMAIN ConfigFields[4] = 1..2
    BY DEF ConfigFields
  <2>7. QED
    BY <1>1, <2>4, <2>5, <2>6
<1>2. CASE offset = 8
  <2>1. DOMAIN ConfigFields[8] \cap 1..FieldCapacity = 1..13
    BY DEF ConfigFields, FieldCapacity
  <2>2. /\ Spans(ConfigFields[8][1], 31, 31) /\ Spans(ConfigFields[8][2], 30, 30)
        /\ Spans(ConfigFields[8][3], 29, 29) /\ Spans(ConfigFields[8][4], 28, 28)
        /\ Spans(ConfigFields[8][5], 27, 26) /\ Spans(ConfigFields[8][6], 25, 24)
        /\ Spans(ConfigFields[8][7], 23, 23) /\ Spans(ConfigFields[8][8], 22, 20)
        /\ Spans(ConfigFields[8][9], 19, 19) /\ Spans(ConfigFields[8][10], 18, 16)
        /\ Spans(ConfigFields[8][11], 15, 12) /\ Spans(ConfigFields[8][12], 11, 8)
        /\ Spans(ConfigFields[8][13], 7, 0)
    <3>1. /\ ConfigFields[8][1] = ConfigField("CrcCheckingEnable", 31, 31, "RW", Value(0))
          /\ ConfigFields[8][5] = ConfigField("IoModeSelect", 27, 26, "RW", Value(0))
          /\ ConfigFields[8][7] = ConfigField("Other", 23, 23, "RW", NoDefault)
      BY DEF ConfigFields
    <3>2. /\ Spans(ConfigFields[8][1], 31, 31)
          /\ Spans(ConfigFields[8][5], 27, 26)
          /\ Spans(ConfigFields[8][7], 23, 23)
      BY <3>1, FieldSpans
    <3>3. /\ Spans(ConfigFields[8][2], 30, 30) /\ Spans(ConfigFields[8][3], 29, 29)
          /\ Spans(ConfigFields[8][4], 28, 28) /\ Spans(ConfigFields[8][6], 25, 24)
          /\ Spans(ConfigFields[8][8], 22, 20) /\ Spans(ConfigFields[8][9], 19, 19)
          /\ Spans(ConfigFields[8][10], 18, 16) /\ Spans(ConfigFields[8][11], 15, 12)
          /\ Spans(ConfigFields[8][12], 11, 8) /\ Spans(ConfigFields[8][13], 7, 0)
      BY FieldSpans DEF ConfigFields
    <3>4. QED
      BY <3>2, <3>3
  <2>3. /\ FieldAt(8, 1, 31, 31) /\ FieldAt(8, 2, 30, 30)
        /\ FieldAt(8, 3, 29, 29) /\ FieldAt(8, 4, 28, 28)
        /\ FieldAt(8, 5, 27, 26) /\ FieldAt(8, 6, 25, 24)
        /\ FieldAt(8, 7, 23, 23) /\ FieldAt(8, 8, 22, 20)
        /\ FieldAt(8, 9, 19, 19) /\ FieldAt(8, 10, 18, 16)
        /\ FieldAt(8, 11, 15, 12) /\ FieldAt(8, 12, 11, 8)
        /\ FieldAt(8, 13, 7, 0)
    BY <2>1, <2>2 DEF FieldAt
  <2>4. \A bit \in DWordBits : HasField(8, bit)
    BY <2>3, FieldHasBits DEF DWordBits
  <2>5. \A i \in 1..13 :
            ConfigFields[8][i].low \in DWordBits /\ ConfigFields[8][i].high \in DWordBits
    BY <2>2 DEF Spans, DWordBits
  <2>6. DOMAIN ConfigFields[8] = 1..13
    BY DEF ConfigFields
  <2>7. QED
    BY <1>2, <2>4, <2>5, <2>6
<1>3. CASE offset = 16
  <2>1. DOMAIN ConfigFields[16] \cap 1..FieldCapacity = 1..10
    BY DEF ConfigFields, FieldCapacity
  <2>2. /\ Spans(ConfigFields[16][1], 31, 15) /\ Spans(ConfigFields[16][2], 14, 12)
        /\ Spans(ConfigFields[16][3], 11, 11) /\ Spans(ConfigFields[16][4], 10, 8)
        /\ Spans(ConfigFields[16][5], 7, 7) /\ Spans(ConfigFields[16][6], 6, 4)
        /\ Spans(ConfigFields[16][7], 3, 3) /\ Spans(ConfigFields[16][8], 2, 2)
        /\ Spans(ConfigFields[16][9], 1, 1) /\ Spans(ConfigFields[16][10], 0, 0)
    BY FieldSpans DEF ConfigFields
  <2>3. /\ FieldAt(16, 1, 31, 15) /\ FieldAt(16, 2, 14, 12)
        /\ FieldAt(16, 3, 11, 11) /\ FieldAt(16, 4, 10, 8)
        /\ FieldAt(16, 5, 7, 7) /\ FieldAt(16, 6, 6, 4)
        /\ FieldAt(16, 7, 3, 3) /\ FieldAt(16, 8, 2, 2)
        /\ FieldAt(16, 9, 1, 1) /\ FieldAt(16, 10, 0, 0)
    BY <2>1, <2>2 DEF FieldAt
  <2>4. \A bit \in DWordBits : HasField(16, bit)
    BY <2>3, FieldHasBits DEF DWordBits
  <2>5. \A i \in 1..10 :
            ConfigFields[16][i].low \in DWordBits /\ ConfigFields[16][i].high \in DWordBits
    BY <2>2 DEF Spans, DWordBits
  <2>6. DOMAIN ConfigFields[16] = 1..10
    BY DEF ConfigFields
  <2>7. QED
    BY <1>3, <2>4, <2>5, <2>6
<1>4. CASE offset = 32
  <2>1. DOMAIN ConfigFields[32] \cap 1..FieldCapacity = 1..7
    BY DEF ConfigFields, FieldCapacity
  <2>2. /\ Spans(ConfigFields[32][1], 31, 22) /\ Spans(ConfigFields[32][2], 21, 16)
        /\ Spans(ConfigFields[32][3], 15, 14) /\ Spans(ConfigFields[32][4], 13, 8)
        /\ Spans(ConfigFields[32][5], 7, 2) /\ Spans(ConfigFields[32][6], 1, 1)
        /\ Spans(ConfigFields[32][7], 0, 0)
    BY FieldSpans DEF ConfigFields
  <2>3. /\ FieldAt(32, 1, 31, 22) /\ FieldAt(32, 2, 21, 16)
        /\ FieldAt(32, 3, 15, 14) /\ FieldAt(32, 4, 13, 8)
        /\ FieldAt(32, 5, 7, 2) /\ FieldAt(32, 6, 1, 1)
        /\ FieldAt(32, 7, 0, 0)
    BY <2>1, <2>2 DEF FieldAt
  <2>4. \A bit \in DWordBits : HasField(32, bit)
    BY <2>3, FieldHasBits DEF DWordBits
  <2>5. \A i \in 1..7 :
            ConfigFields[32][i].low \in DWordBits /\ ConfigFields[32][i].high \in DWordBits
    BY <2>2 DEF Spans, DWordBits
  <2>6. DOMAIN ConfigFields[32] = 1..7
    BY DEF ConfigFields
  <2>7. QED
    BY <1>4, <2>4, <2>5, <2>6
<1>5. CASE offset = 48
  <2>1. DOMAIN ConfigFields[48] \cap 1..FieldCapacity = 1..7
    BY DEF ConfigFields, FieldCapacity
  <2>2. /\ Spans(ConfigFields[48][1], 31, 11) /\ Spans(ConfigFields[48][2], 10, 8)
        /\ Spans(ConfigFields[48][3], 7, 7) /\ Spans(ConfigFields[48][4], 6, 4)
        /\ Spans(ConfigFields[48][5], 3, 2) /\ Spans(ConfigFields[48][6], 1, 1)
        /\ Spans(ConfigFields[48][7], 0, 0)
    BY FieldSpans DEF ConfigFields
  <2>3. /\ FieldAt(48, 1, 31, 11) /\ FieldAt(48, 2, 10, 8)
        /\ FieldAt(48, 3, 7, 7) /\ FieldAt(48, 4, 6, 4)
        /\ FieldAt(48, 5, 3, 2) /\ FieldAt(48, 6, 1, 1)
        /\ FieldAt(48, 7, 0, 0)
    BY <2>1, <2>2 DEF FieldAt
  <2>4. \A bit \in DWordBits : HasField(48, bit)
    BY <2>3, FieldHasBits DEF DWordBits
  <2>5. \A i \in 1..7 :
            ConfigFields[48][i].low \in DWordBits /\ ConfigFields[48][i].high \in DWordBits
    BY <2>2 DEF Spans, DWordBits
  <2>6. DOMAIN ConfigFields[48] = 1..7
    BY DEF ConfigFields
  <2>7. QED
    BY <1>5, <2>4, <2>5, <2>6
<1>6. CASE offset = 64
  <2>1. DOMAIN ConfigFields[64] \cap 1..FieldCapacity = 1..12
    BY DEF ConfigFields, FieldCapacity
  <2>2. /\ Spans(ConfigFields[64][1], 31, 24) /\ Spans(ConfigFields[64][2], 23, 20)
        /\ Spans(ConfigFields[64][3], 19, 18) /\ Spans(ConfigFields[64][4], 17, 16)
        /\ Spans(ConfigFields[64][5], 15, 15) /\ Spans(ConfigFields[64][6], 14, 12)
        /\ Spans(ConfigFields[64][7], 11, 11) /\ Spans(ConfigFields[64][8], 10, 8)
        /\ Spans(ConfigFields[64][9], 7, 5) /\ Spans(ConfigFields[64][10], 4, 2)
        /\ Spans(ConfigFields[64][11], 1, 1) /\ Spans(ConfigFields[64][12], 0, 0)
    <3>1. /\ ConfigFields[64][7] = ConfigField("FlashSharingMode", 11, 11, "RwOrRo", NoDefault)
      BY DEF ConfigFields
    <3>2. /\ Spans(ConfigFields[64][7], 11, 11)
      BY <3>1, FieldSpans
    <3>3. /\ Spans(ConfigFields[64][1], 31, 24) /\ Spans(ConfigFields[64][2], 23, 20)
          /\ Spans(ConfigFields[64][3], 19, 18) /\ Spans(ConfigFields[64][4], 17, 16)
          /\ Spans(ConfigFields[64][5], 15, 15) /\ Spans(ConfigFields[64][6], 14, 12)
          /\ Spans(ConfigFields[64][8], 10, 8) /\ Spans(ConfigFields[64][9], 7, 5)
          /\ Spans(ConfigFields[64][10], 4, 2) /\ Spans(ConfigFields[64][11], 1, 1)
          /\ Spans(ConfigFields[64][12], 0, 0)
      BY FieldSpans DEF ConfigFields
    <3>4. QED
      BY <3>2, <3>3
  <2>3. /\ FieldAt(64, 1, 31, 24) /\ FieldAt(64, 2, 23, 20)
        /\ FieldAt(64, 3, 19, 18) /\ FieldAt(64, 4, 17, 16)
        /\ FieldAt(64, 5, 15, 15) /\ FieldAt(64, 6, 14, 12)
        /\ FieldAt(64, 7, 11, 11) /\ FieldAt(64, 8, 10, 8)
        /\ FieldAt(64, 9, 7, 5) /\ FieldAt(64, 10, 4, 2)
        /\ FieldAt(64, 11, 1, 1) /\ FieldAt(64, 12, 0, 0)
    BY <2>1, <2>2 DEF FieldAt
  <2>4. \A bit \in DWordBits : HasField(64, bit)
    BY <2>3, FieldHasBits DEF DWordBits
  <2>5. \A i \in 1..12 :
            ConfigFields[64][i].low \in DWordBits /\ ConfigFields[64][i].high \in DWordBits
    BY <2>2 DEF Spans, DWordBits
  <2>6. DOMAIN ConfigFields[64] = 1..12
    BY DEF ConfigFields
  <2>7. QED
    BY <1>6, <2>4, <2>5, <2>6
<1>7. CASE offset = 68
  <2>1. DOMAIN ConfigFields[68] \cap 1..FieldCapacity = 1..6
    BY DEF ConfigFields, FieldCapacity
  <2>2. /\ Spans(ConfigFields[68][1], 31, 24) /\ Spans(ConfigFields[68][2], 23, 22)
        /\ Spans(ConfigFields[68][3], 21, 16) /\ Spans(ConfigFields[68][4], 15, 8)
        /\ Spans(ConfigFields[68][5], 7, 3) /\ Spans(ConfigFields[68][6], 2, 0)
    BY FieldSpans DEF ConfigFields
  <2>3. /\ FieldAt(68, 1, 31, 24) /\ FieldAt(68, 2, 23, 22)
        /\ FieldAt(68, 3, 21, 16) /\ FieldAt(68, 4, 15, 8)
        /\ FieldAt(68, 5, 7, 3) /\ FieldAt(68, 6, 2, 0)
    BY <2>1, <2>2 DEF FieldAt
  <2>4. \A bit \in DWordBits : HasField(68, bit)
    BY <2>3, FieldHasBits DEF DWordBits
  <2>5. \A i \in 1..6 :
            ConfigFields[68][i].low \in DWordBits /\ ConfigFields[68][i].high \in DWordBits
    BY <2>2 DEF Spans, DWordBits
  <2>6. DOMAIN ConfigFields[68] = 1..6
    BY DEF ConfigFields
  <2>7. QED
    BY <1>7, <2>4, <2>5, <2>6
<1>8. CASE offset = 72
  <2>1. DOMAIN ConfigFields[72] \cap 1..FieldCapacity = 1..3
    BY DEF ConfigFields, FieldCapacity
  <2>2. /\ Spans(ConfigFields[72][1], 31, 24) /\ Spans(ConfigFields[72][2], 23, 20)
        /\ Spans(ConfigFields[72][3], 19, 0)
    BY FieldSpans DEF ConfigFields
  <2>3. /\ FieldAt(72, 1, 31, 24) /\ FieldAt(72, 2, 23, 20)
        /\ FieldAt(72, 3, 19, 0)
    BY <2>1, <2>2 DEF FieldAt
  <2>4. \A bit \in DWordBits : HasField(72, bit)
    BY <2>3, FieldHasBits DEF DWordBits
  <2>5. \A i \in 1..3 :
            ConfigFields[72][i].low \in DWordBits /\ ConfigFields[72][i].high \in DWordBits
    BY <2>2 DEF Spans, DWordBits
  <2>6. DOMAIN ConfigFields[72] = 1..3
    BY DEF ConfigFields
  <2>7. QED
    BY <1>8, <2>4, <2>5, <2>6
<1>9. CASE offset = 76
  <2>1. DOMAIN ConfigFields[76] \cap 1..FieldCapacity = 1..6
    BY DEF ConfigFields, FieldCapacity
  <2>2. /\ Spans(ConfigFields[76][1], 31, 24) /\ Spans(ConfigFields[76][2], 23, 20)
        /\ Spans(ConfigFields[76][3], 19, 16) /\ Spans(ConfigFields[76][4], 15, 8)
        /\ Spans(ConfigFields[76][5], 7, 4) /\ Spans(ConfigFields[76][6], 3, 0)
    BY FieldSpans DEF ConfigFields
  <2>3. /\ FieldAt(76, 1, 31, 24) /\ FieldAt(76, 2, 23, 20)
        /\ FieldAt(76, 3, 19, 16) /\ FieldAt(76, 4, 15, 8)
        /\ FieldAt(76, 5, 7, 4) /\ FieldAt(76, 6, 3, 0)
    BY <2>1, <2>2 DEF FieldAt
  <2>4. \A bit \in DWordBits : HasField(76, bit)
    BY <2>3, FieldHasBits DEF DWordBits
  <2>5. \A i \in 1..6 :
            ConfigFields[76][i].low \in DWordBits /\ ConfigFields[76][i].high \in DWordBits
    BY <2>2 DEF Spans, DWordBits
  <2>6. DOMAIN ConfigFields[76] = 1..6
    BY DEF ConfigFields
  <2>7. QED
    BY <1>9, <2>4, <2>5, <2>6
<1>10. QED
  BY <1>1, <1>2, <1>3, <1>4, <1>5, <1>6, <1>7, <1>8, <1>9 DEF ConfigFields

(* The rows of a decoded register are about its bits, each of them has one, *)
(* and they say what is in the value. Another address has none.             *)
LEMMA RegisterRowsSay ==
    ASSUME NEW address \in Nat, NEW value \in SUBSET DWordBits
    PROVE  /\ \A row \in RegisterRows(address, value) : \E bit \in DWordBits :
                  row.line = RegisterBit(address, bit) /\ (row.level <=> bit \in value)
           /\ ClassifyConfigAddress(address) = "Decoded" =>
                  \A bit \in DWordBits : \E row \in RegisterRows(address, value) :
                      row.line = RegisterBit(address, bit)
           /\ ClassifyConfigAddress(address) # "Decoded" => RegisterRows(address, value) = {}
<1>1. ClassifyConfigAddress(address) # "Decoded" => RegisterRows(address, value) = {}
  BY DEF RegisterRows
<1>2. SUFFICES ASSUME ClassifyConfigAddress(address) = "Decoded"
               PROVE  /\ \A row \in RegisterRows(address, value) : \E bit \in DWordBits :
                             row.line = RegisterBit(address, bit) /\ (row.level <=> bit \in value)
                      /\ \A bit \in DWordBits : \E row \in RegisterRows(address, value) :
                             row.line = RegisterBit(address, bit)
  BY <1>1
<1>3. address \in DOMAIN ConfigFields
  BY <1>2, DecodedAddress
<1> DEFINE decoded  == DOMAIN ConfigFields[address] \cap 1..FieldCapacity
           field(i) == ConfigFields[address][i]
<1>4. RegisterRows(address, value) = UNION {FieldRows(address, value, field(i)) : i \in decoded}
  BY <1>2 DEF RegisterRows
<1>5. \A i \in decoded : field(i).low \in DWordBits /\ field(i).high \in DWordBits
  BY <1>3, Tiled
<1>6. ASSUME NEW i \in decoded, NEW bit \in 0..field(i).high - field(i).low
      PROVE  /\ field(i).low + bit \in DWordBits
             /\ bit \in Extract(value, field(i)) <=> field(i).low + bit \in value
  <2>1. field(i).low \in Nat /\ field(i).high \in 0..31
    BY <1>5 DEF DWordBits
  <2>2. field(i).low + bit \in DWordBits /\ field(i).low + bit \in field(i).low..field(i).high
    BY <2>1 DEF DWordBits
  <2>3. ASSUME bit \in Extract(value, field(i))
        PROVE  field(i).low + bit \in value
    <3>1. PICK b \in value : bit = b - field(i).low
      BY <2>3 DEF Extract
    <3>2. field(i).low + bit = b
      BY <2>1, <3>1 DEF DWordBits
    <3>3. QED
      BY <3>1, <3>2
  <2>4. ASSUME field(i).low + bit \in value
        PROVE  bit \in Extract(value, field(i))
    <3>1. bit = (field(i).low + bit) - field(i).low
      BY <2>1
    <3>2. field(i).low + bit \in value \cap BitsOf(field(i))
      BY <2>2, <2>4 DEF BitsOf
    <3>3. QED
      BY <3>1, <3>2 DEF Extract
  <2>5. QED
    BY <2>2, <2>3, <2>4
<1>7. ASSUME NEW row \in RegisterRows(address, value)
      PROVE  \E bit \in DWordBits :
                 row.line = RegisterBit(address, bit) /\ (row.level <=> bit \in value)
  <2>1. PICK i \in decoded : row \in FieldRows(address, value, field(i))
    BY <1>4, <1>7
  <2>2. PICK bit \in 0..field(i).high - field(i).low :
            row = Row(RegisterBit(address, field(i).low + bit), bit \in Extract(value, field(i)))
    BY <2>1 DEF FieldRows
  <2>3. /\ row.line = RegisterBit(address, field(i).low + bit)
        /\ row.level <=> bit \in Extract(value, field(i))
    BY <2>2 DEF Row
  <2>4. QED
    BY <1>6, <2>3
<1>8. ASSUME NEW bit \in DWordBits
      PROVE  \E row \in RegisterRows(address, value) : row.line = RegisterBit(address, bit)
  <2>1. PICK i \in decoded : bit \in BitsOf(field(i))
    BY <1>3, Tiled DEF HasField
  <2>2. PICK b \in 0..field(i).high - field(i).low : bit = field(i).low + b
    <3>1. /\ field(i).low \in Nat /\ field(i).high \in Nat
          /\ bit \in field(i).low..field(i).high
      BY <1>5, <2>1 DEF DWordBits, BitsOf
    <3>2. bit - field(i).low \in 0..field(i).high - field(i).low
      BY <3>1
    <3>3. bit = field(i).low + (bit - field(i).low)
      BY <3>1
    <3>4. QED
      BY <3>2, <3>3
  <2>3. Row(RegisterBit(address, bit), b \in Extract(value, field(i)))
            \in RegisterRows(address, value)
    BY <1>4, <2>2 DEF FieldRows
  <2>4. QED
    BY <2>3 DEF Row
<1>9. QED
  BY <1>7, <1>8

(* The bit of a register's line is in a value or not. *)
LEMMA LevelOfBit ==
    ASSUME NEW offset, NEW bit, line = RegisterBit(offset, bit), NEW value
    PROVE  LevelIn(value) <=> bit \in value
<1>1. Len(line) = 3 /\ line[3] = bit
  BY DEF RegisterBit
<1>2. QED
  BY <1>1 DEF LevelIn

(* A register the target reaches through a decoded address is heard of, as  *)
(* it is in the value.                                                      *)
LEMMA HearsRegister ==
    ASSUME NEW address \in Nat, NEW value \in SUBSET DWordBits,
           line \in RegisterLines(address), ClassifyConfigAddress(address) = "Decoded"
    PROVE  Hearing(RegisterRows(address, value)) = LevelText(LevelIn(value))
<1> DEFINE rows == RegisterRows(address, value)
<1>1. PICK bit \in DWordBits : line = RegisterBit(address, bit)
  BY DecodedAddress DEF RegisterLines
<1>2. \E row \in rows : row.line = line
  BY <1>1, RegisterRowsSay
<1>3. ASSUME NEW row \in rows, row.line = line
      PROVE  row.level <=> LevelIn(value)
  <2>1. PICK b \in DWordBits : row.line = RegisterBit(address, b) /\ (row.level <=> b \in value)
    BY RegisterRowsSay
  <2>2. b = bit
    BY <1>1, <1>3, <2>1 DEF RegisterBit
  <2>3. QED
    BY <1>1, <2>1, <2>2, LevelOfBit
<1>4. LevelIn(value) \in BOOLEAN
  BY DEF LevelIn
<1> HIDE DEF rows
<1>5. Hearing(rows) = LevelText(LevelIn(value))
  BY <1>2, <1>3, <1>4, Heard
<1>6. QED
  BY <1>5 DEF rows

(* One that it does not reach is not. *)
LEMMA HearsNoOther ==
    ASSUME NEW address \in Nat, NEW value \in SUBSET DWordBits,
           \/ line \notin RegisterLines(address)
           \/ ClassifyConfigAddress(address) # "Decoded"
    PROVE  Hearing(RegisterRows(address, value)) = told
<1>1. ASSUME NEW row \in RegisterRows(address, value), row.line = line
      PROVE  FALSE
  <2>1. ClassifyConfigAddress(address) = "Decoded"
    BY <1>1, RegisterRowsSay
  <2>2. PICK bit \in DWordBits : line = RegisterBit(address, bit)
    BY <1>1, RegisterRowsSay
  <2>3. line \in RegisterLines(address)
    BY <2>1, <2>2, DecodedAddress DEF RegisterLines
  <2>4. QED
    BY <2>1, <2>3
<1>2. QED
  BY <1>1, Unheard

-----------------------------------------------------------------------------
(* The general register *)

(* A field has the name it is stated with. *)
LEMMA FieldNames ==
    \A name, high, low, access, default :
        ConfigField(name, high, low, access, default).name = name
BY DEF ConfigField

(* Of its fields those with a default start at 0; the two the session goes  *)
(* by are named, and alone have their bits.                                 *)
LEMMA GeneralFields ==
    ASSUME NEW field \in FieldsOf(8)
    PROVE  /\ field.default.stated => field.default.value = 0
           /\ field.name = "CrcCheckingEnable" => Spans(field, 31, 31)
           /\ field.name = "IoModeSelect" => Spans(field, 27, 26)
           /\ \A bit \in {31, 27, 26} : bit \in BitsOf(field) => field.access = "RW"
           /\ field.high \in Nat /\ field.low \in Nat /\ field.high - field.low <= 7
<1>1. DOMAIN ConfigFields[8] = 1..13
  BY DEF ConfigFields
<1>2. PICK i \in 1..13 : field = ConfigFields[8][i]
  BY <1>1 DEF FieldsOf
<1>3. \/ field = ConfigField("CrcCheckingEnable", 31, 31, "RW", Value(0))
      \/ field = ConfigField("IoModeSelect", 27, 26, "RW", Value(0))
      \/ field = ConfigField("Other", 23, 23, "RW", NoDefault)
      \/ field = RW(30, 30, 0) \/ field = RW(28, 28, 0)
      \/ field = RW(22, 20, 0) \/ field = RW(15, 12, 0)
      \/ field = RO(29, 29) \/ field = RO(25, 24) \/ field = RO(19, 19)
      \/ field = RO(18, 16) \/ field = RO(7, 0)
      \/ field = ReservedField(11, 8)
  <2>1. /\ ConfigFields[8][1] = ConfigField("CrcCheckingEnable", 31, 31, "RW", Value(0))
        /\ ConfigFields[8][2] = RW(30, 30, 0)
        /\ ConfigFields[8][3] = RO(29, 29)
        /\ ConfigFields[8][4] = RW(28, 28, 0)
        /\ ConfigFields[8][5] = ConfigField("IoModeSelect", 27, 26, "RW", Value(0))
        /\ ConfigFields[8][6] = RO(25, 24)
        /\ ConfigFields[8][7] = ConfigField("Other", 23, 23, "RW", NoDefault)
    BY DEF ConfigFields
  <2>2. /\ ConfigFields[8][8] = RW(22, 20, 0)
        /\ ConfigFields[8][9] = RO(19, 19)
        /\ ConfigFields[8][10] = RO(18, 16)
        /\ ConfigFields[8][11] = RW(15, 12, 0)
        /\ ConfigFields[8][12] = ReservedField(11, 8)
        /\ ConfigFields[8][13] = RO(7, 0)
    BY DEF ConfigFields
  <2>3. i \in 1..7 \/ i \in 8..13
    OBVIOUS
  <2>4. i \in 1..7 => i \in {1, 2, 3, 4, 5, 6, 7}
    OBVIOUS
  <2>5. i \in 8..13 => i \in {8, 9, 10, 11, 12, 13}
    OBVIOUS
  <2>6. QED
    BY <1>2, <2>1, <2>2, <2>3, <2>4, <2>5, Zenon
<1>4. CASE field = ConfigField("CrcCheckingEnable", 31, 31, "RW", Value(0))
  BY <1>4 DEF ConfigField, Value, Spans, BitsOf
<1>5. CASE field = ConfigField("IoModeSelect", 27, 26, "RW", Value(0))
  BY <1>5 DEF ConfigField, Value, Spans, BitsOf
<1>6. CASE field = ConfigField("Other", 23, 23, "RW", NoDefault)
  BY <1>6 DEF ConfigField, NoDefault, Spans, BitsOf
<1>7. ASSUME NEW high, NEW low, field = RW(high, low, 0)
      PROVE  /\ field.default.value = 0 /\ field.access = "RW"
             /\ field.name # "CrcCheckingEnable" /\ field.name # "IoModeSelect"
             /\ field.high = high /\ field.low = low
  BY <1>7 DEF RW, ConfigField, Value
<1>8. CASE \/ field = RW(30, 30, 0) \/ field = RW(28, 28, 0)
           \/ field = RW(22, 20, 0) \/ field = RW(15, 12, 0)
  BY <1>7, <1>8
<1>9. ASSUME NEW high, NEW low, field = RO(high, low)
      PROVE  /\ ~field.default.stated /\ BitsOf(field) = low..high
             /\ field.name # "CrcCheckingEnable" /\ field.name # "IoModeSelect"
             /\ field.high = high /\ field.low = low
  BY <1>9 DEF RO, ConfigField, NoDefault, BitsOf
<1>10. CASE \/ field = RO(29, 29) \/ field = RO(25, 24) \/ field = RO(19, 19)
            \/ field = RO(18, 16) \/ field = RO(7, 0)
  BY <1>9, <1>10
<1>11. CASE field = ReservedField(11, 8)
  BY <1>11 DEF ReservedField, ConfigField, Value, Spans, BitsOf
<1>12. QED
  BY <1>3, <1>4, <1>5, <1>6, <1>8, <1>10, <1>11

(* A reset clears every bit with a default. *)
LEMMA ResetClears == ConfigResetValue(8) = {}
<1>1. \A b \in 0..7 : ~Bit(0, b)
  <2>1. /\ ~Bit(0, 0) /\ ~Bit(0, 1) /\ ~Bit(0, 2) /\ ~Bit(0, 3)
        /\ ~Bit(0, 4) /\ ~Bit(0, 5) /\ ~Bit(0, 6) /\ ~Bit(0, 7)
    BY DEF Bit
  <2>2. \A b \in 0..7 : b \in {0, 1, 2, 3, 4, 5, 6, 7}
    OBVIOUS
  <2>3. QED
    BY <2>1, <2>2, Zenon
<1>2. \A field \in FieldsOf(8) : \A b \in 0..field.high - field.low :
          ~(field.default.stated /\ Bit(field.default.value, b))
  <2>1. ASSUME NEW field \in FieldsOf(8), NEW b \in 0..field.high - field.low
        PROVE  b \in 0..7
    BY GeneralFields
  <2>2. QED
    BY <1>1, <2>1, GeneralFields
<1>3. QED
  BY <1>2 DEF ConfigResetValue

(* The session goes by the bits of a value that CRC Checking Enable and I/O *)
(* Mode Select are.                                                         *)
LEMMA GoesBy ==
    ASSUME NEW value \in SUBSET DWordBits
    PROVE  LET config == DecodeGeneralConfig(value)
           IN  /\ config.crc <=> 31 \in value
               /\ Bit(config.enc, 1) <=> 27 \in value
               /\ Bit(config.enc, 0) <=> 26 \in value
<1> DEFINE crc  == FindField(8, "CrcCheckingEnable")
           mode == FindField(8, "IoModeSelect")
<1>1. crc \in FieldsOf(8) /\ crc.name = "CrcCheckingEnable"
  <2>1. /\ ConfigFields[8][1] = ConfigField("CrcCheckingEnable", 31, 31, "RW", Value(0))
        /\ DOMAIN ConfigFields[8] = 1..13
    BY DEF ConfigFields
  <2>2. ConfigFields[8][1].name = "CrcCheckingEnable"
    BY <2>1, FieldNames
  <2>3. ConfigFields[8][1] \in FieldsOf(8)
    <3>1. 1 \in DOMAIN ConfigFields[8]
      BY <2>1
    <3>2. QED
      BY <3>1, Zenon DEF FieldsOf
  <2>4. QED
    BY <2>2, <2>3 DEF FindField
<1>2. mode \in FieldsOf(8) /\ mode.name = "IoModeSelect"
  <2>1. /\ ConfigFields[8][5] = ConfigField("IoModeSelect", 27, 26, "RW", Value(0))
        /\ DOMAIN ConfigFields[8] = 1..13
    BY DEF ConfigFields
  <2>2. ConfigFields[8][5].name = "IoModeSelect"
    BY <2>1, FieldNames
  <2>3. ConfigFields[8][5] \in FieldsOf(8)
    <3>1. 5 \in DOMAIN ConfigFields[8]
      BY <2>1
    <3>2. QED
      BY <3>1, Zenon DEF FieldsOf
  <2>4. QED
    BY <2>2, <2>3 DEF FindField
<1> HIDE DEF crc, mode
<1>3. Spans(crc, 31, 31) /\ Spans(mode, 27, 26)
  BY <1>1, <1>2, GeneralFields
<1>4. Extract(value, crc) # {} <=> 31 \in value
  BY <1>3 DEF Extract, Spans, BitsOf, DWordBits
<1>5. /\ 1 \in Extract(value, mode) <=> 27 \in value
      /\ 0 \in Extract(value, mode) <=> 26 \in value
  BY <1>3 DEF Extract, Spans, BitsOf, DWordBits
<1> DEFINE config == DecodeGeneralConfig(value)
<1>6. /\ config.crc <=> 31 \in value
      /\ config.enc = (IF 27 \in value THEN 2 ELSE 0) + (IF 26 \in value THEN 1 ELSE 0)
  BY <1>4, <1>5 DEF DecodeGeneralConfig, GeneralConfigOffset, crc, mode
<1>7. /\ Bit(config.enc, 1) <=> 27 \in value
      /\ Bit(config.enc, 0) <=> 26 \in value
  <2> HIDE DEF config
  <2>1. QED
    BY <1>6 DEF Bit
<1>8. QED
  BY <1>6, <1>7

(* What it goes by of the line watched, one of the two fields' bits. *)
LEMMA AdoptsValue ==
    ASSUME NEW value \in SUBSET DWordBits, line \in SessionBits,
           adopted' = DecodeGeneralConfig(value), line' = line
    PROVE  AdoptedLevel' <=> LevelIn(value)
<1>1. PICK bit \in {31, 27, 26} : line = RegisterBit(8, bit)
  BY DEF SessionBits, GeneralConfigOffset
<1>2. line'[3] = bit
  BY <1>1 DEF RegisterBit
<1>3. LevelIn(value) <=> bit \in value
  BY <1>1, LevelOfBit
<1>4. CASE bit = 31
  <2>1. AdoptedLevel' <=> adopted'.crc
    BY <1>2, <1>4 DEF AdoptedLevel, Bit
  <2>2. QED
    BY <1>3, <1>4, <2>1, GoesBy
<1>5. CASE bit = 27
  <2>1. AdoptedLevel' <=> Bit(adopted'.enc, 1)
    BY <1>2, <1>5 DEF AdoptedLevel, Bit
  <2>2. QED
    BY <1>3, <1>5, <2>1, GoesBy
<1>6. CASE bit = 26
  <2>1. AdoptedLevel' <=> Bit(adopted'.enc, 0)
    BY <1>2, <1>6 DEF AdoptedLevel, Bit
  <2>2. QED
    BY <1>3, <1>6, <2>1, GoesBy
<1>7. QED
  BY <1>4, <1>5, <1>6

(* Both levels are levels. *)
LEMMA AdoptedBoolean ==
    ASSUME NEW value \in SUBSET DWordBits, line \in SessionBits,
           adopted' = DecodeGeneralConfig(value), line' = line
    PROVE  AdoptedLevel' = LevelIn(value)
<1>1. DecodeGeneralConfig(value).crc \in BOOLEAN
  BY DEF DecodeGeneralConfig
<1>2. AdoptedLevel' \in BOOLEAN
  <2>1. PICK bit \in {31, 27, 26} : line = RegisterBit(8, bit)
    BY DEF SessionBits, GeneralConfigOffset
  <2>2. line'[3] = bit
    BY <2>1 DEF RegisterBit
  <2>3. QED
    BY <1>1, <2>2 DEF AdoptedLevel, Bit
<1>3. LevelIn(value) \in BOOLEAN
  BY DEF LevelIn
<1>4. QED
  BY <1>2, <1>3, AdoptsValue

(* The bits of those fields can be written, in full. *)
LEMMA SessionBitsWritable ==
    ASSUME line \in SessionBits
    PROVE  AccessOfLine = "RW"
<1>1. PICK bit \in {31, 27, 26} : line = RegisterBit(8, bit)
  BY DEF SessionBits, GeneralConfigOffset
<1>2. line[2] = 8 /\ line[3] = bit
  BY <1>1 DEF RegisterBit
<1>3. \E field \in FieldsOf(8) : bit \in BitsOf(field)
  <2>1. 8 \in DOMAIN ConfigFields /\ bit \in DWordBits
    BY DEF ConfigFields, DWordBits
  <2>2. HasField(8, bit)
    BY <2>1, Tiled
  <2>3. QED
    BY <2>2 DEF HasField, FieldsOf
<1> DEFINE field == CHOOSE f \in FieldsOf(8) : bit \in BitsOf(f)
<1>4. field \in FieldsOf(8) /\ bit \in BitsOf(field)
  BY <1>3
<1>5. AccessOfLine = field.access
  BY <1>2 DEF AccessOfLine
<1> HIDE DEF field
<1>6. QED
  BY <1>4, <1>5, GeneralFields

-----------------------------------------------------------------------------
(* The inductive invariant *)

(* Of a wire that is never shown nothing is told. *)
Silent ==
    \A index \in 2..255, bit \in LevelBits :
        line = Wire(index, bit) /\ line \notin ShownWires => told = "Unknown"

IInv == actual \in BOOLEAN /\ TruthTold /\ Silent /\ SessionFollowsRegister

(* Nothing is told yet, and the register not settled. *)
LEMMA InitIInv == PictureInit => IInv
BY DEF PictureInit, IInv, TruthTold, Silent, SessionFollowsRegister

(* What is told of other lines than wires leaves the wires as they were. *)
LEMMA StaysSilent ==
    ASSUME Silent, line' = line,
           \/ told' = told \/ told' = "Unknown"
           \/ \A index \in 2..255, bit \in LevelBits :
                  line = Wire(index, bit) => line \in ShownWires
    PROVE  Silent'
BY DEF Silent

(* The session goes on by what it went by. *)
LEMMA SessionKept ==
    ASSUME SessionFollowsRegister, line' = line, adopted' = adopted, settled' => settled,
           line \in SessionBits => actual' = actual
    PROVE  SessionFollowsRegister'
BY DEF SessionFollowsRegister, AdoptedLevel

(* An interrupt is heard of with the level it was sent with. *)
LEMMA InterruptIInv ==
    ASSUME IInv, NEW irq \in Interrupts, NEW level \in BOOLEAN,
           SendInterrupt(irq, level)
    PROVE  IInv'
<1> DEFINE rows == GroupRows(irq \div 128, (irq % 128) + IF level THEN 128 ELSE 0)
<1>1. irq \in Byte
  BY InterruptsAssumption
<1>2. rows = {Row(Irq(irq), level)}
  BY <1>1, InterruptRow
<1>3. told' = Hearing(rows) /\ line' = line /\ adopted' = adopted /\ settled' = settled
  BY DEF SendInterrupt
<1>4. actual' = IF line = Irq(irq) THEN level ELSE actual
  BY DEF SendInterrupt
<1> HIDE DEF rows
<1>5. CASE line = Irq(irq)
  <2>1. told' = LevelText(level)
    BY <1>2, <1>3, <1>5, RowSays, Heard
  <2>2. \A index, bit : line # Wire(index, bit) /\ line # RegisterBit(index, bit)
    BY <1>5, LinesDiffer
  <2>3. Silent'
    BY <1>3, <2>2 DEF Silent
  <2>4. line \notin SessionBits
    BY <2>2 DEF SessionBits
  <2>5. QED
    BY <1>3, <1>4, <1>5, <2>1, <2>3, <2>4 DEF IInv, TruthTold, SessionFollowsRegister
<1>6. CASE line # Irq(irq)
  <2>1. told' = told
    BY <1>2, <1>3, <1>6, RowSays, Unheard
  <2>2. QED
    BY <1>3, <1>4, <1>6, <2>1, StaysSilent, SessionKept DEF IInv, TruthTold
<1>7. QED
  BY <1>5, <1>6

(* A wire is heard of with the level under its valid bit, if it is shown.   *)
LEMMA WiresIInv ==
    ASSUME IInv, NEW index \in WireIndices, NEW valid \in SUBSET LevelBits,
           NEW levels \in SUBSET LevelBits, SendWires(index, valid, levels)
    PROVE  IInv'
<1> DEFINE rows == GroupRows(index, Nibble(levels) + 16 * Nibble(valid))
<1>1. index \in 2..255
  BY IndicesAssumption
<1>2. /\ \A row \in rows : \E bit \in valid :
             /\ row.line = Wire(index, bit) /\ row.line \in ShownWires
             /\ row.level <=> bit \in levels
      /\ \A bit \in valid : Wire(index, bit) \in ShownWires =>
             \E row \in rows : row.line = Wire(index, bit)
  BY <1>1, WireRowsSay
<1>3. told' = Hearing(rows) /\ line' = line /\ adopted' = adopted /\ settled' = settled
  BY DEF SendWires
<1>4. actual' = IF \E bit \in valid : line = Wire(index, bit)
                THEN \E bit \in levels : line = Wire(index, bit)
                ELSE actual
  BY DEF SendWires
<1> HIDE DEF rows
<1>5. line \in SessionBits => \A bit : line # Wire(index, bit)
  BY LinesDiffer DEF SessionBits
<1>6. SessionFollowsRegister'
  BY <1>3, <1>4, <1>5, SessionKept DEF IInv
<1>7. actual' \in BOOLEAN
  BY <1>4 DEF IInv
<1>8. CASE \E bit \in valid : line = Wire(index, bit) /\ line \in ShownWires
  <2>1. PICK bit \in valid : line = Wire(index, bit) /\ line \in ShownWires
    BY <1>8
  <2>2. \A b : line = Wire(index, b) <=> b = bit
    BY <2>1 DEF Wire
  <2>3. actual' <=> bit \in levels
    BY <1>4, <2>1, <2>2
  <2>4. \E row \in rows : row.line = line
    BY <1>2, <2>1
  <2>5. \A row \in rows : row.line = line => (row.level <=> actual')
    BY <1>2, <2>2, <2>3
  <2>6. told' = LevelText(actual')
    BY <1>3, <1>7, <2>4, <2>5, Heard
  <2>7. Silent'
    BY <1>3, <2>1 DEF Silent
  <2>8. QED
    BY <1>6, <1>7, <2>6, <2>7 DEF IInv, TruthTold
<1>9. CASE ~\E bit \in valid : line = Wire(index, bit) /\ line \in ShownWires
  <2>1. \A row \in rows : row.line # line
    BY <1>2, <1>9
  <2>2. told' = told
    BY <1>3, <2>1, Unheard
  <2>3. Silent'
    BY <1>3, <2>2, StaysSilent DEF IInv
  <2>4. TruthTold'
    <3>1. CASE \E bit \in valid : line = Wire(index, bit)
      BY <1>1, <1>9, <2>2, <3>1 DEF IInv, Silent, TruthTold
    <3>2. CASE ~\E bit \in valid : line = Wire(index, bit)
      BY <1>4, <2>2, <3>2 DEF IInv, TruthTold
    <3>3. QED
      BY <3>1, <3>2
  <2>5. QED
    BY <1>6, <1>7, <2>3, <2>4 DEF IInv
<1>10. QED
  BY <1>8, <1>9

(* The addresses and values of the bus. *)
LEMMA BusValues ==
    /\ \A address \in Addresses : address \in Nat
    /\ \A value \in DWords : value \in SUBSET DWordBits
<1>1. ASSUME NEW last \in Nat PROVE \A address \in 0..last : address \in Nat
  OBVIOUS
<1>2. 2^16 - 1 \in Nat
  OBVIOUS
<1>3. \A address \in 0..2^16 - 1 : address \in Nat
  BY <1>1, <1>2, Zenon
<1>4. \A address \in Addresses : address \in Nat
  BY <1>3, AddressesAssumption, Zenon
<1>5. QED
  BY <1>4, DWordsAssumption

(* No wire is a bit of a register. *)
LEMMA RegistersAreNoWires ==
    ASSUME NEW address, line \in RegisterLines(address)
    PROVE  \A index, bit : line # Wire(index, bit)
BY LinesDiffer DEF RegisterLines

(* What is read is what is there. *)
LEMMA GetIInv ==
    ASSUME IInv, NEW address \in Addresses, NEW value \in DWords,
           GetConfiguration(address, value)
    PROVE  IInv'
<1>1. address \in Nat /\ value \in SUBSET DWordBits
  BY BusValues
<1>2. /\ told' = Hearing(RegisterRows(address, value))
      /\ line' = line /\ actual' = actual /\ adopted' = adopted /\ settled' = settled
      /\ line \in RegisterLines(address) => (LevelIn(value) <=> actual)
  BY DEF GetConfiguration
<1>3. SessionFollowsRegister'
  BY <1>2, SessionKept DEF IInv
<1>4. CASE line \in RegisterLines(address) /\ ClassifyConfigAddress(address) = "Decoded"
  <2>1. told' = LevelText(LevelIn(value))
    BY <1>1, <1>2, <1>4, HearsRegister
  <2>2. told' = LevelText(actual')
    BY <1>2, <1>4, <2>1 DEF LevelText
  <2>3. Silent'
    BY <1>2, <1>4, RegistersAreNoWires DEF Silent
  <2>4. QED
    BY <1>2, <1>3, <2>2, <2>3 DEF IInv, TruthTold
<1>5. CASE \/ line \notin RegisterLines(address)
           \/ ClassifyConfigAddress(address) # "Decoded"
  <2>1. told' = told
    BY <1>1, <1>2, <1>5, HearsNoOther
  <2>2. QED
    BY <1>2, <1>3, <2>1, StaysSilent DEF IInv, TruthTold
<1>6. QED
  BY <1>4, <1>5

(* What is written elsewhere is not told of this line, and the session goes *)
(* by it only if it is written to the general register.                     *)
LEMMA SetOtherIInv ==
    ASSUME IInv, NEW address \in Addresses, NEW value \in DWords,
           SetOtherConfiguration(address, value)
    PROVE  IInv'
<1>1. address \in Nat /\ value \in SUBSET DWordBits
  BY BusValues
<1>2. /\ line \notin RegisterLines(address)
      /\ told' = Hearing(RegisterRows(address, value))
      /\ adopted' = Adopted(address, value) /\ settled' = Settled(address)
      /\ line' = line /\ actual' = actual
  BY DEF SetOtherConfiguration
<1>3. told' = told
  BY <1>1, <1>2, HearsNoOther
<1>4. SessionFollowsRegister'
  <2>1. CASE line \in SessionBits
    <3>1. Reached(address) # 8
      BY <1>2, <2>1 DEF SessionBits, RegisterLines, GeneralConfigOffset, DWordBits
    <3>2. adopted' = adopted /\ settled' = settled
      BY <1>1, <1>2, <3>1, Aligned DEF Adopted, Settled, GeneralConfigOffset
    <3>3. QED
      BY <1>2, <3>2, SessionKept DEF IInv
  <2>2. CASE line \notin SessionBits
    BY <1>2, <2>2 DEF SessionFollowsRegister
  <2>3. QED
    BY <2>1, <2>2
<1>5. QED
  BY <1>2, <1>3, <1>4, StaysSilent DEF IInv, TruthTold

(* What is written is told of as far as the field can be written, and the   *)
(* session goes by it if it is written to the general register.             *)
LEMMA SetIInv ==
    ASSUME IInv, NEW address \in Addresses, NEW value \in DWords,
           SetConfiguration(address, value)
    PROVE  IInv'
<1>1. address \in Nat /\ value \in SUBSET DWordBits
  BY BusValues
<1>2. /\ line \in RegisterLines(address) /\ line' = line
      /\ adopted' = Adopted(address, value) /\ settled' = Settled(address)
      /\ \/ AccessOfLine \in {"RW", "RwOrRo"} /\ actual' = LevelIn(value)
         \/ AccessOfLine \in {"RO", "RwOrRo"} /\ actual' = actual
  BY DEF SetConfiguration
<1>3. actual' \in BOOLEAN
  BY <1>2 DEF IInv, LevelIn
<1>4. Silent'
  BY <1>2, RegistersAreNoWires DEF Silent
<1>5. TruthTold'
  <2>1. CASE ClassifyConfigAddress(address) # "Decoded"
    <3>1. told' = "Unknown"
      BY <2>1 DEF SetConfiguration
    <3>2. QED
      BY <3>1 DEF TruthTold
  <2>2. CASE ClassifyConfigAddress(address) = "Decoded" /\ AccessOfLine = "RW"
    <3>1. told' = Hearing(RegisterRows(address, value))
      BY <2>2 DEF SetConfiguration
    <3>2. told' = LevelText(LevelIn(value))
      BY <1>1, <1>2, <2>2, <3>1, HearsRegister
    <3>3. actual' = LevelIn(value)
      BY <1>2, <2>2
    <3>4. QED
      BY <3>2, <3>3 DEF TruthTold
  <2>3. CASE ClassifyConfigAddress(address) = "Decoded" /\ AccessOfLine = "RO"
    <3>1. told' = told
      BY <2>3 DEF SetConfiguration
    <3>2. actual' = actual
      BY <1>2, <2>3
    <3>3. QED
      BY <3>1, <3>2 DEF IInv, TruthTold
  <2>4. CASE ClassifyConfigAddress(address) = "Decoded" /\ AccessOfLine = "RwOrRo"
    <3>1. told' = "Unknown"
      BY <2>4 DEF SetConfiguration
    <3>2. QED
      BY <3>1 DEF TruthTold
  <2>5. QED
    BY <1>2, <2>1, <2>2, <2>3, <2>4
<1>6. SessionFollowsRegister'
  <2>1. SUFFICES ASSUME settled', line \in SessionBits
                 PROVE  AdoptedLevel' = actual'
    BY <1>2 DEF SessionFollowsRegister, SessionBits
  <2>2. Reached(address) = 8
    BY <1>2, <2>1 DEF SessionBits, RegisterLines, RegisterBit, GeneralConfigOffset
  <2>3. address % 4 = 0
    BY <1>2, <2>1, <2>2 DEF Settled, GeneralConfigOffset
  <2>4. adopted' = DecodeGeneralConfig(value)
    BY <1>1, <1>2, <2>2, <2>3, Aligned DEF Adopted
  <2>5. actual' = LevelIn(value)
    BY <1>2, <2>1, SessionBitsWritable
  <2>6. QED
    BY <1>1, <1>2, <2>1, <2>4, <2>5, AdoptedBoolean
<1>7. QED
  BY <1>3, <1>4, <1>5, <1>6 DEF IInv

(* A reset clears what the session goes by, in the target and in the        *)
(* decoder.                                                                 *)
LEMMA ResetIInv == ASSUME IInv, InbandReset PROVE IInv'
<1>1. /\ line' = line /\ told' = "Unknown"
      /\ actual' \in BOOLEAN
      /\ line \in SessionBits => actual' = FALSE
      /\ adopted' = DecodeGeneralConfig({})
  BY ResetClears DEF InbandReset, GeneralConfigOffset
<1>2. SessionFollowsRegister'
  <2>1. SUFFICES ASSUME line \in SessionBits
                 PROVE  AdoptedLevel' = actual'
    BY <1>1 DEF SessionFollowsRegister, SessionBits
  <2>2. AdoptedLevel' = LevelIn({})
    BY <1>1, <2>1, AdoptedBoolean
  <2>3. LevelIn({}) = FALSE
    BY DEF LevelIn
  <2>4. QED
    BY <1>1, <2>1, <2>2, <2>3
<1>3. QED
  BY <1>1, <1>2, StaysSilent DEF IInv, TruthTold

-----------------------------------------------------------------------------
(* The invariant holds of every behaviour. *)
THEOREM Invariance == PictureSpec => []IInv
<1>1. PictureInit => IInv
  BY InitIInv
<1>2. IInv /\ [PictureNext]_pictureVars => IInv'
  <2> SUFFICES ASSUME IInv, [PictureNext]_pictureVars PROVE IInv'
    OBVIOUS
  <2>1. CASE PictureNext
    BY <2>1, InterruptIInv, WiresIInv, GetIInv, SetIInv, SetOtherIInv, ResetIInv DEF PictureNext
  <2>2. CASE UNCHANGED pictureVars
    BY <2>2 DEF pictureVars, IInv, TruthTold, Silent, SessionFollowsRegister, AdoptedLevel
  <2>3. QED
    BY <2>1, <2>2
<1>3. QED
  BY <1>1, <1>2, PTL DEF PictureSpec

(* The last row about a line says the level it has: no echo under a clear   *)
(* valid bit, no write to a field that keeps its own value and no malformed *)
(* address makes the rows say otherwise.                                    *)
THEOREM RowsTellTheTruth == PictureSpec => []TruthTold
<1>1. IInv => TruthTold
  BY DEF IInv
<1>2. QED
  BY <1>1, Invariance, PTL

(* The CRC and mode fields the session goes by are the register's, whatever *)
(* is above the register's part of the address a write reached it through.  *)
THEOREM SessionFollows == PictureSpec => []SessionFollowsRegister
<1>1. IInv => SessionFollowsRegister
  BY DEF IInv
<1>2. QED
  BY <1>1, Invariance, PTL
=============================================================================
