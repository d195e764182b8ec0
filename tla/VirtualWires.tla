---------------------------- MODULE VirtualWires ----------------------------
(***************************************************************************)
(* What the decoder makes of one group of a virtual wire packet, an index  *)
(* and a data byte: tables/VirtualWires.h, VirtualWires.cpp and the part   *)
(* of LinkDecoder.cpp that adds the wires to the tree. Names, directions,  *)
(* polarities and reset domains are wording, and left out.                 *)
(***************************************************************************)
EXTENDS EspiTables

(* What a row may be about, and a row: it says that a line has a level.     *)
Irq(n)           == <<"irq", n>>
Wire(index, bit) == <<"wire", index, bit>>

Row(line, level) == [line |-> line, level |-> level]

-----------------------------------------------------------------------------
(* Table 8 *)

IndexRange(first, last, format) == [first |-> first, last |-> last, format |-> format]

WireRanges == {
    IndexRange(0, 1, "Interrupt"),
    IndexRange(2, 7, "ValidLevel"),        \* System Event
    IndexRange(8, 63, "NotDefined"),       \* Reserved
    IndexRange(64, 127, "NotDefined"),     \* Platform specific
    IndexRange(128, 255, "ValidLevel") }   \* General Purpose I/O Expander

LookupVwireIndex(index) == CHOOSE r \in WireRanges : index \in r.first..r.last

(* Tables 9 to 14: the wires of an index, by their level bits. All four of  *)
(* an expander's are some GPIO.                                             *)
ReservedWires == {Wire(2, 3), Wire(3, 3), Wire(4, 1), Wire(7, 3)}

LevelBits == 0..3

VwireValidBitFor(level) == level + 4

(* A plausible bug: the bank left out. *)
VwireIrqLine(index, data) == data % 128

VwireIrqNumber(index, data) == (index * 128) + (data % 128)

-----------------------------------------------------------------------------
(* AddInterruptChildren, AddNamedWireChildren, AddUnnamedWireChildren *)

InterruptRows(index, data) == {Row(Irq(VwireIrqNumber(index, data)), Bit(data, 7))}

(* A plausible bug: an echo taken for a level. *)
AllWireRows(index, data) ==
    {Row(Wire(index, bit), Bit(data, bit)) :
        bit \in {b \in LevelBits : Wire(index, b) \notin ReservedWires}}

(* A clear valid bit is a mask: the level under it is an echo, not news.    *)
WireRows(index, data) ==
    {Row(Wire(index, bit), Bit(data, bit)) :
        bit \in {b \in LevelBits : /\ Wire(index, b) \notin ReservedWires
                                   /\ Bit(data, VwireValidBitFor(b))}}

(* AddVwireGroup *)
GroupRows(index, data) ==
    CASE LookupVwireIndex(index).format = "Interrupt"  -> InterruptRows(index, data)
      [] LookupVwireIndex(index).format = "ValidLevel" -> WireRows(index, data)
      [] LookupVwireIndex(index).format = "NotDefined" -> {}
=============================================================================
