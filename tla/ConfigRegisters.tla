--------------------------- MODULE ConfigRegisters ---------------------------
(***************************************************************************)
(* What the decoder makes of a configuration address and the DWord that    *)
(* goes with it: tables/ConfigRegisters.h, ConfigRegisters.cpp and         *)
(* AddConfigChildren of LinkDecoder.cpp.                                   *)
(*                                                                         *)
(* A DWord is the set of its bits that are 1. Of the words for encoded     *)
(* values nothing is kept, of the names of fields those that the code      *)
(* looks for, each as one word; the others are all called Other.           *)
(***************************************************************************)
EXTENDS VirtualWires

DWordBits == 0..31

RegisterBit(offset, bit) == <<"register", offset, bit>>

-----------------------------------------------------------------------------
(* The fields of each register, most significant first. A default is a      *)
(* number, or the hardware's own and not the specification's to say.        *)

NoDefault == [stated |-> FALSE, value |-> 0]
Value(n)  == [stated |-> TRUE, value |-> n]

ConfigField(name, high, low, access, default) ==
    [name |-> name, high |-> high, low |-> low, access |-> access, default |-> default]

ReservedField(high, low) == ConfigField("Reserved", high, low, "RO", Value(0))
RO(high, low)            == ConfigField("Other", high, low, "RO", NoDefault)
Ready(bit)               == ConfigField("Ready", bit, bit, "RO", Value(0))
RW(high, low, n)         == ConfigField("Other", high, low, "RW", Value(n))

GeneralConfigOffset == 8

ConfigFields ==
    [offset \in {4, 8, 16, 32, 48, 64, 68, 72, 76} |->
       CASE offset = 4  -> <<ReservedField(31, 8), ConfigField("VersionId", 7, 0, "RO", Value(1))>>
         [] offset = 8  -> <<ConfigField("CrcCheckingEnable", 31, 31, "RW", Value(0)),
                             RW(30, 30, 0), RO(29, 29), RW(28, 28, 0),
                             ConfigField("IoModeSelect", 27, 26, "RW", Value(0)),
                             RO(25, 24), ConfigField("Other", 23, 23, "RW", NoDefault), RW(22, 20, 0),
                             RO(19, 19), RO(18, 16), RW(15, 12, 0), ReservedField(11, 8), RO(7, 0)>>
         [] offset = 16 -> <<ReservedField(31, 15), RW(14, 12, 1), ReservedField(11, 11),
                             RW(10, 8, 1), ReservedField(7, 7), RO(6, 4), ReservedField(3, 3),
                             RW(2, 2, 0), Ready(1), RW(0, 0, 1)>>
         [] offset = 32 -> <<ReservedField(31, 22), RW(21, 16, 0), ReservedField(15, 14), RO(13, 8),
                             ReservedField(7, 2), Ready(1), RW(0, 0, 0)>>
         [] offset = 48 -> <<ReservedField(31, 11), RW(10, 8, 1), ReservedField(7, 7), RO(6, 4),
                             ReservedField(3, 2), Ready(1), RW(0, 0, 0)>>
         [] offset = 64 -> <<RO(31, 24), RO(23, 20), ReservedField(19, 18), RO(17, 16),
                             ReservedField(15, 15), RW(14, 12, 1),
                             ConfigField("FlashSharingMode", 11, 11, "RwOrRo", NoDefault),
                             RW(10, 8, 1), RO(7, 5), RW(4, 2, 1), Ready(1), RW(0, 0, 0)>>
         [] offset = 68 -> <<ReservedField(31, 24), RO(23, 22), RO(21, 16), RO(15, 8),
                             ReservedField(7, 3), RO(2, 0)>>
         [] offset = 72 -> <<RO(31, 24), RO(23, 20), ReservedField(19, 0)>>
         [] offset = 76 -> <<RO(31, 24), RO(23, 20), ReservedField(19, 16), RO(15, 8), RO(7, 4),
                             ReservedField(3, 0)>>]

FieldsOf(offset) == {ConfigFields[offset][i] : i \in DOMAIN ConfigFields[offset]}

BitsOf(field) == field.low..field.high

(* A plausible bug: a bit too far up. *)
ExtractTooHigh(value, field) == {bit - field.low + 1 : bit \in value \cap BitsOf(field)}

Extract(value, field) == {bit - field.low : bit \in value \cap BitsOf(field)}

(* The field of that name *)
FindField(offset, name) == CHOOSE field \in FieldsOf(offset) : field.name = name

-----------------------------------------------------------------------------
(* Addresses *)

SelectedBy(address) == address % 4096

(* Table 21: every register with a layout is four bytes.                    *)
ConfigRegisterOf(address) == SelectedBy(address) - (SelectedBy(address) % 4)

HasLayout(address) == ConfigRegisterOf(address) \in DOMAIN ConfigFields

(* The address is judged after its register is found: a malformed one still *)
(* reaches one, and is not decoded.                                         *)
ClassifyConfigAddress(address) ==
    CASE address >= 4096                                          -> "UpperBitsSet"
      [] address < 4096 /\ address % 4 # 0                        -> "NotDwordAligned"
      [] address < 4096 /\ address % 4 = 0 /\ HasLayout(address)  -> "Decoded"
      [] address < 4096 /\ address % 4 = 0 /\ ~HasLayout(address) -> "ReservedRange"

-----------------------------------------------------------------------------
(* AddConfigChildren, DecodeConfigRegister: the rows of a register. The     *)
(* caller's buffer holds this many fields.                                  *)

FieldCapacity == 16

(* A reserved field has a row of its own only if it is not zero: having     *)
(* none says that it is.                                                    *)
FieldRows(offset, value, field) ==
    {Row(RegisterBit(offset, field.low + bit), bit \in Extract(value, field)) :
        bit \in 0..field.high - field.low}

RegisterRows(address, value) ==
    IF ClassifyConfigAddress(address) # "Decoded" THEN {}
    ELSE UNION {FieldRows(address, value, ConfigFields[address][i]) :
                    i \in DOMAIN ConfigFields[address] \cap 1..FieldCapacity}

(* DecodeGeneralConfig *)
DecodeGeneralConfig(value) ==
    LET select == Extract(value, FindField(GeneralConfigOffset, "IoModeSelect"))
    IN  [enc |-> (IF 1 \in select THEN 2 ELSE 0) + (IF 0 \in select THEN 1 ELSE 0),
         crc |-> Extract(value, FindField(GeneralConfigOffset, "CrcCheckingEnable")) # {}]

(* ConfigResetValue: the bits that are 1 of the fields with a default.      *)
ConfigResetValue(offset) ==
    UNION {{field.low + bit : bit \in {b \in 0..field.high - field.low :
                                           field.default.stated /\ Bit(field.default.value, b)}} :
               field \in FieldsOf(offset)}
=============================================================================
