---------------------------- MODULE TargetPicture ----------------------------
(***************************************************************************)
(* What a reader of the decoded rows comes to believe of the target, next  *)
(* to what is so there. One line is watched: an interrupt, a virtual wire  *)
(* or a bit of a configuration register. Every transaction that carries    *)
(* lines is sent, each of them accepted, in whatever order, about the line *)
(* or about others.                                                        *)
(*                                                                         *)
(* The bus and the target (external) keep to the specification the tables  *)
(* quote: what is under a clear valid bit is not a level, and the target   *)
(* ignores the address bits that do not select a register.                 *)
(***************************************************************************)
EXTENDS ConfigRegisters

CONSTANTS
    Lines,          \* the lines to watch
    Interrupts,     \* the interrupts sent
    WireIndices,    \* the indices of the wires sent
    Addresses,      \* the configuration addresses used
    DWords          \* the values read and written

ASSUME InterruptsAssumption == Interrupts \subseteq Byte
ASSUME IndicesAssumption    == WireIndices \subseteq 2..255
ASSUME AddressesAssumption  == Addresses \subseteq 0..2^16 - 1
ASSUME DWordsAssumption     == DWords \subseteq SUBSET DWordBits

VARIABLES
    line,       \* the line watched
    actual,     \* its level
    told,       \* what the rows last said of it
    adopted,    \* the register content the session goes by
    settled     \* the general register was last written or reset to order

pictureVars == <<line, actual, told, adopted, settled>>

Told == {"Unknown", "High", "Low"}

LevelText(level) == IF level THEN "High" ELSE "Low"

Hearing(rows) ==
    IF \E row \in rows : row.line = line
    THEN LevelText((CHOOSE row \in rows : row.line = line).level)
    ELSE told

-----------------------------------------------------------------------------
(* Virtual wires *)

Nibble(bits) == CHOOSE n \in 0..15 : \A bit \in LevelBits : Bit(n, bit) <=> bit \in bits

SendInterrupt(irq, level) ==
    LET index == irq \div 128
        data  == (irq % 128) + IF level THEN 128 ELSE 0
    IN  /\ actual' = IF line = Irq(irq) THEN level ELSE actual
        /\ told' = Hearing(GroupRows(index, data))
        /\ UNCHANGED <<line, adopted, settled>>

(* Both sets are of level bits; what is not in valid is an echo.            *)
SendWires(index, valid, levels) ==
    LET data == Nibble(levels) + 16 * Nibble(valid)
    IN  /\ actual' = IF \E bit \in valid : line = Wire(index, bit)
                     THEN \E bit \in levels : line = Wire(index, bit)
                     ELSE actual
        /\ told' = Hearing(GroupRows(index, data))
        /\ UNCHANGED <<line, adopted, settled>>

-----------------------------------------------------------------------------
(* Configuration registers *)

(* The register an address reaches in the target. *)
Reached(address) == ((address % 4096) \div 4) * 4

RegisterLines(address) == {RegisterBit(Reached(address), bit) : bit \in DWordBits}

LevelIn(value) == \E bit \in value : line[Len(line)] = bit

(* Of what is written, the rows say how the bits are left that can be       *)
(* written; a register reached by a malformed address is not to be relied on. *)
AccessOfLine ==
    (CHOOSE field \in FieldsOf(line[2]) : line[3] \in BitsOf(field)).access

(* The answer tells of every bit. *)
GetConfiguration(address, value) ==
    /\ line \in RegisterLines(address) => (LevelIn(value) <=> actual)
    /\ told' = Hearing(RegisterRows(address, value))
    /\ UNCHANGED <<line, actual, adopted, settled>>

Adopted(address, value) ==
    IF IsGeneralConfigAddress(address) THEN DecodeGeneralConfig(value) ELSE adopted

Settled(address) ==
    IF Reached(address) = GeneralConfigOffset THEN address % 4 = 0 ELSE settled

SetOtherConfiguration(address, value) ==
    /\ line \notin RegisterLines(address)
    /\ told' = Hearing(RegisterRows(address, value))
    /\ adopted' = Adopted(address, value)
    /\ settled' = Settled(address)
    /\ UNCHANGED <<line, actual>>

(* A field that may be read-only takes the value or keeps its own.          *)
SetConfiguration(address, value) ==
    /\ line \in RegisterLines(address)
    /\ \/ AccessOfLine \in {"RW", "RwOrRo"} /\ actual' = LevelIn(value)
       \/ AccessOfLine \in {"RO", "RwOrRo"} /\ actual' = actual
    /\ told' = CASE ClassifyConfigAddress(address) # "Decoded" -> "Unknown"
                 [] ClassifyConfigAddress(address) = "Decoded" /\ AccessOfLine = "RW" ->
                        Hearing(RegisterRows(address, value))
                 [] ClassifyConfigAddress(address) = "Decoded" /\ AccessOfLine = "RO" -> told
                 [] ClassifyConfigAddress(address) = "Decoded" /\ AccessOfLine = "RwOrRo" ->
                        "Unknown"
    /\ adopted' = Adopted(address, value)
    /\ settled' = Settled(address)
    /\ UNCHANGED line

-----------------------------------------------------------------------------
(* What the session goes by of the general register *)

SessionBits == {RegisterBit(GeneralConfigOffset, bit) : bit \in {31, 27, 26}}

AdoptedLevel == CASE line[3] = 31 -> adopted.crc
                  [] line[3] = 27 -> Bit(adopted.enc, 1)
                  [] line[3] = 26 -> Bit(adopted.enc, 0)

(* The target is back in Single mode without CRC checking; of everything    *)
(* else a reset may or may not change the level.                            *)
InbandReset ==
    /\ actual' \in IF line \in SessionBits THEN {FALSE} ELSE BOOLEAN
    /\ told' = "Unknown"
    /\ adopted' = DecodeGeneralConfig(ConfigResetValue(GeneralConfigOffset))
    /\ settled' = TRUE
    /\ UNCHANGED line

-----------------------------------------------------------------------------
PictureInit ==
    /\ line \in Lines
    /\ actual \in BOOLEAN
    /\ told = "Unknown"
    /\ adopted = GeneralConfigResetState
    /\ settled = FALSE

PictureNext ==
    \/ \E irq \in Interrupts, level \in BOOLEAN : SendInterrupt(irq, level)
    \/ \E index \in WireIndices, valid \in SUBSET LevelBits, levels \in SUBSET LevelBits :
           SendWires(index, valid, levels)
    \/ \E address \in Addresses, value \in DWords :
           \/ GetConfiguration(address, value)
           \/ SetConfiguration(address, value)
           \/ SetOtherConfiguration(address, value)
    \/ InbandReset

PictureSpec == PictureInit /\ [][PictureNext]_pictureVars

-----------------------------------------------------------------------------
(* Properties *)

(* tables/VirtualWires.h:81-85 (a level under a clear valid bit is an       *)
(* echo), ConfigRegisters.h: the last row to be believed about a line       *)
(* states the level it has, through any sequence of transactions about it   *)
(* and about others. A write's row of a read-only field says what was       *)
(* written and is not to be believed; after one of a field that may be      *)
(* read-only, or through an address with no register's name, nothing is.    *)
TruthTold == told # "Unknown" => told = LevelText(actual)

(* ConfigRegisters.cpp:230-239: whatever else its address says, a write     *)
(* that reaches the general register is one the session follows, and the    *)
(* two fields it goes by are the register's; a reset restores both.         *)
SessionFollowsRegister ==
    settled /\ line \in SessionBits => AdoptedLevel = actual
=============================================================================
