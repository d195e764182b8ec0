----------------------------- MODULE EspiTables -----------------------------
(***************************************************************************)
(* The bus protocol as the decoder's tables state it: I/O modes, command   *)
(* opcodes, packet shapes, cycle types with their headers, response codes  *)
(* and the one configuration register the decode depends on.               *)
(*                                                                         *)
(* A byte is a number in 0..255; a clock is one rising edge of the clock.  *)
(***************************************************************************)
EXTENDS Naturals, Sequences

Byte == 0..255

Bit(byte, bit) == (byte \div 2^bit) % 2 = 1

-----------------------------------------------------------------------------
(* Lanes and modes: IoMode.h *)

IoMode == {"Single", "Dual", "Quad"}

BitsPerClock(mode) == CASE mode = "Single" -> 1
                        [] mode = "Dual"   -> 2
                        [] mode = "Quad"   -> 4

ClocksPerByte(mode) == 8 \div BitsPerClock(mode)

(* A plausible bug: a lane short. *)
LanesForOneShort(mode, phase) ==
    [first |-> 0, count |-> IF mode = "Single" THEN 1 ELSE BitsPerClock(mode) - 1]

(* The contiguous lanes carrying data. In Single mode the controller drives *)
(* I/O[0] and the target I/O[1].                                            *)
LanesFor(mode, phase) ==
    IF mode = "Single" THEN [first |-> IF phase = "Command" THEN 0 ELSE 1, count |-> 1]
                       ELSE [first |-> 0, count |-> BitsPerClock(mode)]

-----------------------------------------------------------------------------
(* Command opcodes: tables/Opcodes.h, Opcodes.cpp *)

Opcode(name, encoding, channel, short) ==
    [name |-> name, encoding |-> encoding, channel |-> channel, short |-> short]

Opcodes == {
    Opcode("PUT_PC", 0, "Peripheral", FALSE),
    Opcode("GET_PC", 1, "Peripheral", FALSE),
    Opcode("PUT_NP", 2, "Peripheral", FALSE),
    Opcode("GET_NP", 3, "Peripheral", FALSE),
    Opcode("PUT_IORD_SHORT", 64, "Peripheral", TRUE),
    Opcode("PUT_IOWR_SHORT", 68, "Peripheral", TRUE),
    Opcode("PUT_MEMRD32_SHORT", 72, "Peripheral", TRUE),
    Opcode("PUT_MEMWR32_SHORT", 76, "Peripheral", TRUE),
    Opcode("PUT_VWIRE", 4, "VirtualWire", FALSE),
    Opcode("GET_VWIRE", 5, "VirtualWire", FALSE),
    Opcode("PUT_OOB", 6, "Oob", FALSE),
    Opcode("GET_OOB", 7, "Oob", FALSE),
    Opcode("PUT_FLASH_C", 8, "Flash", FALSE),
    Opcode("GET_FLASH_NP", 9, "Flash", FALSE),
    Opcode("PUT_FLASH_NP", 10, "Flash", FALSE),
    Opcode("GET_FLASH_C", 11, "Flash", FALSE),
    Opcode("GET_CONFIGURATION", 33, "ChannelIndependent", FALSE),
    Opcode("SET_CONFIGURATION", 34, "ChannelIndependent", FALSE),
    Opcode("GET_STATUS", 37, "ChannelIndependent", FALSE),
    Opcode("RESET", 255, "ChannelIndependent", FALSE) }

(* The low two bits of a short cycle's opcode are its length code C1C0.     *)
MatchesOpcode(byte, o) == o.encoding = IF o.short THEN byte - (byte % 4) ELSE byte

KnownOpcode(byte)  == \E o \in Opcodes : MatchesOpcode(byte, o)
LookupOpcode(byte) == CHOOSE o \in Opcodes : MatchesOpcode(byte, o)

(* A plausible bug: C1C0 taken for a count less one. *)
LinearRequestLength(byte) == (byte % 4) + 1

(* 0 is the reserved encoding 10b. *)
ShortRequestLength(byte) == <<1, 2, 0, 4>>[(byte % 4) + 1]

-----------------------------------------------------------------------------
(* Packet shapes: tables/PacketShapes.h, PacketShapes.cpp *)

Element == {"Addr16", "Data32", "Status16", "VwirePacket", "CycleHeader",
            "Payload", "IoAddr16", "MemAddr32", "ShortData"}

CommandElements(name) ==
    CASE name = "GET_CONFIGURATION" -> <<"Addr16">>
      [] name = "SET_CONFIGURATION" -> <<"Addr16", "Data32">>
      [] name = "PUT_VWIRE"         -> <<"VwirePacket">>
      [] name \in {"PUT_PC", "PUT_NP", "PUT_OOB", "PUT_FLASH_C", "PUT_FLASH_NP"}
                                    -> <<"CycleHeader", "Payload">>
      [] name = "PUT_IORD_SHORT"    -> <<"IoAddr16">>
      [] name = "PUT_IOWR_SHORT"    -> <<"IoAddr16", "ShortData">>
      [] name = "PUT_MEMRD32_SHORT" -> <<"MemAddr32">>
      [] name = "PUT_MEMWR32_SHORT" -> <<"MemAddr32", "ShortData">>
      [] OTHER                      -> << >>

ResponseElements(name) ==
    CASE name = "GET_CONFIGURATION" -> <<"Data32", "Status16">>
      [] name = "GET_VWIRE"         -> <<"VwirePacket", "Status16">>
      [] name \in {"PUT_NP", "GET_PC", "GET_NP", "GET_OOB", "GET_FLASH_NP", "GET_FLASH_C"}
                                    -> <<"CycleHeader", "Payload", "Status16">>
      [] name \in {"PUT_IORD_SHORT", "PUT_MEMRD32_SHORT"}
                                    -> <<"ShortData", "Status16">>
      [] name = "RESET"             -> << >>
      [] OTHER                      -> <<"Status16">>

ElementFixedSize(e) == CASE e \in {"Addr16", "Status16", "IoAddr16"} -> 2
                         [] e \in {"Data32", "MemAddr32"}            -> 4
                         [] OTHER                                    -> 0

ElementPresentOnlyOnAccept(e) == e \in {"CycleHeader", "Payload", "ShortData"}

(* A response that is not ACCEPT carries no completion: of the elements the  *)
(* shape lists, those that are there, in order. An ElementList holds four.   *)
PresentElements(elements, accepted) ==
    LET present(i) == /\ i \in DOMAIN elements
                      /\ accepted \/ ~ElementPresentOnlyOnAccept(elements[i])
        kept(i)    == IF present(i) THEN <<elements[i]>> ELSE << >>
    IN  kept(1) \o kept(2) \o kept(3) \o kept(4)

-----------------------------------------------------------------------------
(* Cycle types and the header each announces: tables/CycleTypes.h *)

CycleType(channel, code, variable, type, layout) ==
    [channel |-> channel, code |-> code, variable |-> variable, type |-> type,
     layout |-> layout]

CycleTypes == {
    CycleType("Peripheral",  0, "None", "NonPosted", "MemoryRead32"),
    CycleType("Peripheral",  1, "None", "Posted", "MemoryWrite32"),
    CycleType("Peripheral",  2, "None", "NonPosted", "MemoryRead64"),
    CycleType("Peripheral",  3, "None", "Posted", "MemoryWrite64"),
    CycleType("Peripheral",  6, "None", "Completion", "CompletionWithoutData"),
    CycleType("Peripheral",  8, "SplitCompletion", "Completion", "CompletionWithoutData"),
    CycleType("Peripheral",  9, "SplitCompletion", "Completion", "CompletionWithData"),
    CycleType("Peripheral", 16, "MessageRouting", "Posted", "Message"),
    CycleType("Peripheral", 17, "MessageRouting", "Posted", "MessageWithData"),
    CycleType("Oob",        33, "None", "Posted", "OobMessage"),
    CycleType("Flash",       0, "None", "NonPosted", "FlashRead"),
    CycleType("Flash",       1, "None", "NonPosted", "FlashWrite"),
    CycleType("Flash",       2, "None", "NonPosted", "FlashErase"),
    CycleType("Flash",       3, "RpmcTarget", "NonPosted", "FlashRpmcOp1"),
    CycleType("Flash",       4, "RpmcTarget", "NonPosted", "FlashRpmcOp2"),
    CycleType("Flash",       6, "None", "Completion", "FlashCompletionWithoutData"),
    CycleType("Flash",       8, "SplitCompletion", "Completion", "FlashCompletionWithoutData"),
    CycleType("Flash",       9, "SplitCompletion", "Completion", "FlashCompletionWithData") }

CycleTypesOf(channel) == {t \in CycleTypes : t.channel = channel}

(* The bits a row leaves open name a routing, a split or a target.          *)
FieldFor(variable) == CASE variable = "SplitCompletion" -> [shift |-> 1, width |-> 2]
                        [] variable = "MessageRouting"  -> [shift |-> 1, width |-> 3]
                        [] variable = "RpmcTarget"      -> [shift |-> 5, width |-> 2]
                        [] variable = "None"            -> [shift |-> 0, width |-> 0]

CycleVariableValue(byte, t) ==
    (byte \div 2 ^ FieldFor(t.variable).shift) % 2 ^ FieldFor(t.variable).width

(* A plausible bug: the byte compared whole. *)
MatchesWholeByte(byte, t) == byte = t.code

MatchesCycleType(byte, t) ==
    byte - CycleVariableValue(byte, t) * 2 ^ FieldFor(t.variable).shift = t.code

KnownCycleType(channel, byte)  == \E t \in CycleTypesOf(channel) : MatchesCycleType(byte, t)
LookupCycleType(channel, byte) ==
    CHOOSE t \in CycleTypesOf(channel) : MatchesCycleType(byte, t)

AddressBytes(layout) ==
    CASE layout \in {"MemoryRead64", "MemoryWrite64"} -> 8
      [] layout \in {"MemoryRead32", "MemoryWrite32", "FlashRead", "FlashWrite",
                     "FlashErase"}                    -> 4
      [] OTHER                                        -> 0

HasMessageCode(layout) == layout \in {"Message", "MessageWithData"}

HasPayload(layout) ==
    layout \in {"MemoryWrite32", "MemoryWrite64", "MessageWithData", "CompletionWithData",
                "OobMessage", "FlashWrite", "FlashRpmcOp1", "FlashCompletionWithData"}

LengthKind(layout) ==
    CASE layout = "Message"                                  -> "Reserved"
      [] layout \in {"CompletionWithoutData",
                     "FlashCompletionWithoutData"}           -> "MustBeZero"
      [] layout = "FlashErase"                               -> "BlockErase"
      [] OTHER                                               -> "OneBased"

(* Cycle type byte, tag and length, then the address or the message code    *)
(* with its four specific bytes: the header widths Figures 34 to 50 give.   *)
HeaderBytes(layout) == 3 + AddressBytes(layout) + IF HasMessageCode(layout) THEN 5 ELSE 0

-----------------------------------------------------------------------------
(* Response byte: tables/Responses.h, Responses.cpp *)

NoResponseByte == 255

(* A plausible bug: the response code alone looked at. *)
IsWaitStateCode(byte) == byte % 16 = 15

IsWaitState(byte) == byte # NoResponseByte /\ byte % 16 = 15

ResponseCodes == [c \in {1, 2, 3, 8, 15} |->
    CASE c = 8  -> "ACCEPT"
      [] c = 1  -> "DEFER"
      [] c = 2  -> "NON_FATAL_ERROR"
      [] c = 3  -> "FATAL_ERROR"
      [] c = 15 -> "WAIT_STATE"]

LookupResponse(byte) ==
    CASE byte = NoResponseByte               -> "NO_RESPONSE"
      [] byte # NoResponseByte /\ byte % 16 \in DOMAIN ResponseCodes
                                             -> ResponseCodes[byte % 16]
      [] OTHER                               -> "UNDEFINED"

ResponseModifier(byte) == byte \div 64

(* What GET_STATUS's modifier puts in front of the status, and the channel  *)
(* the appended packet is read in.                                          *)
AppendedElements(modifier) == CASE modifier \in {1, 3} -> <<"CycleHeader", "Payload">>
                                [] modifier = 2        -> <<"VwirePacket">>
                                [] OTHER               -> << >>

AppendedChannel(modifier, channel) == CASE modifier = 1 -> "Peripheral"
                                        [] modifier = 2 -> "VirtualWire"
                                        [] modifier = 3 -> "Flash"
                                        [] OTHER        -> channel

-----------------------------------------------------------------------------
(* The General Capabilities and Configurations register: ConfigRegisters.cpp *)

(* A plausible bug: a malformed address thought to reach no register. *)
IsWellFormedGeneralConfig(address) == address = 8

(* The select bits alone: the target ignores the four above them.            *)
IsGeneralConfigAddress(address) == address % 4096 = 8

(* The two fields the decode depends on: the I/O Mode Select encoding, whose *)
(* fourth value 11b is reserved, and CRC Checking Enable.                    *)
GeneralConfig == [enc : 0..3, crc : BOOLEAN]

ModeReserved(config) == config.enc = 3

DecodedMode(config) == CASE config.enc = 1 -> "Dual"
                         [] config.enc = 2 -> "Quad"
                         [] OTHER          -> "Single"

GeneralConfigResetState == [enc |-> 0, crc |-> FALSE]
=============================================================================
