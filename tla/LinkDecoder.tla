---------------------------- MODULE LinkDecoder -----------------------------
(***************************************************************************)
(* LinkDecoder::Decode: one chip select walked into one transaction.       *)
(*                                                                         *)
(* One action per element of the packet read whole, per framing byte and   *)
(* per early return. The byte source is abstracted to the one thing the    *)
(* decoder learns from it: whether the bytes it asks for come before the   *)
(* chip select is deasserted, which may happen under any read (RunOut).    *)
(* Byte values are abstracted to what steers the decode. CRC values are    *)
(* not modelled, which bytes they cover is.                                *)
(***************************************************************************)
EXTENDS Session, Integers

CONSTANTS
    OpcodeBytes,      \* opcode bytes on the wire
    ResponseBytes,    \* response bytes on the wire
    Addresses,        \* configuration register addresses
    Configs,          \* register values written to the general configuration
    CycleBytes,       \* a cycle header's first byte
    RawLengths,       \* its 12 bit Length field
    VwireCounts,      \* a virtual wire packet's count byte
    SmbusCounts,      \* an SMBus packet's Byte Count
    MaxWaits,         \* WAIT_STATE bytes before the chip select is released
    MaxResetBytes,    \* bytes that follow a RESET opcode
    None              \* nothing seen yet

ASSUME BytesAssumption ==
    /\ OpcodeBytes \subseteq Byte /\ ResponseBytes \subseteq Byte
    /\ CycleBytes \subseteq Byte
    /\ VwireCounts \subseteq Byte /\ SmbusCounts \subseteq Byte

ASSUME LengthsAssumption == RawLengths \subseteq 0..4095

ASSUME AddressesAssumption == Addresses \subseteq 0..65535

ASSUME ConfigsAssumption == Configs \subseteq GeneralConfig

ASSUME BoundsAssumption == MaxWaits \in Nat /\ MaxResetBytes \in Nat

ASSUME NoneAssumption == None \notin Byte \cup Addresses \cup GeneralConfig

VARIABLES
    pc,         \* where in DecodeTransaction
    armed,      \* the byte source is inside an asserted chip select
    phase,      \* the phase being read
    todo,       \* elements of the phase still to read
    context,    \* PacketContext
    tally,      \* bytes read, covered by the CRC and skipped as wait states
    result,     \* the transaction returned
    wire        \* history: what the wire has carried, undecoded

vars == <<pc, armed, phase, todo, context, tally, result, wire>>

Phase == {"Command", "Response"}

Layouts == {t.layout : t \in CycleTypes}

PacketContext ==
    [address : Addresses \cup {None}, channel : {o.channel : o \in Opcodes},
     shortLength : {0, 1, 2, 4}, payloadBytes : 0..4096, layout : Layouts \cup {None},
     posted : BOOLEAN, stopped : BOOLEAN, write : Configs \cup {None},
     reset : BOOLEAN, accepted : BOOLEAN]

NoContext ==
    [address |-> None, channel |-> "ChannelIndependent", shortLength |-> 0,
     payloadBytes |-> 0, layout |-> None, posted |-> FALSE, stopped |-> FALSE,
     write |-> None, reset |-> FALSE, accepted |-> FALSE]

Result == [truncated : BOOLEAN, complete : BOOLEAN, deferFlagged : BOOLEAN,
           patternFlagged : BOOLEAN, update : SessionUpdate]

NoResult == [truncated |-> FALSE, complete |-> FALSE, deferFlagged |-> FALSE,
             patternFlagged |-> FALSE, update |-> NoUpdate]

(* response: the last byte, a wait state's included; header: the first byte *)
(* and raw Length of a phase's cycle header; groups: the virtual wire       *)
(* groups announced; clocks: those of the frame of a RESET; undecided: a    *)
(* byte has been read of which it is not settled what it is.                *)
NoHeader == [byte |-> None, raw |-> 0]

NoWire == [opcode |-> None, address |-> None, write |-> None, response |-> None,
           header |-> [p \in Phase |-> NoHeader], groups |-> 0, clocks |-> 0,
           high |-> TRUE, undecided |-> FALSE]

(* tables/Responses.h:31-33, "WAIT_STATE shares the low nibble 1111 but     *)
(* requires [7:6]=00": with other bits there the byte is a wait state to    *)
(* IsWaitState and an undefined response to that comment.                   *)
Undecided(byte) == byte % 16 = 15 /\ byte # 255 /\ byte \div 64 # 0

NoTally == [p \in Phase |-> [read |-> 0, covered |-> 0, waits |-> 0]]

Name == LookupOpcode(wire.opcode).name

-----------------------------------------------------------------------------
(* PhaseReader: Read covers the bytes it reads, ReadUncovered does not.     *)
Read(n) ==
    /\ armed
    /\ tally' = [tally EXCEPT ![phase].read = @ + n, ![phase].covered = @ + n]

ReadUncovered(n) ==
    /\ armed
    /\ tally' = [tally EXCEPT ![phase].read = @ + n]

(* The bytes the next read wants; none for a payload the header left empty. *)
WantsNone ==
    /\ pc = "elements"
    /\ \/ todo = << >>
       \/ Head(todo) = "Payload" /\ context.payloadBytes = 0

Reading == pc \in {"opcode", "elements", "crc", "tar", "response"} /\ ~WantsNone

(* A plausible bug: the context outlives the transaction. *)
BeginKeepsContext ==
    /\ pc = "idle"
    /\ pc' = "opcode"
    /\ armed' = TRUE
    /\ phase' = "Command"
    /\ todo' = << >>
    /\ context' = [NoContext EXCEPT !.posted = context.posted]
    /\ tally' = NoTally
    /\ result' = NoResult
    /\ wire' = NoWire

Begin ==
    /\ pc = "idle"
    /\ pc' = "opcode"
    /\ armed' = TRUE
    /\ phase' = "Command"
    /\ todo' = << >>
    /\ context' = NoContext
    /\ tally' = NoTally
    /\ result' = NoResult
    /\ wire' = NoWire

(* A plausible bug: the wait state loop goes on when there are no bytes.    *)
RunOutKeepsWaiting ==
    /\ Reading
    /\ armed' = FALSE
    /\ result' = [result EXCEPT !.truncated = TRUE]
    /\ pc' = IF pc = "response" THEN pc ELSE "record"
    /\ UNCHANGED <<phase, todo, context, tally, wire>>

(* The chip select is deasserted under a read: the element is lost and the  *)
(* transaction truncated, wherever it happens.                              *)
RunOut ==
    /\ Reading
    /\ armed' = FALSE
    /\ result' = [result EXCEPT !.truncated = ~context.stopped]
    /\ pc' = "record"
    /\ UNCHANGED <<phase, todo, context, tally, wire>>

-----------------------------------------------------------------------------
(* The command opcode *)

ReadOpcode(byte) ==
    /\ pc = "opcode"
    /\ Read(1)
    /\ wire' = [wire EXCEPT !.opcode = byte]
    /\ UNCHANGED <<armed, phase, result>>

ReservedLength(byte) == LookupOpcode(byte).short /\ ShortRequestLength(byte) = 0

UndefinedOpcode(byte) ==
    /\ ReadOpcode(byte)
    /\ ~KnownOpcode(byte)
    /\ pc' = "record"
    /\ UNCHANGED <<todo, context>>

(* The length is unknown: the decode stops, and blames nobody. *)
ReservedLengthOpcode(byte) ==
    /\ ReadOpcode(byte)
    /\ KnownOpcode(byte) /\ ReservedLength(byte)
    /\ pc' = "record"
    /\ context' = [context EXCEPT !.channel = LookupOpcode(byte).channel]
    /\ UNCHANGED todo

ResetOpcode(byte) ==
    /\ ReadOpcode(byte)
    /\ KnownOpcode(byte) /\ LookupOpcode(byte).name = "RESET"
    /\ pc' = "reset"
    /\ UNCHANGED <<todo, context>>

CommandOpcode(byte) ==
    /\ ReadOpcode(byte)
    /\ KnownOpcode(byte) /\ ~ReservedLength(byte) /\ LookupOpcode(byte).name # "RESET"
    /\ pc' = "elements"
    /\ todo' = CommandElements(LookupOpcode(byte).name)
    /\ context' = [context EXCEPT !.channel = LookupOpcode(byte).channel,
                                  !.shortLength = IF LookupOpcode(byte).short
                                                  THEN ShortRequestLength(byte) ELSE 0]

ResetClocks == 16

(* Whole bytes only: clocks left over at the deassertion edge are not seen. *)
ReadResetRemainder(mode, clocks, high) ==
    LET bytes == clocks \div ClocksPerByte(mode)
    IN  /\ pc = "reset"
        /\ clocks >= ClocksPerByte(mode)      \* the opcode has been read
        /\ ReadUncovered(bytes - 1)
        /\ wire' = [wire EXCEPT !.clocks = clocks, !.high = high]
        /\ context' = [context EXCEPT !.reset = TRUE]
        /\ result' = [result EXCEPT !.patternFlagged =
                          bytes * ClocksPerByte(mode) # ResetClocks \/ ~high]
        /\ armed' = FALSE
        /\ pc' = "record"
        /\ UNCHANGED <<phase, todo>>

-----------------------------------------------------------------------------
(* Elements: ReadElements and what it calls *)

(* The head of todo, read whole: n bytes. *)
ReadElement(n) ==
    /\ pc = "elements"
    /\ Read(n)
    /\ todo' = Tail(todo)
    /\ UNCHANGED <<pc, armed, phase, result>>

AtElement(e) == pc = "elements" /\ todo # << >> /\ Head(todo) = e

ReadAddr16(address) ==
    /\ AtElement("Addr16")
    /\ ReadElement(2)
    /\ context' = [context EXCEPT !.address = address]
    /\ wire' = [wire EXCEPT !.address = address]

(* A plausible bug: GET_CONFIGURATION's data, read back, taken for a write. *)
RecognisesEitherPhase(ctx, config) ==
    IF ctx.address # None /\ IsGeneralConfigAddress(ctx.address) THEN config ELSE ctx.write

(* A DWord written to 008h in the command phase is the one packet that      *)
(* changes how the bus is read. Recognised by shape, not by opcode.         *)
RecognisesWrite(ctx, config) ==
    IF phase = "Command" /\ ctx.address # None /\ IsGeneralConfigAddress(ctx.address)
    THEN config ELSE ctx.write

ReadData32(config) ==
    /\ AtElement("Data32")
    /\ ReadElement(4)
    /\ context' = [context EXCEPT !.write = RecognisesWrite(context, config)]
    /\ wire' = IF phase = "Command" THEN [wire EXCEPT !.write = config] ELSE wire

ReadPlain ==
    /\ \E e \in {"Status16", "IoAddr16", "MemAddr32"} :
           AtElement(e) /\ ReadElement(ElementFixedSize(e))
    /\ UNCHANGED <<context, wire>>

VwireGroupCount(count) == (count % 64) + 1

ReadVwirePacket(count) ==
    /\ AtElement("VwirePacket")
    /\ ReadElement(1 + 2 * VwireGroupCount(count))
    /\ wire' = [wire EXCEPT !.groups = (count % 64) + 1]
    /\ UNCHANGED context

(* A plausible bug: the Length field taken at face value. *)
LengthAtFaceValue(raw) == raw

CycleResolvedLength(raw) == IF raw = 0 THEN 4096 ELSE raw

PayloadBytes(layout, raw) ==
    IF HasPayload(layout) /\ LengthKind(layout) = "OneBased" THEN CycleResolvedLength(raw) ELSE 0

(* Only the command phase's cycle type says what the transaction is. *)
ReadCycleHeader(byte, raw) ==
    LET type == LookupCycleType(context.channel, byte)
    IN  /\ AtElement("CycleHeader")
        /\ KnownCycleType(context.channel, byte)
        /\ ReadElement(HeaderBytes(type.layout))
        /\ context' = [context EXCEPT !.layout = type.layout,
                                      !.payloadBytes = PayloadBytes(type.layout, raw),
                                      !.posted = IF phase = "Command"
                                                 THEN type.type = "Posted" ELSE @]
        /\ wire' = [wire EXCEPT !.header[phase] = [byte |-> byte, raw |-> raw]]

(* No such encoding in the channel's table: the length is unknown. *)
UnknownCycleType(byte) ==
    /\ AtElement("CycleHeader")
    /\ ~KnownCycleType(context.channel, byte)
    /\ Read(1)
    /\ context' = [context EXCEPT !.layout = None, !.payloadBytes = 0, !.stopped = TRUE]
    /\ wire' = [wire EXCEPT !.header[phase].byte = byte]
    /\ result' = [result EXCEPT !.truncated = FALSE]
    /\ pc' = "record"
    /\ UNCHANGED <<armed, phase, todo>>

(* A tunneled SMBus packet states its length twice; a Byte Count that does  *)
(* not leave room for exactly an optional PEC is not believed. A named      *)
(* command's header is part of the counted bytes and is not split off here. *)
SmbusHeaderBytes == 3
PecBytes(length, count) == length - SmbusHeaderBytes - count

SmbusPayloadBytes(length, count) ==
    IF PecBytes(length, count) \in {0, 1}
    THEN SmbusHeaderBytes + count + PecBytes(length, count)
    ELSE SmbusHeaderBytes + (length - SmbusHeaderBytes)

ReadPayload(count) ==
    /\ AtElement("Payload")
    /\ ReadElement(IF context.layout = "OobMessage" /\ context.payloadBytes >= SmbusHeaderBytes
                   THEN SmbusPayloadBytes(context.payloadBytes, count)
                   ELSE context.payloadBytes)
    /\ UNCHANGED <<context, wire>>

ReadShortData ==
    /\ AtElement("ShortData")
    /\ ReadElement(context.shortLength)
    /\ UNCHANGED <<context, wire>>

EndElements ==
    /\ pc = "elements"
    /\ todo = << >>
    /\ pc' = "crc"
    /\ UNCHANGED <<armed, phase, todo, context, tally, result, wire>>

-----------------------------------------------------------------------------
(* CRC, turn-around and response *)

ReadCrc ==
    /\ pc = "crc"
    /\ ReadUncovered(1)
    /\ pc' = IF phase = "Command" THEN "tar" ELSE "record"
    /\ result' = [result EXCEPT !.complete = phase = "Response"]
    /\ UNCHANGED <<armed, phase, todo, context, wire>>

TurnAround ==
    /\ pc = "tar"
    /\ armed
    /\ pc' = "response"
    /\ phase' = "Response"
    /\ UNCHANGED <<armed, todo, context, tally, result, wire>>

(* A plausible bug: wait states folded into the CRC. *)
WaitStateCovered(byte) ==
    /\ pc = "response" /\ armed
    /\ IsWaitState(byte)
    /\ tally[phase].waits < MaxWaits
    /\ tally' = [tally EXCEPT ![phase].read = @ + 1, ![phase].waits = @ + 1,
                             ![phase].covered = @ + 1]
    /\ wire' = [wire EXCEPT !.response = byte, !.undecided = @ \/ Undecided(byte)]
    /\ UNCHANGED <<pc, armed, phase, todo, context, result>>

(* Wait states are read outside the CRC. *)
WaitState(byte) ==
    /\ pc = "response" /\ armed
    /\ IsWaitState(byte)
    /\ tally[phase].waits < MaxWaits
    /\ tally' = [tally EXCEPT ![phase].read = @ + 1, ![phase].waits = @ + 1]
    /\ wire' = [wire EXCEPT !.response = byte, !.undecided = @ \/ Undecided(byte)]
    /\ UNCHANGED <<pc, armed, phase, todo, context, result>>

ReadResponse(byte) ==
    /\ pc = "response"
    /\ ~IsWaitState(byte)
    /\ wire' = [wire EXCEPT !.response = byte]
    /\ UNCHANGED <<armed, phase>>

UndefinedResponse(byte) ==
    /\ ReadResponse(byte)
    /\ LookupResponse(byte) = "UNDEFINED"
    /\ ReadUncovered(1)
    /\ pc' = "record"
    /\ UNCHANGED <<todo, context, result>>

NoResponse(byte) ==
    /\ ReadResponse(byte)
    /\ LookupResponse(byte) = "NO_RESPONSE"
    /\ Read(1)
    /\ pc' = "record"
    /\ context' = [context EXCEPT !.accepted = FALSE]
    /\ UNCHANGED <<todo, result>>

Respond(byte) ==
    LET accepted == LookupResponse(byte) = "ACCEPT"
        modifier == IF Name = "GET_STATUS" /\ accepted THEN ResponseModifier(byte) ELSE 0
    IN  /\ ReadResponse(byte)
        /\ LookupResponse(byte) \notin {"UNDEFINED", "NO_RESPONSE"}
        /\ Read(1)
        /\ pc' = "elements"
        /\ todo' = AppendedElements(modifier) \o PresentElements(ResponseElements(Name), accepted)
        /\ context' = [context EXCEPT !.accepted = accepted,
                                      !.channel = AppendedChannel(modifier, @)]
        /\ result' = [result EXCEPT !.deferFlagged =
                          LookupResponse(byte) = "DEFER" /\ context.posted]

-----------------------------------------------------------------------------
(* RecordSessionUpdate, on every way out *)

SessionUpdateOf(ctx) ==
    CASE ctx.reset                                        -> ResetUpdate
      [] ~ctx.reset /\ ctx.write # None /\ ctx.accepted   -> WrittenUpdate(ctx.write)
      [] ~ctx.reset /\ ctx.write # None /\ ~ctx.accepted  -> UncertainUpdate
      [] OTHER                                            -> NoUpdate

RecordSessionUpdate ==
    /\ pc = "record"
    /\ result' = [result EXCEPT !.update = SessionUpdateOf(context)]
    /\ pc' = "idle"
    /\ UNCHANGED <<armed, phase, todo, context, tally, wire>>

-----------------------------------------------------------------------------
Init ==
    /\ pc = "idle"
    /\ armed = FALSE
    /\ phase = "Command"
    /\ todo = << >>
    /\ context = NoContext
    /\ tally = NoTally
    /\ result = NoResult
    /\ wire = NoWire

OpcodeStep == \E byte \in OpcodeBytes :
    \/ UndefinedOpcode(byte)
    \/ ReservedLengthOpcode(byte)
    \/ ResetOpcode(byte)
    \/ CommandOpcode(byte)

ResetStep == \E mode \in IoMode, clocks \in 1..8 * (MaxResetBytes + 1), high \in BOOLEAN :
    ReadResetRemainder(mode, clocks, high)

ElementStep ==
    \/ \E address \in Addresses : ReadAddr16(address)
    \/ \E config \in Configs : ReadData32(config)
    \/ ReadPlain
    \/ \E count \in VwireCounts : ReadVwirePacket(count)
    \/ \E byte \in CycleBytes : \/ \E raw \in RawLengths : ReadCycleHeader(byte, raw)
                                \/ UnknownCycleType(byte)
    \/ \E count \in SmbusCounts : ReadPayload(count)
    \/ ReadShortData
    \/ EndElements

ResponseStep == \E byte \in ResponseBytes :
    \/ WaitState(byte)
    \/ UndefinedResponse(byte)
    \/ NoResponse(byte)
    \/ Respond(byte)

Decode == RunOut \/ OpcodeStep \/ ResetStep \/ ElementStep \/ ReadCrc \/ TurnAround
            \/ ResponseStep \/ RecordSessionUpdate

Next == Begin \/ Decode

(* The worker that called Decode runs it to its end. *)
Spec == Init /\ [][Next]_vars /\ WF_vars(Decode)

-----------------------------------------------------------------------------
(* Properties *)

TypeOK ==
    /\ pc \in {"idle", "opcode", "reset", "elements", "crc", "tar", "response", "record"}
    /\ armed \in BOOLEAN
    /\ phase \in Phase
    /\ todo \in Seq(Element) /\ Len(todo) <= 3
    /\ context \in PacketContext
    /\ tally \in [Phase -> [read : Nat, covered : Nat, waits : 0..MaxWaits]]
    /\ result \in Result

Accepted == wire.response # None /\ LookupResponse(wire.response) = "ACCEPT"

(* Base spec 5.2 p.90 (LinkDecoder.cpp:1450-1482): in a transaction read to *)
(* its end each phase's CRC covers every byte but itself and the wait       *)
(* states, the response byte included.                                      *)
CrcCoverage ==
    result.complete =>
        \A p \in Phase : tally[p].covered = tally[p].read - tally[p].waits - 1

(* The channel a phase's cycle header belongs to, and the bytes Table 5     *)
(* prints for it, told one by one.                                          *)
HeaderChannel(p) ==
    IF p = "Response" /\ Name = "GET_STATUS"
    THEN IF ResponseModifier(wire.response) = 1 THEN "Peripheral" ELSE "Flash"
    ELSE LookupOpcode(wire.opcode).channel

Printed(channel, byte) ==
    CASE channel = "Peripheral" -> byte \in {0, 1, 2, 3, 6} \cup 8..15 \cup 16..31
      [] channel = "Oob"        -> byte = 33
      [] channel = "Flash"      -> byte \in {0, 1, 2, 6} \cup {3, 35, 67, 99}
                                              \cup {4, 36, 68, 100} \cup 8..15

(* The lengths the figures give, in bytes: header widths Figures 34 to 50,  *)
(* data as the header's Length says, with all zeros meaning 4 KB, and only  *)
(* after an odd cycle type, "the LSB of the encodings distinguishes between *)
(* a cycle with data and a cycle without data" (CycleTypes.h:71-77).        *)
FigureHeaderBytes(channel, byte) ==
    CASE channel = "Peripheral" /\ byte \in {2, 3}    -> 11
      [] channel = "Peripheral" /\ byte \in 16..31    -> 8
      [] channel = "Peripheral" /\ byte \in {0, 1}    -> 7
      [] channel = "Flash"      /\ byte \in {0, 1, 2} -> 7
      [] OTHER                                        -> 3

FigureBytes(p, e) ==
    LET header == wire.header[p]
    IN  CASE e = "CycleHeader" -> FigureHeaderBytes(HeaderChannel(p), header.byte)
          [] e = "Payload"     -> IF header.byte % 2 = 0 THEN 0
                                  ELSE IF header.raw = 0 THEN 4096 ELSE header.raw
          [] e = "VwirePacket" -> 1 + 2 * wire.groups
          [] e = "ShortData"   -> (wire.opcode % 4) + 1
          [] e \in {"Data32", "MemAddr32"} -> 4
          [] OTHER             -> 2

FigureElements(p) ==
    CASE p = "Command"              -> CommandElements(Name)
      [] p = "Response" /\ Accepted -> (IF Name = "GET_STATUS"
                                        THEN AppendedElements(ResponseModifier(wire.response))
                                        ELSE << >>) \o ResponseElements(Name)
      [] OTHER                      -> <<"Status16">>

(* No phase of the figures has more than three elements.                    *)
PhaseBytes(p) ==
    LET drawn(i) == IF i \in DOMAIN FigureElements(p)
                    THEN FigureBytes(p, FigureElements(p)[i]) ELSE 0
    IN  drawn(1) + drawn(2) + drawn(3)

(* tables/PacketShapes.h (Figures 20 to 30): a transaction read to its end  *)
(* holds exactly the bytes the figures draw, framing and wait states        *)
(* included: every element has been read, with its own length, and an error *)
(* answer carried a status and nothing else. The two reads whose error      *)
(* answers the code reads otherwise are ErrorAnswerIsStatusOnly's.          *)
FrameLength ==
    result.complete =>
        /\ tally["Command"].read = 1 + PhaseBytes("Command") + 1
        /\ Accepted \/ Name \notin {"GET_VWIRE", "GET_CONFIGURATION"}
            => tally["Response"].read = tally["Response"].waits + 1 + PhaseBytes("Response") + 1

(* LinkDecoder.cpp:829-833, 1494-1505: DEFER is flagged exactly when this   *)
(* transaction's own command header was of a posted type; what an appended  *)
(* completion or an earlier transaction carried has no say.                 *)
DeferFlaggedForPosted ==
    pc = "record" =>
        (result.deferFlagged <=>
            /\ wire.response # None /\ LookupResponse(wire.response) = "DEFER"
            /\ \/ Name = "PUT_OOB"
               \/ HeaderChannel("Command") = "Peripheral"
                  /\ wire.header["Command"].byte \in {1, 3} \cup 16..31)

(* LinkDecoder.cpp:815-827, 1358-1383, 1471-1477: a decode that ends before *)
(* its CRC with bytes still to come gives up where the packet's length      *)
(* cannot be known, and nowhere else: an opcode, a cycle type or a response *)
(* nobody defined, a reserved length, or no target at all.                  *)
GivesUpOnUnknownLength ==
    pc = "idle" /\ wire.opcode # None /\ armed /\ ~result.complete =>
        \/ ~KnownOpcode(wire.opcode)
        \/ wire.opcode \div 16 = 4 /\ wire.opcode % 4 = 2
        \/ \E p \in Phase : /\ wire.header[p].byte # None
                            /\ ~Printed(HeaderChannel(p), wire.header[p].byte)
        \/ wire.response # None /\ \/ wire.response % 16 \notin {1, 2, 3, 8, 15}
                                   \/ wire.response = 255

(* Decode.h, LinkDecoder.h: the decoder implements its contract. What the   *)
(* wire did is told from the bytes it carried, not from the context. A byte *)
(* xFh is no answer when the code and the comment of the table agree that   *)
(* it is a wait state, and is told to be undecided when they do not.        *)
Contract == INSTANCE LinkContract WITH
    NoWrite <- None,
    busy    <- pc # "idle",
    ranOut  <- ~armed,
    reset   <- wire.opcode = 255,
    wrote   <- IF wire.opcode = 34 /\ wire.address # None /\ IsGeneralConfigAddress(wire.address)
               THEN wire.write ELSE None,
    undecided <- wire.undecided,
    answer  <- IF wire.response \in {None} \cup {16 * n + 15 : n \in 0..14} THEN "None"
               ELSE IF Accepted THEN "Accept" ELSE "Other",
    verdict <- IF pc = "idle" THEN [truncated |-> result.truncated, update |-> result.update]
               ELSE [truncated |-> FALSE, update |-> NoUpdate]

ImplementsContract == Contract!Spec

(* LinkDecoder.cpp:1332-1339, "returns from fourteen places": every call    *)
(* returns.                                                                 *)
DecodeReturns == pc = "opcode" ~> pc = "idle"

-----------------------------------------------------------------------------
(* What the documentation says and the code does not do. *)

(* tables/PacketShapes.h:98-106: "There is neither Header nor Data field    *)
(* during the Response phase" of an error answer, "stated for every         *)
(* opcode".                                                                 *)
ErrorAnswerIsStatusOnly ==
    result.complete /\ ~Accepted
        => tally["Response"].read = tally["Response"].waits + 1 + 2 + 1

(* tables/PacketShapes.h:69-75: "DEFER response for posted transaction is   *)
(* invalid", and PUT_MEMWR32_SHORT is "the one short cycle" that is posted. *)
DeferToPostedWriteFlagged ==
    result.complete /\ Name = "PUT_MEMWR32_SHORT" /\ LookupResponse(wire.response) = "DEFER"
        => result.deferFlagged

(* LinkDecoder.cpp:1192-1196: the clocks of an in-band reset are "checked   *)
(* against what the frame actually held".                                   *)
ResetPatternChecked ==
    pc = "record" /\ context.reset
        => (result.patternFlagged <=> wire.clocks # ResetClocks \/ ~wire.high)
=============================================================================
