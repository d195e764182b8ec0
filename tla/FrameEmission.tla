---------------------------- MODULE FrameEmission ----------------------------
(***************************************************************************)
(* From a transaction to the frames drawn for it: LinkDecoder::Decode adds *)
(* fields to the command, the turn-around and the response as it reads     *)
(* them, cut short wherever the chip select is deasserted, and             *)
(* EspiAnalyzer::EmitField walks the tree.                                 *)
(*                                                                         *)
(* The walk is a worklist: the recursion of EmitField visits a field's     *)
(* children, first to last, before the field's next sibling.               *)
(***************************************************************************)
EXTENDS FieldTree, Functions

CONSTANTS
    OpcodeBytes,      \* opcode bytes on the wire
    ResponseBytes,    \* response bytes on the wire
    PayloadLengths,   \* data bytes a cycle header announces
    SmbusCounts,      \* an SMBus packet's Byte Count
    GroupCounts,      \* groups of a virtual wire packet
    MaxWaits,         \* wait states before a response byte
    MaxResetBytes,    \* bytes that follow a RESET opcode
    None              \* not known yet

ASSUME FrameAssumption ==
    /\ OpcodeBytes \subseteq Byte /\ ResponseBytes \subseteq Byte
    /\ PayloadLengths \subseteq 1..4096 /\ SmbusCounts \subseteq Byte
    /\ GroupCounts \subseteq 1..64
    /\ MaxWaits \in Nat /\ MaxResetBytes \in Nat
    /\ None \notin Byte
    /\ None \notin {t.layout : t \in CycleTypes} \cup {o.channel : o \in Opcodes}

VARIABLES
    pc,            \* where in DecodeTransaction, or in the loop that emits
    opcode,        \* what has been read that decides the rest
    layout,
    channel,
    todo,          \* elements of the phase still to read
    at,            \* units read
    phase,         \* the field of the phase being read
    phaseAt,       \* units read before it
    fields,        \* Transaction::fields
    work,          \* fields EmitField has still to visit
    previousEnd,   \* previous_end
    frames         \* frames added to the results

reading  == <<opcode, layout, channel, todo, at, phase, phaseAt>>
emitting == <<work, previousEnd, frames>>
vars == <<pc, opcode, layout, channel, todo, at, phase, phaseAt, fields, work, previousEnd,
          frames>>

-----------------------------------------------------------------------------
(* DecodeTransaction: every way out records the phase read so far.          *)

Stop(phaseField) ==
    /\ pc' = "record"
    /\ phase' = phaseField
    /\ fields' = Append(fields, phaseField)
    /\ UNCHANGED <<emitting, opcode, layout, channel, todo, phaseAt>>

(* command.span = cmd.Span(): every byte of the phase, the wait states too. *)
Spanned(phaseField, units) == [phaseField EXCEPT !.span = Units(phaseAt, units - phaseAt)]

RunOut ==
    /\ pc \in {"opcode", "crc", "response"}
    /\ \/ Stop(phase)
       \/ pc = "response" /\ Stop(Add(phase, Field("WAIT_STATE", NoSpan)))
    /\ UNCHANGED at

TurnAroundRunsOut ==
    /\ pc = "tar"
    /\ pc' = "record"
    /\ UNCHANGED <<emitting, reading, fields>>

OpcodeField == Field("Opcode", Units(at, 1))

ReadUndefinedOpcode(byte) ==
    /\ pc = "opcode"
    /\ ~KnownOpcode(byte)
    /\ at' = at + 1
    /\ Stop(Add(phase, Field("Opcode", NoSpan)))

ReadReservedLength(byte) ==
    /\ pc = "opcode"
    /\ KnownOpcode(byte) /\ LookupOpcode(byte).short /\ ShortRequestLength(byte) = 0
    /\ at' = at + 1
    /\ Stop(AddAll(phase, <<OpcodeField, Field("RequestLength", NoSpan)>>))

ReadOpcode(byte) ==
    /\ pc = "opcode"
    /\ KnownOpcode(byte)
    /\ LET o == LookupOpcode(byte)
       IN  /\ o.short => ShortRequestLength(byte) # 0
           /\ phase' = AddAll(phase, <<OpcodeField>>
                                \o IF o.short THEN <<Field("RequestLength", Units(at, 1))>>
                                   ELSE << >>)
           /\ pc' = IF o.name = "RESET" THEN "reset" ELSE "elements"
           /\ todo' = CommandElements(o.name)
           /\ channel' = o.channel
    /\ opcode' = byte
    /\ at' = at + 1
    /\ UNCHANGED <<emitting, layout, phaseAt, fields>>

(* The clocks are whole bytes in some mode; 16 of them, all high, is the    *)
(* pattern.                                                                 *)
ReadResetRemainder(mode, bytes, high) ==
    LET deviates == (bytes + 1) * ClocksPerByte(mode) # 16 \/ ~high
    IN  /\ pc = "reset"
        /\ at' = at + bytes
        /\ Stop(Spanned(AddAll(phase, ResetFields(at, bytes, deviates)), at + bytes))

(* The head of todo read whole. *)
ReadElement(e, whole) ==
    /\ pc = "elements"
    /\ todo # << >> /\ Head(todo) = e
    /\ phase' = AddAll(phase, whole.fields)
    /\ at' = at + whole.bytes
    /\ todo' = Tail(todo)
    /\ UNCHANGED <<emitting, pc, opcode, channel, phaseAt, fields>>

(* The chip select deasserted inside the head of todo.                      *)
CutElement(e, part) ==
    /\ pc = "elements"
    /\ todo # << >> /\ Head(todo) = e
    /\ at' = at
    /\ Stop(AddAll(phase, part))

ReadFixed(e) ==
    \/ ReadElement(e, FixedWhole(at, e)) /\ UNCHANGED layout
    \/ CutElement(e, << >>)

ReadShortData ==
    \/ ReadElement("ShortData", ShortDataWhole(at, ShortRequestLength(opcode))) /\ UNCHANGED layout
    \/ CutElement("ShortData", << >>)

ReadVwirePacket ==
    \E groups \in GroupCounts :
        \/ /\ \E reserved \in BOOLEAN : ReadElement("VwirePacket", VwireWhole(at, groups, reserved))
           /\ UNCHANGED layout
        \/ \E part \in VwirePart(at, groups) : CutElement("VwirePacket", part)

ReadCycleHeader(type) ==
    /\ type \in CycleTypesOf(channel)
    /\ \/ ReadElement("CycleHeader", CycleHeaderWhole(at, type.layout)) /\ layout' = type.layout
       \/ \E part \in CycleHeaderPart(at, type.layout) : CutElement("CycleHeader", part)

(* The cycle type byte has no field of its own either.                      *)
UnknownCycleType == CutElement("CycleHeader", <<Field("CycleType", NoSpan)>>)

ReadPayload(length, count, mctp) ==
    \/ ReadElement("Payload", PayloadWhole(at, layout, length, count, mctp)) /\ UNCHANGED layout
    \/ /\ HasPayload(layout)
       /\ \E part \in PayloadPart(at, layout, length, count, mctp) : CutElement("Payload", part)

EndElements ==
    /\ pc = "elements" /\ todo = << >>
    /\ pc' = "crc"
    /\ UNCHANGED <<emitting, reading, fields>>

(* A command goes on to the turn-around, a response is the end.             *)
ReadCrc ==
    LET crc == Spanned(Add(phase, Field("CRC", Units(at, 1))), at + 1)
    IN  /\ pc = "crc"
        /\ at' = at + 1
        /\ phase' = crc
        /\ fields' = Append(fields, crc)
        /\ pc' = IF phase.name = "Command" THEN "tar" ELSE "record"
        /\ UNCHANGED <<emitting, opcode, layout, channel, todo, phaseAt>>

TurnAround ==
    /\ pc = "tar"
    /\ at' = at + 1
    /\ fields' = Append(fields, Field("TAR", Units(at, 1)))
    /\ phase' = Field("Response", NoSpan)
    /\ phaseAt' = at + 1
    /\ pc' = "response"
    /\ UNCHANGED <<emitting, opcode, layout, channel, todo>>

(* The response byte after the wait states, if any: these have no span.     *)
Waited(waits) == IF waits = 0 THEN phase ELSE Add(phase, Field("WAIT_STATE", NoSpan))

ReadLastResponse(byte, waits) ==
    /\ pc = "response"
    /\ at' = at + waits + 1
    /\ \/ /\ LookupResponse(byte) = "UNDEFINED"
          /\ Stop(Add(Waited(waits), Field("Response", NoSpan)))
       \/ /\ LookupResponse(byte) = "NO_RESPONSE"
          /\ Stop(Add(Waited(waits), Field("Response", Units(at + waits, 1))))

ReadResponse(byte, waits) ==
    LET name     == LookupOpcode(opcode).name
        accepted == LookupResponse(byte) = "ACCEPT"
        modifier == IF name = "GET_STATUS" /\ accepted THEN ResponseModifier(byte) ELSE 0
    IN  /\ pc = "response"
        /\ ~IsWaitState(byte)
        /\ LookupResponse(byte) \notin {"UNDEFINED", "NO_RESPONSE"}
        /\ phase' = Add(Waited(waits), Explained("Response", Units(at + waits, 1)))
        /\ at' = at + waits + 1
        /\ todo' = AppendedElements(modifier) \o PresentElements(ResponseElements(name), accepted)
        /\ channel' = AppendedChannel(modifier, channel)
        /\ pc' = "elements"
        /\ UNCHANGED <<emitting, opcode, layout, phaseAt, fields>>

(* RecordSessionUpdate: the consequence of a reset, or of a configuration   *)
(* write if it was to 008h, is a field of no bytes.                         *)
Wrote ==
    /\ opcode # None /\ LookupOpcode(opcode).name = "SET_CONFIGURATION"
    /\ \E i \in DOMAIN fields[1].children : fields[1].children[i].name = "Data"

RecordSessionUpdate(changes) ==
    LET all == IF changes
               THEN Append(fields, AddAll(Field("Session", NoSpan), <<Field("IoMode", NoSpan)>>))
               ELSE fields
    IN  /\ pc = "record"
        /\ IF opcode # None /\ LookupOpcode(opcode).name = "RESET" THEN changes
           ELSE changes => Wrote
        /\ fields' = all
        /\ work' = all
        /\ previousEnd' = 0
        /\ pc' = "emit"
        /\ UNCHANGED <<reading, frames>>

-----------------------------------------------------------------------------
(* EmitField *)

ChildrenAreSeparateBytes(field) ==
    \E i \in DOMAIN field.children : field.children[i].span # field.span

(* A plausible bug: one sample more asked for.                              *)
EmittableIfLonger(span) == span.last > span.first + 1

Emittable(span) == span.last > span.first

(* Plausible bugs: the siblings first; the return forgotten; the field left *)
(* where it was.                                                            *)
DescendBreadthFirst ==
    /\ pc = "emit" /\ work # << >>
    /\ ChildrenAreSeparateBytes(Head(work))
    /\ work' = Tail(work) \o Head(work).children
    /\ UNCHANGED <<pc, reading, fields, previousEnd, frames>>

DescendFallsThrough ==
    /\ pc = "emit" /\ work # << >>
    /\ ChildrenAreSeparateBytes(Head(work))
    /\ work' = Head(work).children \o <<[Head(work) EXCEPT !.children = << >>]>> \o Tail(work)
    /\ UNCHANGED <<pc, reading, fields, previousEnd, frames>>

DescendKeepsParent ==
    /\ pc = "emit" /\ work # << >>
    /\ ChildrenAreSeparateBytes(Head(work))
    /\ work' = Head(work).children \o work
    /\ UNCHANGED <<pc, reading, fields, previousEnd, frames>>

(* The children are further bytes: visit them instead of the field.         *)
Descend ==
    /\ pc = "emit" /\ work # << >>
    /\ ChildrenAreSeparateBytes(Head(work))
    /\ work' = Head(work).children \o Tail(work)
    /\ UNCHANGED <<pc, reading, fields, previousEnd, frames>>

Skip ==
    /\ pc = "emit" /\ work # << >>
    /\ ~ChildrenAreSeparateBytes(Head(work))
    /\ ~Emittable(Head(work).span)
    /\ work' = Tail(work)
    /\ UNCHANGED <<pc, reading, fields, previousEnd, frames>>

AddFrame ==
    /\ pc = "emit" /\ work # << >>
    /\ ~ChildrenAreSeparateBytes(Head(work))
    /\ Emittable(Head(work).span)
    /\ frames' = Append(frames, [name |-> Head(work).name, span |-> Head(work).span])
    /\ previousEnd' = Head(work).span.last
    /\ work' = Tail(work)
    /\ UNCHANGED <<pc, reading, fields>>

Walk == Descend \/ Skip \/ AddFrame

(* CommitPacketAndStartNewPacket, and on to the next chip select.           *)
Commit ==
    /\ pc = "emit" /\ work = << >>
    /\ pc' = "opcode"
    /\ opcode' = None /\ layout' = None /\ channel' = None
    /\ todo' = << >>
    /\ at' = 0 /\ phaseAt' = 0
    /\ phase' = Field("Command", NoSpan)
    /\ fields' = << >>
    /\ frames' = << >>
    /\ UNCHANGED <<work, previousEnd>>

-----------------------------------------------------------------------------
Init ==
    /\ pc = "opcode"
    /\ opcode = None /\ layout = None /\ channel = None
    /\ todo = << >>
    /\ at = 0 /\ phaseAt = 0
    /\ phase = Field("Command", NoSpan)
    /\ fields = << >>
    /\ work = << >>
    /\ previousEnd = 0
    /\ frames = << >>

CommandStep ==
    \/ \E byte \in OpcodeBytes :
           ReadUndefinedOpcode(byte) \/ ReadReservedLength(byte) \/ ReadOpcode(byte)
    \/ \E mode \in IoMode, bytes \in 0..MaxResetBytes, high \in BOOLEAN :
           ReadResetRemainder(mode, bytes, high)

ElementStep ==
    \/ \E e \in {"Addr16", "Data32", "Status16", "IoAddr16", "MemAddr32"} : ReadFixed(e)
    \/ ReadShortData
    \/ ReadVwirePacket
    \/ \E type \in CycleTypes : ReadCycleHeader(type)
    \/ UnknownCycleType
    \/ \E length \in PayloadLengths, count \in SmbusCounts, mctp \in BOOLEAN :
           ReadPayload(length, count, mctp)
    \/ EndElements

ResponseStep ==
    \/ TurnAround
    \/ TurnAroundRunsOut
    \/ \E byte \in ResponseBytes, waits \in 0..MaxWaits :
           ReadLastResponse(byte, waits) \/ ReadResponse(byte, waits)

Decode == RunOut \/ CommandStep \/ ElementStep \/ ReadCrc \/ ResponseStep
            \/ \E changes \in BOOLEAN : RecordSessionUpdate(changes)

Next == Decode \/ Walk \/ Commit

(* The worker runs the walk it has begun to its end.                        *)
Spec == Init /\ [][Next]_vars /\ WF_vars(Walk \/ Commit)

-----------------------------------------------------------------------------
(* Properties *)

(* The fields of the transaction: phases, what is in them and, two more     *)
(* levels down, what explains that; IInv of FrameEmission_proofs says that  *)
(* there are no more.                                                       *)
Below(S) == UNION {Range(f.children) : f \in S}

Tree == LET phases == Range(fields)
        IN  UNION {phases, Below(phases), Below(Below(phases)), Below(Below(Below(phases)))}

Covers(outer, inner) == outer.first <= inner.first /\ inner.last <= outer.last

TypeOK ==
    /\ pc \in {"opcode", "reset", "elements", "crc", "tar", "response", "record", "emit"}
    /\ opcode \in OpcodeBytes \cup {None}
    /\ layout \in {t.layout : t \in CycleTypes} \cup {None}
    /\ channel \in {o.channel : o \in Opcodes} \cup {None}
    /\ todo \in Seq(Element)
    /\ at \in Nat /\ phaseAt \in 0..at
    /\ previousEnd \in Nat
    /\ \A f \in Range(fields) \cup Range(work) \cup Range(frames) : f.span.last >= f.span.first

Walked == pc = "emit" /\ work = << >>

(* tests/support/FieldInvariants.h, "a field's span must cover every one of *)
(* its descendants'", but for those that have none. Decode.h (Field::Add)   *)
(* is what makes it so, also for a container cut short.                     *)
SpanContainment ==
    Walked =>
        \A f \in Tree : \A child \in Range(f.children) :
            HasSpan(f.span) /\ HasSpan(child.span) => Covers(f.span, child.span)

(* EspiAnalyzer.h (EmitField), EspiAnalyzer.cpp:31-38: every frame is of    *)
(* real samples, inside the phase or the turn-around its bytes were read    *)
(* in, and the frames come in the order of the bytes: none begins, or ends, *)
(* before the one drawn before it.                                          *)
FramesInOrder ==
    Walked =>
        /\ \A frame \in Range(frames) :
               HasSpan(frame.span) /\ \E f \in Range(fields) : Covers(f.span, frame.span)
        /\ \A i \in 2..Len(frames) :
               /\ frames[i - 1].span.first <= frames[i].span.first
               /\ frames[i - 1].span.last <= frames[i].span.last

(* The fields whose own bytes are lost when they are walked: see            *)
(* NothingLost.                                                             *)
Lost == {"MessageCode", "Ignored"}

(* EspiAnalyzer.h, "folding those explanations into the frame's text        *)
(* instead": of the fields below the phases every sample of every field is  *)
(* under some frame, whether the transaction was cut short or not.          *)
Shown(span) == \A sample \in span.first..span.last :
    \E i \in DOMAIN frames : frames[i].span.first <= sample /\ sample <= frames[i].span.last

EveryFieldShown ==
    Walked => \A f \in Below(Tree) : HasSpan(f.span) /\ f.name \notin Lost => Shown(f.span)

(* EmitField's assertion as far as it goes: frames overlap only where one   *)
(* byte was read into several fields.                                       *)
SharedBytes == {
    {"Opcode", "RequestLength"}, {"Tag", "Length"}, {"Count", "Reserved"},
    {"MessageSpecificByte"}, {"TargetAddress", "CommandOpcode"},
    {"TargetAddress", "ByteCount"}, {"CommandOpcode", "ByteCount"},
    {"TargetAddress", "MctpHeader"}, {"CommandOpcode", "MctpHeader"},
    {"ByteCount", "MctpHeader"} }

Overlap(i, j) == frames[j].span.first <= frames[i].span.last

OverlapsAreShared ==
    Walked => \A i, j \in DOMAIN frames :
        i < j /\ Overlap(i, j) => {frames[i].name, frames[j].name} \in SharedBytes

(* Every transaction read is drawn and committed.                           *)
WalkEnds == pc = "emit" ~> pc = "opcode"

-----------------------------------------------------------------------------
(* What the documentation says and the code does not do. *)

(* EspiAnalyzer.cpp:172-176: "Frames may not overlap ... this should hold   *)
(* by construction".                                                        *)
FramesDoNotOverlap == Walked => \A i, j \in DOMAIN frames : i < j => ~Overlap(i, j)

(* EspiAnalyzer.cpp:40-44: the explanations are told in full "so nothing    *)
(* the decoder worked out is lost just because it did not earn its own      *)
(* frame".                                                                  *)
NothingLost ==
    Walked => \A f \in Below(Tree) : HasSpan(f.span) => Shown(f.span)
=============================================================================
