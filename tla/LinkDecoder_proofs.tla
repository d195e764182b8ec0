------------------------- MODULE LinkDecoder_proofs --------------------------
(***************************************************************************)
(* Proofs that one chip select is decoded as the figures draw it and that  *)
(* the decoder implements its contract, for any bytes on the wire, any     *)
(* number of wait states and any frame of a reset.                         *)
(***************************************************************************)
EXTENDS LinkDecoder, EspiTables_proofs

-----------------------------------------------------------------------------
(* The inductive invariant. *)

At(e) == todo # << >> /\ Head(todo) = e

(* Past the opcode, on the way to the response's CRC. *)
Walking == pc \in {"elements", "crc", "tar", "response"}

(* The elements of a phase, as the bytes on the wire announce them.         *)
Modifier == IF Name = "GET_STATUS" /\ Accepted THEN ResponseModifier(wire.response) ELSE 0

Packet(p) ==
    IF p = "Command" THEN CommandElements(Name)
    ELSE AppendedElements(Modifier) \o PresentElements(ResponseElements(Name), Accepted)

IsRest(rest, whole) ==
    /\ rest \in Seq(Element) /\ Len(rest) <= Len(whole)
    /\ \A i \in 1..Len(rest) : rest[i] = whole[Len(whole) - Len(rest) + i]

WireOK ==
    /\ wire \in [opcode : Byte \cup {None}, address : Addresses \cup {None},
                 write : Configs \cup {None}, response : Byte \cup {None},
                 header : [Phase -> [byte : Byte \cup {None}, raw : Nat]],
                 groups : Nat, clocks : Nat, high : BOOLEAN, undecided : BOOLEAN]
    /\ wire.response = None => ~wire.undecided

(* Where the decode is, and what has been seen by then.                     *)
Control ==
    /\ pc \in {"opcode", "reset", "tar"} => phase = "Command"
    /\ pc = "response" => phase = "Response"
    /\ pc \notin {"idle", "record"} =>
           armed /\ ~context.stopped /\ ~result.truncated /\ ~result.complete
    /\ pc = "opcode" => wire = NoWire /\ context = NoContext /\ tally = NoTally
    /\ pc = "reset" => wire.opcode = 255
    /\ Walking => /\ wire.opcode # None /\ wire.opcode # 255
                  /\ KnownOpcode(wire.opcode) /\ ~ReservedLength(wire.opcode)
    /\ phase = "Command" => wire.response = None
    /\ pc = "response" => wire.response = None \/ IsWaitState(wire.response)
    /\ pc = "elements" => IsRest(todo, Packet(phase))
    /\ pc \in {"elements", "crc"} /\ phase = "Response" =>
           /\ wire.response # None /\ ~IsWaitState(wire.response)
           /\ LookupResponse(wire.response) \notin {"UNDEFINED", "NO_RESPONSE"}

(* The context says what the wire does of the elements still to read.       *)
Announced ==
    /\ Walking /\ (phase = "Command" \/ pc = "response") =>
           context.channel = LookupOpcode(wire.opcode).channel
    /\ pc = "elements" /\ phase = "Response" =>
           context.channel = AppendedChannel(Modifier, LookupOpcode(wire.opcode).channel)
    /\ Walking /\ LookupOpcode(wire.opcode).short => context.shortLength = (wire.opcode % 4) + 1
    /\ pc = "elements" /\ At("Payload") => context.payloadBytes = FigureBytes(phase, "Payload")

(* What the CRC of each phase has covered so far. *)
Covered ==
    /\ phase = "Command" => tally["Response"] = [read |-> 0, covered |-> 0, waits |-> 0]
    /\ pc # "idle" => tally["Command"].waits = 0
    /\ pc \in {"elements", "crc"} => tally[phase].covered = tally[phase].read - tally[phase].waits
    /\ pc = "tar" \/ phase = "Response" =>
           tally["Command"].covered = tally["Command"].read - tally["Command"].waits - 1
    /\ pc = "response" =>
           tally["Response"].covered = 0 /\ tally["Response"].read = tally["Response"].waits

(* The number of the element at the head of todo, in the packet read.       *)
Place == Len(Packet(phase)) - Len(todo) + 1

(* The bytes of the first n elements of a phase, by the figures. *)
Drawn(p, n) ==
    LET drawn(i) == IF i \in 1..n THEN FigureBytes(p, Packet(p)[i]) ELSE 0
    IN  drawn(1) + drawn(2) + drawn(3)

(* What has been read so far is what the figures draw so far. *)
Measured ==
    /\ pc = "elements" => tally[phase].read = 1 + tally[phase].waits + Drawn(phase, Place - 1)
    /\ pc = "crc" => tally[phase].read = 1 + tally[phase].waits
                                           + Drawn(phase, Len(Packet(phase)))
    /\ pc = "tar" \/ phase = "Response" =>
           tally["Command"].read = 1 + Drawn("Command", Len(Packet("Command"))) + 1

(* The command's own header was of a posted type, told from the wire.       *)
IsPosted ==
    \/ Name = "PUT_OOB"
    \/ HeaderChannel("Command") = "Peripheral"
       /\ wire.header["Command"].byte \in {1, 3} \cup 16..31

Flagged ==
    /\ pc # "idle" => (result.deferFlagged <=>
           wire.response # None /\ LookupResponse(wire.response) = "DEFER" /\ context.posted)
    /\ phase = "Response" \/ pc \in {"crc", "tar"} \/ (pc = "elements" /\ ~At("CycleHeader")) =>
           (context.posted <=> IsPosted)
    /\ pc = "elements" /\ phase = "Command" /\ At("CycleHeader") =>
           ~context.posted /\ wire.header["Command"].byte = None

(* The contract's view of the wire, and the context that keeps up with it.  *)
Wrote ==
    IF wire.opcode = 34 /\ wire.address # None /\ IsGeneralConfigAddress(wire.address)
    THEN wire.write ELSE None

Contracted ==
    /\ pc # "idle" => /\ context.address = wire.address
                      /\ context.write = Wrote
                      /\ context.accepted <=> Accepted
                      /\ context.reset <=> pc = "record" /\ wire.opcode = 255
    /\ pc = "elements" /\ phase = "Command" /\ todo # << >> => wire.write = None
    /\ pc = "elements" /\ phase = "Command" /\ At("Addr16") => wire.address = None
    /\ pc = "record" => /\ result.truncated <=> ~armed /\ wire.opcode # 255
                        /\ wire.opcode = 255 => ~armed

(* Why a decode stopped with bytes still to come. *)
Reason ==
    \/ ~KnownOpcode(wire.opcode)
    \/ wire.opcode \div 16 = 4 /\ wire.opcode % 4 = 2
    \/ \E p \in Phase : /\ wire.header[p].byte # None
                        /\ ~Printed(HeaderChannel(p), wire.header[p].byte)
    \/ wire.response # None /\ \/ wire.response % 16 \notin {1, 2, 3, 8, 15}
                               \/ wire.response = 255

Stopped ==
    pc \in {"record", "idle"} /\ wire.opcode # None /\ armed /\ ~result.complete => Reason

IInv ==
    /\ TypeOK
    /\ WireOK
    /\ Control
    /\ Announced
    /\ Covered
    /\ CrcCoverage
    /\ Measured
    /\ FrameLength
    /\ Flagged
    /\ Contracted
    /\ Stopped

-----------------------------------------------------------------------------
(* Cycle headers: the tables against the figures. *)

(* Whatever the byte, the row found for it has the width, the payload and   *)
(* the posting that the figures give the byte (tables/CycleTypes.h).        *)
LEMMA HeaderRow ==
    ASSUME NEW channel, NEW byte \in Byte, KnownCycleType(channel, byte)
    PROVE  LET t == LookupCycleType(channel, byte)
           IN  /\ channel \in {"Peripheral", "Oob", "Flash"}
               /\ t.layout \in Layouts
               /\ t.type = "Posted" <=>
                      \/ channel = "Oob"
                      \/ channel = "Peripheral" /\ byte \in {1, 3} \cup 16..31
               /\ HeaderBytes(t.layout) = FigureHeaderBytes(channel, byte)
               /\ HasPayload(t.layout) /\ LengthKind(t.layout) = "OneBased" <=> byte % 2 # 0
<1> DEFINE t == LookupCycleType(channel, byte)
<1>1. t \in CycleTypes /\ t.channel = channel /\ byte \in RowBytes(t)
  BY LookedUpCycleType
<1> HIDE DEF t
<1>2. t.layout \in Layouts
  BY <1>1 DEF Layouts
<1>3. channel \in {"Peripheral", "Oob", "Flash"}
  BY <1>1 DEF CycleTypes, CycleType
<1>4. t.type = "Posted" <=> \/ channel = "Oob"
                            \/ channel = "Peripheral" /\ byte \in {1, 3} \cup 16..31
  BY <1>1 DEF CycleTypes, CycleType, RowBytes
<1>5. HeaderBytes(t.layout) = FigureHeaderBytes(channel, byte)
  <2>1. CASE channel = "Peripheral"
    <3>1. /\ t.layout \in {"MemoryRead32", "MemoryWrite32", "MemoryRead64", "MemoryWrite64",
                           "Message", "MessageWithData", "CompletionWithData",
                           "CompletionWithoutData"}
          /\ t.layout \in {"MemoryRead32", "MemoryWrite32"} => t.code \in {0, 1}
          /\ t.layout \in {"MemoryRead64", "MemoryWrite64"} => t.code \in {2, 3}
          /\ t.layout \in {"MemoryRead32", "MemoryWrite32", "MemoryRead64", "MemoryWrite64"}
                 => t.variable = "None"
      BY <1>1, <2>1 DEF CycleTypes, CycleType
    <3>2. /\ t.layout \in {"Message", "MessageWithData"}
                 => t.variable = "MessageRouting" /\ t.code \in {16, 17}
          /\ t.layout \in {"CompletionWithData", "CompletionWithoutData"}
                 => \/ t.variable = "SplitCompletion" /\ t.code \in {8, 9}
                    \/ t.variable = "None" /\ t.code = 6
      BY <1>1, <2>1 DEF CycleTypes, CycleType
    <3>3. \/ t.layout \in {"MemoryRead64", "MemoryWrite64"} /\ byte \in {2, 3}
          \/ t.layout \in {"Message", "MessageWithData"} /\ byte \in 16..31
          \/ t.layout \in {"MemoryRead32", "MemoryWrite32"} /\ byte \in {0, 1}
          \/ t.layout \in {"CompletionWithData", "CompletionWithoutData"} /\ byte \in {6} \cup 8..15
      BY <1>1, <3>1, <3>2 DEF RowBytes
    <3>4. QED
      BY <2>1, <3>3 DEF HeaderBytes, AddressBytes, HasMessageCode, FigureHeaderBytes
  <2>2. CASE channel = "Oob"
    <3>1. t.layout = "OobMessage"
      BY <1>1, <2>2 DEF CycleTypes, CycleType
    <3>2. QED
      BY <2>2, <3>1 DEF HeaderBytes, AddressBytes, HasMessageCode, FigureHeaderBytes
  <2>3. CASE channel = "Flash"
    <3>1. \/ t.layout \in {"FlashRead", "FlashWrite", "FlashErase"} /\ byte \in {0, 1, 2}
          \/ /\ t.layout \in {"FlashRpmcOp1", "FlashRpmcOp2", "FlashCompletionWithData",
                              "FlashCompletionWithoutData"}
             /\ byte \notin {0, 1, 2}
      BY <1>1, <2>3 DEF CycleTypes, CycleType, RowBytes
    <3>2. QED
      BY <2>3, <3>1 DEF HeaderBytes, AddressBytes, HasMessageCode, FigureHeaderBytes
  <2>4. QED
    BY <1>3, <2>1, <2>2, <2>3
<1>6. HasPayload(t.layout) /\ LengthKind(t.layout) = "OneBased" <=> byte % 2 # 0
  BY <1>1 DEF CycleTypes, CycleType, RowBytes, HasPayload, LengthKind
<1>7. QED
  BY <1>2, <1>3, <1>4, <1>5, <1>6 DEF t

(* Every byte Table 5 prints for a channel is found in the channel's table. *)
LEMMA PrintedIsKnown ==
    ASSUME NEW channel \in {"Peripheral", "Oob", "Flash"}, NEW byte \in Byte,
           Printed(channel, byte)
    PROVE  KnownCycleType(channel, byte)
<1>1. ASSUME NEW t \in CycleTypes, t.channel = channel, byte \in RowBytes(t)
      PROVE  KnownCycleType(channel, byte)
  BY <1>1, MatchedByte DEF KnownCycleType, CycleTypesOf
<1>2. CASE channel = "Peripheral"
  <2> DEFINE row(code, variable, type, layout) ==
                 CycleType("Peripheral", code, variable, type, layout)
  <2>1. {row(0, "None", "NonPosted", "MemoryRead32"), row(1, "None", "Posted", "MemoryWrite32"),
         row(2, "None", "NonPosted", "MemoryRead64"), row(3, "None", "Posted", "MemoryWrite64"),
         row(6, "None", "Completion", "CompletionWithoutData"),
         row(8, "SplitCompletion", "Completion", "CompletionWithoutData"),
         row(9, "SplitCompletion", "Completion", "CompletionWithData"),
         row(16, "MessageRouting", "Posted", "Message"),
         row(17, "MessageRouting", "Posted", "MessageWithData")} \subseteq CycleTypes
    BY DEF CycleTypes
  <2>2. byte \in {0, 1, 2, 3, 6} \cup {8, 10, 12, 14} \cup {9, 11, 13, 15}
            \cup {16, 18, 20, 22, 24, 26, 28, 30} \cup {17, 19, 21, 23, 25, 27, 29, 31}
    BY <1>2 DEF Printed
  <2>3. QED
    BY <1>1, <1>2, <2>1, <2>2 DEF CycleType, RowBytes
<1>3. CASE channel = "Oob"
  <2>1. CycleType("Oob", 33, "None", "Posted", "OobMessage") \in CycleTypes
    BY DEF CycleTypes
  <2>2. QED
    BY <1>1, <1>3, <2>1 DEF Printed, CycleType, RowBytes
<1>4. CASE channel = "Flash"
  <2> DEFINE row(code, variable, type, layout) ==
                 CycleType("Flash", code, variable, type, layout)
  <2>1. {row(0, "None", "NonPosted", "FlashRead"), row(1, "None", "NonPosted", "FlashWrite"),
         row(2, "None", "NonPosted", "FlashErase"),
         row(3, "RpmcTarget", "NonPosted", "FlashRpmcOp1"),
         row(4, "RpmcTarget", "NonPosted", "FlashRpmcOp2"),
         row(6, "None", "Completion", "FlashCompletionWithoutData"),
         row(8, "SplitCompletion", "Completion", "FlashCompletionWithoutData"),
         row(9, "SplitCompletion", "Completion", "FlashCompletionWithData")} \subseteq CycleTypes
    BY DEF CycleTypes
  <2>2. byte \in {0, 1, 2, 6} \cup {3, 35, 67, 99} \cup {4, 36, 68, 100}
            \cup {8, 10, 12, 14} \cup {9, 11, 13, 15}
    BY <1>4 DEF Printed
  <2>3. QED
    BY <1>1, <1>4, <2>1, <2>2 DEF CycleType, RowBytes
<1>5. QED
  BY <1>2, <1>3, <1>4

(* An SMBus packet takes the bytes its header announces, believed or not.   *)
LEMMA SmbusPacketWhole ==
    ASSUME NEW length \in Nat, NEW count \in Byte
    PROVE  SmbusPayloadBytes(length, count) = length
BY DEF SmbusPayloadBytes, PecBytes, SmbusHeaderBytes, Byte

-----------------------------------------------------------------------------
(* Packets: which elements, in which order. *)

(* A response byte's code, and what follows from it (tables/Responses.h).   *)
LEMMA ResponseKinds ==
    ASSUME NEW byte \in Byte
    PROVE  /\ LookupResponse(byte) = "NO_RESPONSE" <=> byte = 255
           /\ LookupResponse(byte) = "UNDEFINED" => byte % 16 \notin {1, 2, 3, 8, 15}
           /\ LookupResponse(byte) = "WAIT_STATE" <=> IsWaitState(byte)
           /\ LookupResponse(byte) = "ACCEPT" <=> byte # 255 /\ byte % 16 = 8
           /\ LookupResponse(byte) = "DEFER" <=> byte # 255 /\ byte % 16 = 1
           /\ ResponseModifier(byte) \in 0..3
<1>1. ResponseModifier(byte) \in 0..3
  BY DEF ResponseModifier, Byte
<1>2. byte % 16 \in 0..15
  BY DEF Byte
<1>3. CASE byte = 255
  BY <1>1, <1>3 DEF LookupResponse, NoResponseByte, IsWaitState
<1>4. CASE byte # 255 /\ byte % 16 \in {1, 2, 3, 8, 15}
  BY <1>1, <1>4 DEF LookupResponse, ResponseCodes, NoResponseByte, IsWaitState
<1>5. CASE byte # 255 /\ byte % 16 \notin {1, 2, 3, 8, 15}
  BY <1>1, <1>5 DEF LookupResponse, ResponseCodes, NoResponseByte, IsWaitState
<1>6. QED
  BY <1>3, <1>4, <1>5

(* The elements of the commands and of the answers, all of them.            *)
CommandForms == {<< >>, <<"Addr16">>, <<"Addr16", "Data32">>, <<"VwirePacket">>,
                 <<"CycleHeader", "Payload">>, <<"IoAddr16">>, <<"IoAddr16", "ShortData">>,
                 <<"MemAddr32">>, <<"MemAddr32", "ShortData">>}

AnswerForms == {<< >>, <<"Status16">>, <<"Data32", "Status16">>, <<"VwirePacket", "Status16">>,
                <<"CycleHeader", "Payload", "Status16">>, <<"ShortData", "Status16">>}

(* They are sequences of elements, three at the most. *)
LEMMA FormsAreSequences ==
    \A f \in CommandForms \cup AnswerForms : f \in Seq(Element) /\ Len(f) <= 3
<1>1. \A a, b, c \in Element :
          /\ << >> \in Seq(Element) /\ <<a>> \in Seq(Element)
          /\ <<a, b>> \in Seq(Element) /\ <<a, b, c>> \in Seq(Element)
  OBVIOUS
<1>2. {"Addr16", "Data32", "Status16", "VwirePacket", "CycleHeader", "Payload", "IoAddr16",
       "MemAddr32", "ShortData"} \subseteq Element
  BY DEF Element
<1>3. ASSUME NEW f \in CommandForms \cup AnswerForms
      PROVE  f \in Seq(Element) /\ Len(f) <= 3
  <2>1. CASE f = << >>
    BY <1>1, <1>2, <2>1
  <2>2. CASE f \in {<<"Addr16">>, <<"VwirePacket">>, <<"IoAddr16">>, <<"MemAddr32">>,
                    <<"Status16">>}
    <3>1. f \in Seq(Element)
      BY <1>1, <1>2, <2>2
    <3>2. Len(f) = 1
      BY <2>2
    <3>3. QED
      BY <3>1, <3>2
  <2>3. CASE f \in {<<"Addr16", "Data32">>, <<"CycleHeader", "Payload">>,
                    <<"IoAddr16", "ShortData">>, <<"MemAddr32", "ShortData">>,
                    <<"Data32", "Status16">>, <<"VwirePacket", "Status16">>,
                    <<"ShortData", "Status16">>}
    <3>1. f \in Seq(Element)
      BY <1>1, <1>2, <2>3
    <3>2. Len(f) = 2
      BY <2>3
    <3>3. QED
      BY <3>1, <3>2
  <2>4. CASE f = <<"CycleHeader", "Payload", "Status16">>
    BY <1>1, <1>2, <2>4
  <2>5. QED
    BY <2>1, <2>2, <2>3, <2>4, Zenon DEF CommandForms, AnswerForms
<1>4. QED
  BY <1>3

(* What an answer is made of: the shape's elements when it is accepted, with *)
(* what GET_STATUS's modifier puts in front, and otherwise at most the data  *)
(* of the two reads whose elements are not said to need an ACCEPT.           *)
LEMMA Answer ==
    /\ Accepted => /\ Name # "GET_STATUS" => Packet("Response") = ResponseElements(Name)
                   /\ Name = "GET_STATUS" =>
                          Packet("Response") = AppendedElements(Modifier) \o <<"Status16">>
    /\ ~Accepted => /\ Name = "GET_CONFIGURATION" => Packet("Response") = <<"Data32", "Status16">>
                    /\ Name = "GET_VWIRE" => Packet("Response") = <<"VwirePacket", "Status16">>
                    /\ Name = "RESET" => Packet("Response") = << >>
                    /\ Name \notin {"GET_CONFIGURATION", "GET_VWIRE", "RESET"} =>
                           Packet("Response") = <<"Status16">>
<1>1. AppendedElements(0) = << >>
  BY DEF AppendedElements
<1>2. CASE Accepted
  <2>1. PresentElements(ResponseElements(Name), Accepted) = ResponseElements(Name)
    BY <1>2, PresentWhenAccepted
  <2>2. Packet("Response") = AppendedElements(Modifier) \o ResponseElements(Name)
    BY <2>1 DEF Packet
  <2>3. CASE Name # "GET_STATUS"
    <3>1. Packet("Response") = << >> \o ResponseElements(Name)
      BY <1>1, <2>2, <2>3 DEF Modifier
    <3>2. ResponseElements(Name) \in AnswerForms
      BY ResponseForms DEF AnswerForms
    <3>3. QED
      BY <1>2, <2>3, <3>1, <3>2, FormsAreSequences, ConcatEmptySeq
  <2>4. CASE Name = "GET_STATUS"
    <3>1. ResponseElements(Name) = <<"Status16">>
      BY <2>4 DEF ResponseElements
    <3>2. QED
      BY <1>2, <2>2, <2>4, <3>1
  <2>5. QED
    BY <2>3, <2>4
<1>3. CASE ~Accepted
  <2>1. PresentElements(ResponseElements(Name), Accepted)
            = PresentElements(ResponseElements(Name), FALSE)
    <3>1. Accepted \in BOOLEAN
      BY DEF Accepted
    <3>2. QED
      BY <1>3, <3>1
  <2>2. Packet("Response") = << >> \o PresentElements(ResponseElements(Name), FALSE)
    BY <1>1, <1>3, <2>1 DEF Packet, Modifier
  <2>3. PresentElements(ResponseElements(Name), FALSE) \in AnswerForms
    BY PresentWhenRefused DEF AnswerForms
  <2>4. Packet("Response") = PresentElements(ResponseElements(Name), FALSE)
    BY <2>2, <2>3, FormsAreSequences, ConcatEmptySeq
  <2>5. QED
    BY <1>3, <2>4, PresentWhenRefused
<1>4. QED
  BY <1>2, <1>3

(* What announces a length comes first, what it announces comes second.     *)
LEMMA FormOrder ==
    ASSUME NEW f \in CommandForms \cup AnswerForms, NEW i \in 1..Len(f)
    PROVE  /\ f[i] \in {"CycleHeader", "VwirePacket", "Addr16"} => i = 1
           /\ f[i] = "Payload" => i = 2 /\ f[1] = "CycleHeader"
<1>1. CASE f = << >>
  BY <1>1
<1>2. CASE f \in {<<"Addr16">>, <<"VwirePacket">>, <<"IoAddr16">>, <<"MemAddr32">>,
                  <<"Status16">>}
  BY <1>2
<1>3. CASE f \in {<<"Addr16", "Data32">>, <<"CycleHeader", "Payload">>,
                  <<"IoAddr16", "ShortData">>, <<"MemAddr32", "ShortData">>,
                  <<"Data32", "Status16">>, <<"VwirePacket", "Status16">>,
                  <<"ShortData", "Status16">>}
  BY <1>3
<1>4. CASE f = <<"CycleHeader", "Payload", "Status16">>
  BY <1>4
<1>5. QED
  BY <1>1, <1>2, <1>3, <1>4, Zenon DEF CommandForms, AnswerForms

(* The bytes a decode past its opcode has seen. *)
Seen == /\ wire.opcode \in Byte /\ KnownOpcode(wire.opcode) /\ wire.opcode # 255
        /\ wire.response \in Byte \cup {None}

(* What each command is made of, and what follows from it: the channel its  *)
(* header is read in, and the opcodes that have the packets in question.    *)
LEMMA CommandPacket ==
    ASSUME Seen
    PROVE  LET f == Packet("Command")
           IN  /\ f \in CommandForms
               /\ Len(f) > 0 /\ f[1] = "CycleHeader" =>
                      /\ HeaderChannel("Command") \in {"Peripheral", "Oob", "Flash"}
                      /\ HeaderChannel("Command") = "Oob" <=> Name = "PUT_OOB"
               /\ Len(f) > 0 /\ f[1] # "CycleHeader" => Name # "PUT_OOB"
               /\ Len(f) = 0 => Name # "PUT_OOB"
               /\ \A i \in 1..Len(f) : f[i] = "ShortData" => LookupOpcode(wire.opcode).short
               /\ \A i \in 1..Len(f) : f[i] = "Data32" => i = 2 /\ wire.opcode = 34
               /\ wire.opcode = 34 => f = <<"Addr16", "Data32">>
<1> DEFINE f == Packet("Command")
<1>1. f = CommandElements(Name)
  BY DEF Packet
<1>2. /\ HeaderChannel("Command") = LookupOpcode(wire.opcode).channel
      /\ Name = LookupOpcode(wire.opcode).name
  BY DEF HeaderChannel, Name
<1> HIDE DEF f
<1>3. CASE Name = "GET_CONFIGURATION"
  <2>1. f = <<"Addr16">> /\ wire.opcode # 34
    BY <1>1, <1>2, <1>3, OpcodeNames, ZenonT(60) DEF CommandElements, Seen
  <2>2. QED
    BY <1>3, <2>1 DEF CommandForms, f
<1>4. CASE Name = "SET_CONFIGURATION"
  <2>1. f = <<"Addr16", "Data32">>
    BY <1>1, <1>4 DEF CommandElements
  <2>2. wire.opcode = 34
    <3>1. wire.opcode \in Byte /\ KnownOpcode(wire.opcode)
      BY DEF Seen
    <3>2. LookupOpcode(wire.opcode).name = "SET_CONFIGURATION"
      BY <1>2, <1>4
    <3>3. LookupOpcode(wire.opcode).name = "SET_CONFIGURATION" <=> wire.opcode = 34
      BY <3>1, OpcodeNames
    <3>4. QED
      BY <3>2, <3>3
  <2>3. QED
    BY <1>4, <2>1, <2>2 DEF CommandForms, f
<1>5. CASE Name = "PUT_VWIRE"
  <2>1. f = <<"VwirePacket">> /\ wire.opcode # 34
    BY <1>1, <1>2, <1>5, OpcodeNames, ZenonT(60) DEF CommandElements, Seen
  <2>2. QED
    BY <1>5, <2>1 DEF CommandForms, f
<1>6. CASE Name \in {"PUT_PC", "PUT_NP", "PUT_OOB", "PUT_FLASH_C", "PUT_FLASH_NP"}
  <2>1. f = <<"CycleHeader", "Payload">> /\ wire.opcode # 34
    BY <1>1, <1>2, <1>6, OpcodeNames DEF CommandElements, Seen
  <2>2. /\ HeaderChannel("Command") \in {"Peripheral", "Oob", "Flash"}
        /\ HeaderChannel("Command") = "Oob" <=> Name = "PUT_OOB"
    BY <1>2, <1>6, OpcodeChannels DEF Seen
  <2>3. QED
    BY <2>1, <2>2 DEF CommandForms, f
<1>7. CASE Name \in {"PUT_IORD_SHORT", "PUT_IOWR_SHORT", "PUT_MEMRD32_SHORT", "PUT_MEMWR32_SHORT"}
  <2>1. /\ f \in {<<"IoAddr16">>, <<"IoAddr16", "ShortData">>, <<"MemAddr32">>,
                  <<"MemAddr32", "ShortData">>}
        /\ wire.opcode # 34
    BY <1>1, <1>2, <1>7, OpcodeNames DEF CommandElements, Seen
  <2>2. LookupOpcode(wire.opcode).short
    BY <1>2, <1>7, OpcodeNames DEF Seen
  <2>3. QED
    BY <1>7, <2>1, <2>2 DEF CommandForms, f
<1>8. CASE Name \notin {"GET_CONFIGURATION", "SET_CONFIGURATION", "PUT_VWIRE", "PUT_PC", "PUT_NP",
                        "PUT_OOB", "PUT_FLASH_C", "PUT_FLASH_NP", "PUT_IORD_SHORT",
                        "PUT_IOWR_SHORT", "PUT_MEMRD32_SHORT", "PUT_MEMWR32_SHORT"}
  <2>1. f = << >> /\ wire.opcode # 34
    BY <1>1, <1>2, <1>8, OpcodeNames DEF CommandElements, Seen
  <2>2. QED
    BY <1>8, <2>1 DEF CommandForms, f
<1>9. QED
  BY <1>3, <1>4, <1>5, <1>6, <1>7, <1>8

(* What each answer is made of: the channel of its header is the one the    *)
(* figures read it in, and a virtual wire packet answers a command that has *)
(* no elements of its own.                                                  *)
LEMMA AnswerPacket ==
    ASSUME Seen
    PROVE  LET f == Packet("Response")
           IN  /\ f \in AnswerForms
               /\ Len(f) > 0 /\ f[1] = "CycleHeader" =>
                      /\ HeaderChannel("Response") \in {"Peripheral", "Oob", "Flash"}
                      /\ AppendedChannel(Modifier, LookupOpcode(wire.opcode).channel)
                             = HeaderChannel("Response")
               /\ Len(f) > 0 /\ f[1] = "VwirePacket" => Packet("Command") = << >>
               /\ \A i \in 1..Len(f) : f[i] = "ShortData" => LookupOpcode(wire.opcode).short
               /\ \A i \in 1..Len(f) : f[i] # "Addr16"
<1> DEFINE f == Packet("Response")
<1>1. /\ Name = LookupOpcode(wire.opcode).name
      /\ Packet("Command") = CommandElements(Name)
  BY DEF Packet, Name
<1>2. Accepted => ResponseModifier(wire.response) \in 0..3
  BY ResponseKinds DEF Seen, Accepted
<1>3. CASE ~Accepted \/ Name = "RESET"
  <2>1. f \in {<< >>, <<"Status16">>, <<"Data32", "Status16">>, <<"VwirePacket", "Status16">>}
    BY <1>3, Answer DEF ResponseElements
  <2>2. f = <<"VwirePacket", "Status16">> => Name = "GET_VWIRE"
    BY <1>3, Answer DEF ResponseElements
  <2>3. f = <<"VwirePacket", "Status16">> => Packet("Command") = << >>
    BY <1>1, <2>2 DEF CommandElements
  <2> HIDE DEF f
  <2>4. QED
    BY <2>1, <2>3 DEF AnswerForms, f
<1>4. CASE Accepted /\ Name = "GET_STATUS"
  <2>1. Packet("Command") = << >>
    BY <1>1, <1>4 DEF CommandElements
  <2>2. f = AppendedElements(Modifier) \o <<"Status16">>
        /\ Modifier = ResponseModifier(wire.response)
    BY <1>4, Answer DEF Modifier
  <2>3. HeaderChannel("Response") = IF Modifier = 1 THEN "Peripheral" ELSE "Flash"
    BY <1>4, <2>2 DEF HeaderChannel
  <2> HIDE DEF f
  <2>4. CASE Modifier = 0
    <3>1. f = <<"Status16">>
      BY <2>2, <2>4 DEF AppendedElements
    <3>2. QED
      BY <3>1 DEF AnswerForms, f
  <2>5. CASE Modifier \in {1, 3}
    <3>1. f = <<"CycleHeader", "Payload", "Status16">>
      BY <2>2, <2>5, JoinTwoOne DEF AppendedElements
    <3>2. /\ HeaderChannel("Response") \in {"Peripheral", "Oob", "Flash"}
          /\ AppendedChannel(Modifier, LookupOpcode(wire.opcode).channel)
                 = HeaderChannel("Response")
      BY <2>3, <2>5 DEF AppendedChannel
    <3>3. QED
      BY <3>1, <3>2 DEF AnswerForms, f
  <2>6. CASE Modifier = 2
    <3>1. f = <<"VwirePacket", "Status16">>
      BY <2>2, <2>6, JoinOneOne DEF AppendedElements
    <3>2. QED
      BY <2>1, <3>1 DEF AnswerForms, f
  <2>7. QED
    BY <1>2, <1>4, <2>2, <2>4, <2>5, <2>6
<1>5. CASE Accepted /\ Name \notin {"GET_STATUS", "RESET"}
  <2>1. f = ResponseElements(Name)
    BY <1>5, Answer
  <2>2. AppendedChannel(Modifier, LookupOpcode(wire.opcode).channel)
            = HeaderChannel("Response")
    BY <1>5 DEF Modifier, AppendedChannel, HeaderChannel
  <2> HIDE DEF f
  <2>3. CASE Name \in {"PUT_NP", "GET_PC", "GET_NP", "GET_OOB", "GET_FLASH_NP", "GET_FLASH_C"}
    <3>1. f = <<"CycleHeader", "Payload", "Status16">>
      BY <2>1, <2>3 DEF ResponseElements
    <3>2. HeaderChannel("Response") \in {"Peripheral", "Oob", "Flash"}
      BY <1>1, <2>3, OpcodeChannels DEF Seen, HeaderChannel
    <3>3. QED
      BY <2>2, <3>1, <3>2 DEF AnswerForms, f
  <2>4. CASE Name = "GET_VWIRE"
    <3>1. f = <<"VwirePacket", "Status16">> /\ Packet("Command") = << >>
      BY <1>1, <2>1, <2>4 DEF ResponseElements, CommandElements
    <3>2. QED
      BY <3>1 DEF AnswerForms, f
  <2>5. CASE Name \in {"PUT_IORD_SHORT", "PUT_MEMRD32_SHORT"}
    <3>1. f = <<"ShortData", "Status16">>
      BY <2>1, <2>5 DEF ResponseElements
    <3>2. LookupOpcode(wire.opcode).short
      BY <1>1, <2>5, OpcodeNames DEF Seen
    <3>3. QED
      BY <3>1, <3>2 DEF AnswerForms, f
  <2>6. CASE Name \notin {"PUT_NP", "GET_PC", "GET_NP", "GET_OOB", "GET_FLASH_NP", "GET_FLASH_C",
                          "GET_VWIRE", "PUT_IORD_SHORT", "PUT_MEMRD32_SHORT"}
    <3>1. f \in {<<"Data32", "Status16">>, <<"Status16">>}
      BY <1>5, <2>1, <2>6 DEF ResponseElements
    <3>2. QED
      BY <3>1 DEF AnswerForms, f
  <2>7. QED
    BY <2>3, <2>4, <2>5, <2>6
<1>6. QED
  BY <1>3, <1>4, <1>5

-----------------------------------------------------------------------------
(* The bytes of a packet. *)

(* The length the figures give an element is a number. *)
LEMMA FigureBytesNat ==
    \A p \in Phase : WireOK /\ Seen => \A e : FigureBytes(p, e) \in Nat
<1> SUFFICES ASSUME NEW p \in Phase, WireOK, Seen, NEW e
             PROVE  FigureBytes(p, e) \in Nat
  OBVIOUS
<1>1. wire.header[p].raw \in Nat /\ wire.groups \in Nat
  BY DEF WireOK
<1>2. \A c, b : FigureHeaderBytes(c, b) \in Nat
  BY DEF FigureHeaderBytes
<1>3. (wire.opcode % 4) + 1 \in Nat
  BY DEF Seen, Byte
<1>4. QED
  BY <1>1, <1>2, <1>3 DEF FigureBytes

(* One more element, one more length. *)
DrawnAdds(p) ==
    /\ Drawn(p, 0) = 0
    /\ \A n \in 0..3 : Drawn(p, n) \in Nat
    /\ \A n \in 0..2 : Drawn(p, n + 1) = Drawn(p, n) + FigureBytes(p, Packet(p)[n + 1])

(* So it is for the lengths the figures give. *)
LEMMA DrawnNext == \A p \in Phase : WireOK /\ Seen => DrawnAdds(p)
<1> SUFFICES ASSUME NEW p \in Phase, WireOK, Seen
             PROVE  DrawnAdds(p)
  OBVIOUS
<1>1. \A i : FigureBytes(p, Packet(p)[i]) \in Nat
  BY FigureBytesNat
<1>2. /\ Drawn(p, 0) = 0
      /\ Drawn(p, 1) = FigureBytes(p, Packet(p)[1])
      /\ Drawn(p, 2) = FigureBytes(p, Packet(p)[1]) + FigureBytes(p, Packet(p)[2])
      /\ Drawn(p, 3) = FigureBytes(p, Packet(p)[1]) + FigureBytes(p, Packet(p)[2])
                           + FigureBytes(p, Packet(p)[3])
  BY <1>1 DEF Drawn
<1>3. QED
  BY <1>1, <1>2 DEF DrawnAdds

(* The figures of a phase read the opcode, the phase's own header and, in   *)
(* the response, the response byte; a virtual wire packet its group count.  *)
LEMMA FiguresKept ==
    ASSUME NEW p \in Phase, wire'.opcode = wire.opcode, wire'.header[p] = wire.header[p],
           p = "Response" => wire'.response = wire.response
    PROVE  /\ Packet(p)' = Packet(p)
           /\ HeaderChannel(p)' = HeaderChannel(p)
           /\ \A e : e # "VwirePacket" \/ wire'.groups = wire.groups
                         => FigureBytes(p, e)' = FigureBytes(p, e)
           /\ wire'.groups = wire.groups => \A n : Drawn(p, n)' = Drawn(p, n)
<1>1. Name' = Name
  BY DEF Name
<1>2. p = "Response" => Accepted' = Accepted /\ Modifier' = Modifier
  BY <1>1 DEF Accepted, Modifier
<1>3. Packet(p)' = Packet(p)
  BY <1>1, <1>2 DEF Packet, Phase
<1>4. HeaderChannel(p)' = HeaderChannel(p)
  BY <1>1 DEF HeaderChannel, Phase
<1>5. \A e : e # "VwirePacket" \/ wire'.groups = wire.groups
                 => FigureBytes(p, e)' = FigureBytes(p, e)
  BY <1>4 DEF FigureBytes
<1>6. wire'.groups = wire.groups => \A n : Drawn(p, n)' = Drawn(p, n)
  BY <1>3, <1>5 DEF Drawn
<1>7. QED
  BY <1>3, <1>4, <1>5, <1>6

(* The packet of a phase changes with the opcode and the response alone.    *)
LEMMA PacketKept ==
    ASSUME NEW p \in Phase, wire'.opcode = wire.opcode,
           p = "Response" => wire'.response = wire.response
    PROVE  Packet(p)' = Packet(p) /\ HeaderChannel(p)' = HeaderChannel(p)
<1>1. Name' = Name
  BY DEF Name
<1>2. p = "Response" => Accepted' = Accepted /\ Modifier' = Modifier
  BY <1>1 DEF Accepted, Modifier
<1>3. QED
  BY <1>1, <1>2 DEF Packet, HeaderChannel, Phase

-----------------------------------------------------------------------------
(* Where the decode is in the packet. *)

(* Past the opcode, the bytes of the wire are told apart. *)
LEMMA WalkingSeen ==
    ASSUME WireOK, Control, Walking
    PROVE  Seen
BY DEF WireOK, Control, Seen

(* A number in a range, told by its bounds. *)
LEMMA InRange ==
    ASSUME NEW n \in Nat, NEW m \in Nat, n <= m
    PROVE  n \in 0..m
OBVIOUS

(* A member of a range is a number. *)
LEMMA NumberInRange == ASSUME NEW m \in Nat, NEW n, n \in 0..m PROVE n \in Nat
OBVIOUS

(* The form of the packet of either phase. *)
LEMMA PacketForm ==
    ASSUME Seen, NEW p \in Phase
    PROVE  /\ Packet(p) \in CommandForms \cup AnswerForms
           /\ Packet(p) \in Seq(Element) /\ Len(Packet(p)) \in 0..3
<1>1. Packet(p) \in CommandForms \cup AnswerForms
  BY CommandPacket, AnswerPacket DEF Phase
<1>2. Packet(p) \in Seq(Element) /\ Len(Packet(p)) <= 3
  BY <1>1, FormsAreSequences
<1>3. Len(Packet(p)) \in Nat
  BY <1>2, LenProperties
<1>4. QED
  BY <1>1, <1>2, <1>3, InRange

(* The head of todo is the next element of the packet, and its tail the     *)
(* rest after it.                                                           *)
LEMMA AtHead ==
    ASSUME TypeOK, WireOK, Control, pc = "elements", todo # << >>
    PROVE  LET f == Packet(phase)
           IN  /\ Seen
               /\ f \in CommandForms \cup AnswerForms
               /\ Place \in 1..3 /\ Place \in 1..Len(f)
               /\ Head(todo) = f[Place]
               /\ Tail(todo) \in Seq(Element) /\ Len(Tail(todo)) <= 3
               /\ IsRest(Tail(todo), f)
               /\ Len(f) - Len(Tail(todo)) + 1 = Place + 1
               /\ Tail(todo) # << >> =>
                      Place + 1 \in 1..Len(f) /\ Head(Tail(todo)) = f[Place + 1]
<1> DEFINE f == Packet(phase)
           n == Len(f)
           k == Len(todo)
           l == Len(Tail(todo))
<1>1. Seen
  BY WalkingSeen DEF Walking
<1>2. IsRest(todo, f) /\ phase \in Phase /\ todo \in Seq(Element)
  BY DEF Control, TypeOK
<1>3. f \in CommandForms \cup AnswerForms /\ n \in 0..3
  BY <1>1, <1>2, PacketForm
<1>4. k \in Nat \ {0} /\ k <= n /\ \A j \in 1..k : todo[j] = f[n - k + j]
  BY <1>2, EmptySeq DEF IsRest
<1>5. /\ Head(todo) = todo[1]
      /\ Tail(todo) \in Seq(Element) /\ l = k - 1
      /\ \A j \in 1..l : Tail(todo)[j] = todo[j + 1]
  BY <1>2, HeadTailProperties
<1>6. Place = n - k + 1
  BY DEF Place
<1>7. Tail(todo) # << >> => l \in Nat \ {0} /\ Head(Tail(todo)) = Tail(todo)[1]
  BY <1>5, EmptySeq
<1> HIDE DEF f, n, k, l
<1>8. Place \in 1..3 /\ Place \in 1..n /\ Head(todo) = f[Place]
  BY <1>3, <1>4, <1>5, <1>6
<1>9. \A j \in 1..l : Tail(todo)[j] = f[n - l + j]
  <2> TAKE j \in 1..l
  <2>1. k \in Nat /\ l \in Nat /\ l = k - 1
    BY <1>4, <1>5
  <2>2. j \in Nat /\ j + 1 \in 1..k
    BY <2>1
  <2>3. Tail(todo)[j] = todo[j + 1]
    BY <1>5
  <2>4. n - k + (j + 1) = n - l + j
    BY <1>3, <2>1, <2>2
  <2>5. QED
    BY <1>4, <2>2, <2>3, <2>4
<1>10. l <= n /\ l <= 3 /\ n - l + 1 = Place + 1
  BY <1>3, <1>4, <1>5, <1>6
<1>11. Tail(todo) # << >> => Place + 1 \in 1..n /\ Head(Tail(todo)) = f[Place + 1]
  <2> HAVE Tail(todo) # << >>
  <2>1. 1 \in 1..l /\ Head(Tail(todo)) = Tail(todo)[1]
    BY <1>7
  <2>2. Tail(todo)[1] = f[n - l + 1] /\ n - l + 1 = Place + 1
    BY <1>9, <1>10, <2>1
  <2>3. Place + 1 \in 1..n
    BY <1>3, <1>4, <1>5, <1>7, <1>8, <1>10
  <2>4. QED
    BY <2>1, <2>2, <2>3
<1>12. IsRest(Tail(todo), f)
  BY <1>5, <1>9, <1>10 DEF IsRest, n, l
<1>13. QED
  BY <1>1, <1>3, <1>5, <1>8, <1>10, <1>11, <1>12 DEF f, n, l

(* Reading n bytes counts them, covered or not, in the phase being read.    *)
LEMMA ReadCounts ==
    ASSUME TypeOK, NEW n \in Nat, Read(n) \/ ReadUncovered(n)
    PROVE  /\ tally' \in [Phase -> [read : Nat, covered : Nat, waits : 0..MaxWaits]]
           /\ tally'[phase].read = tally[phase].read + n
           /\ tally'[phase].waits = tally[phase].waits
           /\ Read(n) => tally'[phase].covered = tally[phase].covered + n
           /\ Read(n) => tally'[phase] = [read |-> tally[phase].read + n,
                                          covered |-> tally[phase].covered + n,
                                          waits |-> tally[phase].waits]
           /\ ReadUncovered(n) => tally'[phase].covered = tally[phase].covered
           /\ \A p \in Phase : p # phase => tally'[p] = tally[p]
           /\ armed
<1> DEFINE Counts == [read : Nat, covered : Nat, waits : 0..MaxWaits]
           counted == [read |-> tally[phase].read + n, covered |-> tally[phase].covered + n,
                       waits |-> tally[phase].waits]
           uncovered == [read |-> tally[phase].read + n, covered |-> tally[phase].covered,
                         waits |-> tally[phase].waits]
<1>1. tally \in [Phase -> Counts] /\ phase \in Phase
  BY DEF TypeOK
<1>2. /\ armed /\ DOMAIN tally' = Phase
      /\ tally' = [x \in DOMAIN tally' |-> tally'[x]]
      /\ \A p \in Phase : p # phase => tally'[p] = tally[p]
  BY <1>1 DEF Read, ReadUncovered
<1>3. tally[phase] \in Counts
  BY <1>1
<1>4. counted \in Counts /\ uncovered \in Counts
  BY <1>3
<1>5. Read(n) => tally'[phase] = counted
  BY <1>1 DEF Read
<1>6. ReadUncovered(n) => tally'[phase] = uncovered
  BY <1>1 DEF ReadUncovered
<1> HIDE DEF Counts
<1>7. \A p \in Phase : tally'[p] \in Counts
  BY <1>1, <1>2, <1>4, <1>5, <1>6
<1>8. tally' \in [Phase -> Counts]
  BY <1>2, <1>7
<1>9. QED
  BY <1>2, <1>5, <1>6, <1>8 DEF Counts

-----------------------------------------------------------------------------
(* An element read whole. *)

(* Whatever the element, reading the bytes the figures draw for it keeps    *)
(* what does not depend on which element it is: where the decode is, what   *)
(* the CRC covers and that no byte too few or too many has been read.       *)
LEMMA ElementRead ==
    ASSUME IInv, NEW e, AtElement(e), NEW n \in Nat, ReadElement(n), n = FigureBytes(phase, e)',
           WireOK', wire'.opcode = wire.opcode, wire'.response = wire.response,
           Place # 1 => wire'.header = wire.header,
           phase = "Response" => wire'.header["Command"] = wire.header["Command"],
           e # "VwirePacket" => wire'.groups = wire.groups,
           context' \in PacketContext, context'.stopped = context.stopped
    PROVE  /\ TypeOK' /\ Control' /\ Covered' /\ CrcCoverage' /\ Measured' /\ FrameLength'
           /\ Stopped'
           /\ Place' = Place + 1
<1> PICK q \in Phase : q = phase
  BY DEF IInv, TypeOK
<1>1. /\ Seen /\ Packet(q) \in CommandForms \cup AnswerForms
      /\ Place \in 1..3 /\ Place \in 1..Len(Packet(q))
      /\ e = Packet(q)[Place]
      /\ Tail(todo) \in Seq(Element) /\ Len(Tail(todo)) <= 3
      /\ IsRest(Tail(todo), Packet(q))
      /\ Len(Packet(q)) - Len(Tail(todo)) + 1 = Place + 1
  BY AtHead DEF IInv, AtElement
<1>2. PICK k \in 1..3 : k = Place
  BY <1>1
<1>3. /\ pc = "elements" /\ pc' = pc /\ armed' = armed /\ phase' = q /\ result' = result
      /\ todo' = Tail(todo)
  BY DEF ReadElement
<1>4. \A p \in Phase : Packet(p)' = Packet(p)
  BY PacketKept
<1>5. Place' = k + 1
  BY <1>1, <1>2, <1>3, <1>4 DEF Place
<1>6. Seen'
  BY <1>1 DEF Seen
<1>7. /\ tally' \in [Phase -> [read : Nat, covered : Nat, waits : 0..MaxWaits]]
      /\ tally'[q].read = tally[q].read + n /\ tally'[q].covered = tally[q].covered + n
      /\ tally'[q].waits = tally[q].waits
      /\ \A p \in Phase : p # q => tally'[p] = tally[p]
      /\ armed
  BY ReadCounts DEF ReadElement, IInv
<1>8. TypeOK'
  BY <1>1, <1>3, <1>7 DEF TypeOK, IInv
<1>9. Control'
  <2>1. Control
    BY DEF IInv
  <2>2. armed' /\ ~context'.stopped /\ ~result'.truncated /\ ~result'.complete
    BY <1>3, <1>7, <2>1 DEF Control
  <2>3. IsRest(todo', Packet(phase)')
    BY <1>1, <1>3, <1>4
  <2>4. wire'.opcode # None /\ ~ReservedLength(wire'.opcode)
    BY <1>3, <2>1 DEF Control, Walking
  <2>5. phase' = "Command" => wire'.response = None
    BY <1>3, <2>1 DEF Control
  <2>6. phase' = "Response" =>
            /\ wire'.response # None /\ ~IsWaitState(wire'.response)
            /\ LookupResponse(wire'.response) \notin {"UNDEFINED", "NO_RESPONSE"}
    BY <1>3, <2>1 DEF Control
  <2>7. QED
    BY <1>3, <1>6, <2>2, <2>3, <2>4, <2>5, <2>6 DEF Control, Seen, IsRest
<1>10. /\ tally[q].read = 1 + tally[q].waits + Drawn(q, k - 1)
       /\ tally[q].covered = tally[q].read - tally[q].waits
       /\ tally[q] \in [read : Nat, covered : Nat, waits : 0..MaxWaits]
  BY <1>2, <1>3 DEF IInv, Measured, Covered, TypeOK
<1>20. \A p \in Phase : DrawnAdds(p) /\ DrawnAdds(p)'
  <2>1. (\A p \in Phase : WireOK /\ Seen => DrawnAdds(p))'
    BY DrawnNext, PTL
  <2>2. QED
    BY <1>1, <1>6, <2>1, DrawnNext DEF IInv
<1>11. Drawn(q, k - 1)' = Drawn(q, k - 1)
  <2>1. CASE k = 1
    BY <2>1, <1>20 DEF DrawnAdds
  <2>2. CASE k # 1
    <3>1. wire'.header = wire.header /\ e # "VwirePacket"
      BY <1>1, <1>2, <2>2, FormOrder
    <3>2. QED
      BY <3>1, FiguresKept
  <2>3. QED
    BY <2>1, <2>2
<1>12. Drawn(q, k)' = Drawn(q, k - 1)' + n /\ Drawn(q, k - 1)' \in Nat
  <2>1. n = FigureBytes(q, Packet(q)[k])'
    <3>1. Packet(q)[k]' = e
      BY <1>1, <1>2, <1>4
    <3>2. FigureBytes(phase, e)' = FigureBytes(q, e)'
      BY <1>3
    <3>3. QED
      BY <3>1, <3>2
  <2>2. k - 1 \in 0..2 /\ k - 1 \in 0..3 /\ (k - 1) + 1 = k
    BY <1>2
  <2>3. QED
    BY <1>20, <2>1, <2>2 DEF DrawnAdds
<1>13. tally'[q].read = 1 + tally'[q].waits + Drawn(q, k)'
  BY <1>7, <1>10, <1>11, <1>12
<1>14. phase = "Response" =>
           Drawn("Command", Len(Packet("Command")))' = Drawn("Command", Len(Packet("Command")))
  <2> HAVE phase = "Response"
  <2> "Command" \in Phase
    BY DEF Phase
  <2>1. CASE e # "VwirePacket"
    <3>1. \A i : Drawn("Command", i)' = Drawn("Command", i)
      BY <2>1, FiguresKept
    <3>2. QED
      BY <1>4, <3>1
  <2>2. CASE e = "VwirePacket"
    <3>1. Place = 1 /\ Packet(q)[1] = "VwirePacket" /\ Len(Packet(q)) > 0
      BY <1>1, <2>2, FormOrder
    <3>2. Packet("Command") = << >>
      BY <1>1, <3>1, AnswerPacket
    <3>3. Len(Packet("Command")) = 0 /\ Len(Packet("Command"))' = 0
      BY <1>4, <3>2
    <3>4. QED
      BY <1>20, <3>3 DEF DrawnAdds
  <2>3. QED
    BY <2>1, <2>2
<1>15. Measured'
  <2>1. Place' - 1 = k
    BY <1>2, <1>5
  <2>2. pc' = "elements" /\ phase' = q
    BY <1>3
  <2>3. phase' = "Response" => tally'["Command"].read
            = 1 + Drawn("Command", Len(Packet("Command")))' + 1
    BY <1>3, <1>7, <1>14 DEF IInv, Measured, Phase
  <2>4. QED
    BY <1>13, <2>1, <2>2, <2>3 DEF Measured
<1>16. Covered'
  <2>1. Covered
    BY DEF IInv
  <2>2. tally'["Command"].waits = 0
    BY <1>3, <1>7, <2>1 DEF Covered, Phase
  <2>3. tally'[q].covered = tally'[q].read - tally'[q].waits
    BY <1>7, <1>10
  <2>4. phase = "Command" => tally'["Response"] = [read |-> 0, covered |-> 0, waits |-> 0]
    BY <1>7, <2>1 DEF Covered, Phase
  <2>5. phase = "Response" =>
            tally'["Command"].covered = tally'["Command"].read - tally'["Command"].waits - 1
    BY <1>7, <2>1 DEF Covered, Phase
  <2>6. QED
    BY <1>3, <2>2, <2>3, <2>4, <2>5 DEF Covered
<1>17. CrcCoverage' /\ FrameLength'
  BY <1>3 DEF CrcCoverage, FrameLength, Control, IInv
<1>18. Stopped'
  BY <1>3 DEF Stopped
<1>19. QED
  BY <1>2, <1>5, <1>8, <1>9, <1>15, <1>16, <1>17, <1>18

(* What announces something is not what follows another element.            *)
LEMMA WhatFollows ==
    ASSUME IInv, NEW e, AtElement(e), todo' = Tail(todo)
    PROVE  /\ ~At("CycleHeader")' /\ ~At("Addr16")'
           /\ e # "CycleHeader" => ~At("Payload")'
<1>1. pc = "elements" /\ todo # << >> /\ e = Head(todo)
  BY DEF AtElement
<1>2. /\ Packet(phase) \in CommandForms \cup AnswerForms
      /\ Place \in 1..3 /\ e = Packet(phase)[Place]
      /\ todo' # << >> => Place + 1 \in 1..Len(Packet(phase))
                          /\ Head(todo') = Packet(phase)[Place + 1]
  BY <1>1, AtHead DEF IInv
<1>3. SUFFICES ASSUME todo' # << >>
               PROVE  /\ Head(todo') \notin {"CycleHeader", "Addr16"}
                      /\ e # "CycleHeader" => Head(todo') # "Payload"
  BY DEF At
<1>4. Place + 1 # 1
  BY <1>2
<1>5. Place + 1 = 2 => Place = 1
  BY <1>2
<1>6. QED
  BY <1>2, <1>3, <1>4, <1>5, FormOrder

(* An element that announces nothing: neither the context nor what the wire *)
(* has been told of the command changes.                                    *)
LEMMA PlainElementRead ==
    ASSUME IInv, NEW e, AtElement(e), e \notin {"CycleHeader", "Addr16", "Data32"},
           NEW n \in Nat, ReadElement(n), n = FigureBytes(phase, e)',
           context' = context, WireOK', wire'.opcode = wire.opcode,
           wire'.response = wire.response, wire'.header = wire.header,
           wire'.address = wire.address, wire'.write = wire.write,
           e # "VwirePacket" => wire'.groups = wire.groups
    PROVE  IInv'
<1>1. /\ TypeOK' /\ Control' /\ Covered' /\ CrcCoverage' /\ Measured' /\ FrameLength'
      /\ Stopped'
  BY ElementRead DEF IInv, TypeOK
<1>2. /\ pc = "elements" /\ pc' = pc /\ armed' = armed /\ phase' = phase /\ result' = result
      /\ todo # << >> /\ Head(todo) = e /\ todo' = Tail(todo)
  BY DEF ReadElement, AtElement
<1>3. ~At("CycleHeader")' /\ ~At("Addr16")' /\ ~At("Payload")'
  BY <1>2, WhatFollows
<1>4. Name' = Name /\ HeaderChannel("Command")' = HeaderChannel("Command")
      /\ Accepted' = Accepted
  BY FiguresKept DEF Phase, Name, Accepted
<1>5. Modifier' = Modifier
  BY <1>4 DEF Modifier
<1>6. Announced'
  BY <1>2, <1>3, <1>5 DEF Announced, IInv, Walking
<1>7. Flagged'
  BY <1>2, <1>3, <1>4 DEF Flagged, IInv, IsPosted, At
<1>8. Contracted'
  BY <1>2, <1>3, <1>4 DEF Contracted, IInv, Wrote
<1>9. QED
  BY <1>1, <1>6, <1>7, <1>8 DEF IInv

(* A status, an address that is only shown. *)
LEMMA ReadPlainKeeps == ASSUME IInv, ReadPlain PROVE IInv'
<1>1. PICK e \in {"Status16", "IoAddr16", "MemAddr32"} :
          AtElement(e) /\ ReadElement(ElementFixedSize(e))
  BY DEF ReadPlain
<1>2. wire' = wire /\ context' = context
  BY DEF ReadPlain
<1>3. ElementFixedSize(e) \in Nat /\ ElementFixedSize(e) = FigureBytes(phase, e)'
  BY DEF ElementFixedSize, FigureBytes
<1>4. WireOK'
  BY <1>2 DEF IInv, WireOK
<1>5. QED
  BY <1>1, <1>2, <1>3, <1>4, PlainElementRead


(* A virtual wire packet announces its own length, in its first byte.       *)
LEMMA ReadVwirePacketKeeps ==
    ASSUME IInv, NEW count \in VwireCounts, ReadVwirePacket(count)
    PROVE  IInv'
<1>1. /\ AtElement("VwirePacket") /\ context' = context
      /\ ReadElement(1 + 2 * VwireGroupCount(count))
      /\ wire' = [wire EXCEPT !.groups = (count % 64) + 1]
  BY DEF ReadVwirePacket
<1>2. count \in Byte /\ (count % 64) + 1 \in Nat
  <2>1. count \in Byte
    BY BytesAssumption
  <2>2. QED
    BY <2>1 DEF Byte
<1>3. WireOK' /\ wire'.groups = (count % 64) + 1
  BY <1>1, <1>2 DEF IInv, WireOK
<1>4. /\ wire'.opcode = wire.opcode /\ wire'.response = wire.response
      /\ wire'.header = wire.header /\ wire'.address = wire.address /\ wire'.write = wire.write
  BY <1>1 DEF IInv, WireOK
<1>5. /\ 1 + 2 * VwireGroupCount(count) \in Nat
      /\ 1 + 2 * VwireGroupCount(count) = FigureBytes(phase, "VwirePacket")'
  BY <1>2, <1>3 DEF VwireGroupCount, FigureBytes
<1>6. QED
  BY <1>1, <1>3, <1>4, <1>5, PlainElementRead

(* A payload is as long as its header announced, split by SMBus or not.     *)
LEMMA ReadPayloadKeeps ==
    ASSUME IInv, NEW count \in SmbusCounts, ReadPayload(count)
    PROVE  IInv'
<1> DEFINE n == IF context.layout = "OobMessage" /\ context.payloadBytes >= SmbusHeaderBytes
                THEN SmbusPayloadBytes(context.payloadBytes, count)
                ELSE context.payloadBytes
<1>1. AtElement("Payload") /\ ReadElement(n) /\ wire' = wire /\ context' = context
  BY DEF ReadPayload
<1>2. count \in Byte
  BY BytesAssumption
<1>3. context.payloadBytes \in Nat
  <2> DEFINE most == 4096
  <2>1. context.payloadBytes \in 0..most
    BY DEF IInv, TypeOK, PacketContext
  <2>2. most \in Nat
    OBVIOUS
  <2> HIDE DEF most
  <2>3. QED
    BY <2>1, <2>2, NumberInRange
<1>4. n = context.payloadBytes
  BY <1>2, <1>3, SmbusPacketWhole
<1>5. context.payloadBytes = FigureBytes(phase, "Payload")
  BY <1>1 DEF IInv, Announced, AtElement, At
<1>6. FigureBytes(phase, "Payload")' = FigureBytes(phase, "Payload")
  BY <1>1 DEF FigureBytes, ReadElement
<1> HIDE DEF n
<1>7. n \in Nat /\ n = FigureBytes(phase, "Payload")'
  BY <1>3, <1>4, <1>5, <1>6
<1>8. WireOK'
  BY <1>1 DEF IInv, WireOK
<1>9. QED
  BY <1>1, <1>7, <1>8, PlainElementRead

(* A short cycle's data is as long as its opcode says. *)
LEMMA ReadShortDataKeeps == ASSUME IInv, ReadShortData PROVE IInv'
<1>1. /\ AtElement("ShortData") /\ ReadElement(context.shortLength)
      /\ wire' = wire /\ context' = context
  BY DEF ReadShortData
<1>2. /\ Seen /\ phase \in Phase /\ Place \in 1..Len(Packet(phase))
      /\ Packet(phase)[Place] = "ShortData"
  BY <1>1, AtHead DEF IInv, AtElement, TypeOK
<1>3. LookupOpcode(wire.opcode).short
  BY <1>2, CommandPacket, AnswerPacket DEF Phase
<1>4. context.shortLength = (wire.opcode % 4) + 1
  BY <1>1, <1>3 DEF IInv, Announced, Walking, AtElement
<1>5. context.shortLength \in Nat
  BY DEF IInv, TypeOK, PacketContext
<1>6. context.shortLength = FigureBytes(phase, "ShortData")'
  BY <1>1, <1>4 DEF FigureBytes
<1>7. WireOK'
  BY <1>1 DEF IInv, WireOK
<1>8. QED
  BY <1>1, <1>5, <1>6, <1>7, PlainElementRead

(* The values of the context's fields. *)
ChannelValues == {o.channel : o \in Opcodes}
AddressValues == Addresses \cup {None}
LengthValues == {0, 1, 2, 4}
PayloadValues == 0..4096
LayoutValues == Layouts \cup {None}
WriteValues == Configs \cup {None}

(* So written, a step that sets a few fields keeps the record's type.       *)
LEMMA ContextFields ==
    PacketContext =
        [address : AddressValues, channel : ChannelValues, shortLength : LengthValues,
         payloadBytes : PayloadValues, layout : LayoutValues, posted : BOOLEAN,
         stopped : BOOLEAN, write : WriteValues, reset : BOOLEAN, accepted : BOOLEAN]
BY DEF PacketContext, ChannelValues, AddressValues, LengthValues, PayloadValues, LayoutValues,
       WriteValues

(* The address of a configuration access: nothing has been written yet. *)
LEMMA ReadAddr16Keeps ==
    ASSUME IInv, NEW address \in Addresses, ReadAddr16(address)
    PROVE  IInv'
<1>1. /\ AtElement("Addr16") /\ ReadElement(2)
      /\ context' = [context EXCEPT !.address = address]
      /\ wire' = [wire EXCEPT !.address = address]
  BY DEF ReadAddr16
<1>2. context \in PacketContext /\ context' \in PacketContext
  <2>1. context \in PacketContext
    BY DEF IInv, TypeOK
  <2>2. address \in AddressValues
    BY SMTT(30) DEF AddressValues
  <2>3. QED
    BY <1>1, <2>1, <2>2, ContextFields
<1>3. /\ context'.address = address /\ context'.channel = context.channel
      /\ context'.shortLength = context.shortLength /\ context'.posted = context.posted
      /\ context'.stopped = context.stopped /\ context'.write = context.write
      /\ context'.reset = context.reset /\ context'.accepted = context.accepted
  BY <1>1, <1>2 DEF PacketContext
<1>4. /\ wire'.address = address /\ wire'.opcode = wire.opcode /\ wire'.response = wire.response
      /\ wire'.header = wire.header /\ wire'.groups = wire.groups /\ wire'.write = wire.write
  BY <1>1 DEF IInv, WireOK
<1>5. WireOK'
  BY <1>1 DEF IInv, WireOK
<1>6. 2 \in Nat /\ 2 = FigureBytes(phase, "Addr16")'
  BY DEF FigureBytes
<1>7. /\ TypeOK' /\ Control' /\ Covered' /\ CrcCoverage' /\ Measured' /\ FrameLength'
      /\ Stopped'
  BY <1>1, <1>2, <1>3, <1>4, <1>5, <1>6, ElementRead
<1>8. /\ pc = "elements" /\ pc' = pc /\ armed' = armed /\ phase' = phase /\ result' = result
      /\ todo # << >> /\ Head(todo) = "Addr16" /\ todo' = Tail(todo)
  BY <1>1 DEF ReadElement, AtElement
<1>9. ~At("CycleHeader")' /\ ~At("Addr16")' /\ ~At("Payload")'
  BY <1>1, <1>8, WhatFollows
<1>10. /\ Name' = Name /\ HeaderChannel("Command")' = HeaderChannel("Command")
       /\ Accepted' = Accepted
  BY <1>4, FiguresKept DEF Phase, Name, Accepted
<1>11. Modifier' = Modifier
  BY <1>4, <1>10 DEF Modifier
<1>12. phase = "Command"
  <2>1. /\ Seen /\ phase \in Phase /\ Place \in 1..Len(Packet(phase))
        /\ Packet(phase)[Place] = "Addr16"
    BY <1>8, AtHead DEF IInv, TypeOK
  <2>2. QED
    BY <2>1, AnswerPacket DEF Phase
<1>13. Announced'
  BY <1>3, <1>4, <1>8, <1>9, <1>11 DEF Announced, IInv, Walking
<1>14. Flagged'
  BY <1>3, <1>4, <1>8, <1>9, <1>10 DEF Flagged, IInv, IsPosted, At
<1>15. Contracted'
  <2>1. wire.write = None /\ context.write = Wrote
    BY <1>8, <1>12 DEF Contracted, IInv
  <2>2. Wrote = None /\ Wrote' = None
    BY <1>4, <2>1 DEF Wrote
  <2>3. QED
    BY <1>3, <1>4, <1>8, <1>9, <1>10, <2>1, <2>2 DEF Contracted, IInv
<1>16. QED
  BY <1>5, <1>7, <1>13, <1>14, <1>15 DEF IInv

(* A DWord: in the command phase the register's new value, the last element *)
(* of a SET_CONFIGURATION, and in the response phase what was read.         *)
LEMMA ReadData32Keeps ==
    ASSUME IInv, NEW config \in Configs, ReadData32(config)
    PROVE  IInv'
<1>1. /\ AtElement("Data32") /\ ReadElement(4)
      /\ context' = [context EXCEPT !.write = RecognisesWrite(context, config)]
      /\ wire' = IF phase = "Command" THEN [wire EXCEPT !.write = config] ELSE wire
  BY DEF ReadData32
<1>2. /\ context \in PacketContext /\ context.write \in Configs \cup {None}
      /\ RecognisesWrite(context, config) \in Configs \cup {None}
  BY DEF IInv, TypeOK, PacketContext, RecognisesWrite
<1>3. context' \in PacketContext
  <2>1. RecognisesWrite(context, config) \in WriteValues
    BY <1>2 DEF WriteValues
  <2>2. QED
    BY <1>1, <1>2, <2>1, ContextFields
<1>4. /\ context'.write = RecognisesWrite(context, config)
      /\ context'.address = context.address /\ context'.channel = context.channel
      /\ context'.shortLength = context.shortLength /\ context'.posted = context.posted
      /\ context'.stopped = context.stopped
      /\ context'.reset = context.reset /\ context'.accepted = context.accepted
  BY <1>1, <1>2 DEF PacketContext
<1>5. /\ wire'.address = wire.address /\ wire'.opcode = wire.opcode
      /\ wire'.response = wire.response
      /\ wire'.header = wire.header /\ wire'.groups = wire.groups
      /\ phase = "Command" => wire'.write = config
  BY <1>1 DEF IInv, WireOK
<1>6. WireOK'
  BY <1>1 DEF IInv, WireOK
<1>7. 4 \in Nat /\ 4 = FigureBytes(phase, "Data32")'
  BY DEF FigureBytes
<1>8. /\ TypeOK' /\ Control' /\ Covered' /\ CrcCoverage' /\ Measured' /\ FrameLength'
      /\ Stopped'
  BY <1>1, <1>3, <1>4, <1>5, <1>6, <1>7, ElementRead
<1>9. /\ pc = "elements" /\ pc' = pc /\ armed' = armed /\ phase' = phase /\ result' = result
      /\ todo # << >> /\ Head(todo) = "Data32" /\ todo' = Tail(todo)
  BY <1>1 DEF ReadElement, AtElement
<1>10. ~At("CycleHeader")' /\ ~At("Addr16")' /\ ~At("Payload")'
  BY <1>1, <1>9, WhatFollows
<1>11. /\ Name' = Name /\ HeaderChannel("Command")' = HeaderChannel("Command")
       /\ Accepted' = Accepted
  BY <1>5, FiguresKept DEF Phase, Name, Accepted
<1>12. Modifier' = Modifier
  BY <1>5, <1>11 DEF Modifier
<1>13. Announced'
  BY <1>4, <1>5, <1>9, <1>10, <1>12 DEF Announced, IInv, Walking
<1>14. Flagged'
  BY <1>4, <1>5, <1>9, <1>10, <1>11 DEF Flagged, IInv, IsPosted, At
<1>15. context'.write = Wrote' /\ (phase = "Command" => todo' = << >>)
  <2>1. context.address = wire.address /\ context.write = Wrote
    BY <1>9 DEF Contracted, IInv
  <2>2. CASE phase = "Response"
    BY <1>1, <1>4, <2>1, <2>2 DEF RecognisesWrite, Wrote
  <2>3. CASE phase = "Command"
    <3>1. /\ Seen /\ Place \in 1..Len(Packet("Command"))
          /\ Packet("Command")[Place] = "Data32"
          /\ Tail(todo) # << >> => Place + 1 \in 1..Len(Packet("Command"))
      BY <1>9, <2>3, AtHead DEF IInv
    <3>2. wire.opcode = 34 /\ Place = 2 /\ Packet("Command") = <<"Addr16", "Data32">>
      BY <3>1, CommandPacket
    <3>3. Len(Packet("Command")) = 2
      BY <3>2
    <3>4. todo' = << >>
      <4>1. Place + 1 \notin 1..2
        BY <3>2
      <4>2. QED
        BY <1>9, <3>1, <3>3, <4>1
    <3>5. RecognisesWrite(context, config) = Wrote'
      BY <1>5, <2>1, <2>3, <3>2 DEF RecognisesWrite, Wrote
    <3>6. QED
      BY <1>4, <2>3, <3>4, <3>5
  <2>4. QED
    BY <2>2, <2>3 DEF IInv, TypeOK, Phase
<1>16. Contracted'
  BY <1>4, <1>5, <1>9, <1>10, <1>11, <1>15 DEF Contracted, IInv
<1>17. QED
  BY <1>6, <1>8, <1>13, <1>14, <1>16 DEF IInv

(* The cycle header comes first, in the channel the figures read it in. *)
LEMMA AtHeader ==
    ASSUME IInv, AtElement("CycleHeader")
    PROVE  /\ Seen /\ Place = 1 /\ pc = "elements" /\ At("CycleHeader")
           /\ phase \in Phase
           /\ context.channel = HeaderChannel(phase)
           /\ HeaderChannel(phase) \in {"Peripheral", "Oob", "Flash"}
           /\ phase = "Command" => (HeaderChannel("Command") = "Oob" <=> Name = "PUT_OOB")
<1>1. pc = "elements" /\ todo # << >> /\ Head(todo) = "CycleHeader"
  BY DEF AtElement
<1>2. /\ Seen /\ phase \in Phase /\ Packet(phase) \in CommandForms \cup AnswerForms
      /\ Place \in 1..Len(Packet(phase)) /\ Packet(phase)[Place] = "CycleHeader"
  BY <1>1, AtHead DEF IInv, TypeOK
<1>3. Place = 1
  BY <1>2, FormOrder
<1>4. Len(Packet(phase)) > 0 /\ Packet(phase)[1] = "CycleHeader"
  <2>1. Len(Packet(phase)) \in Nat
    BY <1>2, PacketForm, LenProperties
  <2>2. QED
    BY <1>2, <1>3, <2>1
<1>5. CASE phase = "Command"
  <2>1. context.channel = LookupOpcode(wire.opcode).channel
    BY <1>1, <1>5 DEF IInv, Announced, Walking
  <2>2. HeaderChannel("Command") = LookupOpcode(wire.opcode).channel
    BY DEF HeaderChannel
  <2>3. QED
    BY <1>1, <1>2, <1>3, <1>4, <1>5, <2>1, <2>2, CommandPacket DEF At
<1>6. CASE phase = "Response"
  <2>1. context.channel = AppendedChannel(Modifier, LookupOpcode(wire.opcode).channel)
    BY <1>1, <1>6 DEF IInv, Announced
  <2>2. QED
    BY <1>1, <1>2, <1>3, <1>4, <1>6, <2>1, AnswerPacket DEF At
<1>7. QED
  BY <1>2, <1>5, <1>6 DEF Phase

(* A header of a known type: it announces the payload and, in the command   *)
(* phase, says whether the transaction is posted.                           *)
LEMMA ReadCycleHeaderKeeps ==
    ASSUME IInv, NEW byte \in CycleBytes, NEW raw \in RawLengths, ReadCycleHeader(byte, raw)
    PROVE  IInv'
<1> DEFINE t == LookupCycleType(context.channel, byte)
           posted == IF phase = "Command" THEN t.type = "Posted" ELSE context.posted
<1>1. /\ AtElement("CycleHeader") /\ ReadElement(HeaderBytes(t.layout))
      /\ KnownCycleType(context.channel, byte)
      /\ context' = [context EXCEPT !.layout = t.layout,
                                    !.payloadBytes = PayloadBytes(t.layout, raw),
                                    !.posted = posted]
      /\ wire' = [wire EXCEPT !.header[phase] = [byte |-> byte, raw |-> raw]]
  BY DEF ReadCycleHeader
<1>2. byte \in Byte
  BY BytesAssumption
<1>3. raw \in 0..4095 /\ raw \in Nat /\ raw <= 4095
  <2>1. raw \in 0..4095
    BY LengthsAssumption
  <2>2. QED
    BY <2>1
<1>4. /\ Seen /\ Place = 1 /\ pc = "elements" /\ phase \in Phase
      /\ context.channel = HeaderChannel(phase) /\ At("CycleHeader")
      /\ HeaderChannel(phase) \in {"Peripheral", "Oob", "Flash"}
      /\ phase = "Command" => (HeaderChannel("Command") = "Oob" <=> Name = "PUT_OOB")
  BY <1>1, AtHeader
<1>5. /\ t.layout \in Layouts
      /\ t.type = "Posted" <=>
             \/ context.channel = "Oob"
             \/ context.channel = "Peripheral" /\ byte \in {1, 3} \cup 16..31
      /\ HeaderBytes(t.layout) = FigureHeaderBytes(context.channel, byte)
      /\ HasPayload(t.layout) /\ LengthKind(t.layout) = "OneBased" <=> byte % 2 # 0
  BY <1>1, <1>2, HeaderRow
<1> HIDE DEF t
<1>6. PayloadBytes(t.layout, raw) =
          IF byte % 2 = 0 THEN 0 ELSE IF raw = 0 THEN 4096 ELSE raw
  <2>1. HasPayload(t.layout) /\ LengthKind(t.layout) = "OneBased" <=> byte % 2 # 0
    BY <1>5
  <2>2. CASE byte % 2 = 0
    <3>1. ~(HasPayload(t.layout) /\ LengthKind(t.layout) = "OneBased")
      BY <2>1, <2>2
    <3>2. QED
      BY <2>2, <3>1, Zenon DEF PayloadBytes
  <2>3. CASE byte % 2 # 0
    <3>1. HasPayload(t.layout) /\ LengthKind(t.layout) = "OneBased"
      BY <2>1, <2>3
    <3>2. PayloadBytes(t.layout, raw) = CycleResolvedLength(raw)
      BY <3>1, Zenon DEF PayloadBytes
    <3>3. QED
      BY <2>3, <3>2 DEF CycleResolvedLength
  <2>4. QED
    BY <2>2, <2>3
<1>7. context' \in PacketContext
  <2>1. PayloadBytes(t.layout, raw) \in PayloadValues
    BY <1>3, <1>6 DEF PayloadValues
  <2>2. context \in PacketContext /\ context.posted \in BOOLEAN
    BY DEF IInv, TypeOK, PacketContext
  <2>3. posted \in BOOLEAN /\ t.layout \in LayoutValues
    BY <1>5, <2>2 DEF LayoutValues
  <2> HIDE DEF posted
  <2>4. QED
    BY <1>1, <2>1, <2>2, <2>3, ContextFields
<1>8. /\ context'.payloadBytes = PayloadBytes(t.layout, raw) /\ context'.posted = posted
      /\ context'.address = context.address /\ context'.channel = context.channel
      /\ context'.shortLength = context.shortLength
      /\ context'.stopped = context.stopped /\ context'.write = context.write
      /\ context'.reset = context.reset /\ context'.accepted = context.accepted
  BY <1>1 DEF IInv, TypeOK, PacketContext
<1>9. /\ wire'.address = wire.address /\ wire'.opcode = wire.opcode
      /\ wire'.response = wire.response /\ wire'.write = wire.write
      /\ wire'.groups = wire.groups
      /\ wire'.header = [wire.header EXCEPT ![phase] = [byte |-> byte, raw |-> raw]]
  BY <1>1 DEF IInv, WireOK
<1>10. /\ wire'.header[phase] = [byte |-> byte, raw |-> raw]
       /\ \A p \in Phase : p # phase => wire'.header[p] = wire.header[p]
       /\ wire'.header \in [Phase -> [byte : Byte \cup {None}, raw : Nat]]
  <2>1. wire.header \in [Phase -> [byte : Byte \cup {None}, raw : Nat]]
    BY DEF IInv, WireOK
  <2>2. QED
    BY <1>2, <1>3, <1>4, <1>9, <2>1
<1>11. WireOK'
  BY <1>1, <1>9, <1>10 DEF IInv, WireOK
<1>12. HeaderChannel(phase)' = HeaderChannel(phase) /\ phase' = phase
  <2>1. phase' = phase
    BY <1>1 DEF ReadElement
  <2>2. QED
    BY <1>4, <1>9, <2>1, PacketKept
<1>13. /\ HeaderBytes(t.layout) = FigureBytes(phase, "CycleHeader")'
       /\ PayloadBytes(t.layout, raw) = FigureBytes(phase, "Payload")'
  BY <1>4, <1>5, <1>6, <1>10, <1>12 DEF FigureBytes
<1>14. HeaderBytes(t.layout) \in Nat
  BY DEF HeaderBytes, AddressBytes
<1>15. /\ TypeOK' /\ Control' /\ Covered' /\ CrcCoverage' /\ Measured' /\ FrameLength'
       /\ Stopped'
  <2>1. phase = "Response" => wire'.header["Command"] = wire.header["Command"]
    BY <1>10 DEF Phase
  <2>2. QED
    BY <1>1, <1>4, <1>7, <1>8, <1>9, <1>11, <1>13, <1>14, <2>1, ElementRead
<1>16. /\ pc' = pc /\ armed' = armed /\ result' = result
       /\ todo # << >> /\ Head(todo) = "CycleHeader" /\ todo' = Tail(todo)
  BY <1>1 DEF ReadElement, AtElement
<1>17. ~At("CycleHeader")' /\ ~At("Addr16")'
  BY <1>1, <1>16, WhatFollows
<1>18. Name' = Name /\ Accepted' = Accepted /\ Modifier' = Modifier
  BY <1>9 DEF Name, Accepted, Modifier
<1>19. Announced'
  BY <1>4, <1>8, <1>9, <1>12, <1>13, <1>16, <1>18 DEF Announced, IInv, Walking
<1>20. posted <=> IsPosted'
  <2>1. CASE phase = "Command"
    <3>1. IsPosted' <=> \/ Name = "PUT_OOB"
                        \/ /\ HeaderChannel("Command") = "Peripheral"
                           /\ byte \in {1, 3} \cup 16..31
      BY <1>10, <1>12, <1>18, <2>1 DEF IsPosted
    <3>2. QED
      BY <1>4, <1>5, <2>1, <3>1
  <2>2. CASE phase = "Response"
    <3>1. wire'.header["Command"] = wire.header["Command"]
      BY <1>10, <2>2 DEF Phase
    <3>2. HeaderChannel("Command")' = HeaderChannel("Command")
      BY <1>9, PacketKept DEF Phase
    <3>3. IsPosted' <=> IsPosted
      BY <1>18, <3>1, <3>2 DEF IsPosted
    <3>4. QED
      BY <2>2, <3>3 DEF Flagged, IInv
  <2>3. QED
    BY <1>4, <2>1, <2>2 DEF Phase
<1>21. Flagged'
  <2>1. result'.deferFlagged <=>
            wire.response # None /\ LookupResponse(wire.response) = "DEFER" /\ context.posted
    BY <1>4, <1>16 DEF Flagged, IInv
  <2>2. wire.response # None => posted = context.posted
    BY <1>4 DEF Control, IInv, Phase
  <2>3. QED
    BY <1>4, <1>8, <1>9, <1>12, <1>16, <1>17, <1>20, <2>1, <2>2 DEF Flagged
<1>22. Contracted'
  BY <1>4, <1>8, <1>9, <1>12, <1>16, <1>17, <1>18 DEF Contracted, IInv, Wrote
<1>23. QED
  BY <1>11, <1>15, <1>19, <1>21, <1>22 DEF IInv

(* A byte is never taken for nothing seen yet. *)
LEMMA ByteIsSeen == None \notin Byte
BY NoneAssumption

(* A header of no known type: the decode stops, and the byte is none of     *)
(* those Table 5 prints for the channel.                                    *)
LEMMA UnknownCycleTypeKeeps ==
    ASSUME IInv, NEW byte \in CycleBytes, UnknownCycleType(byte)
    PROVE  IInv'
<1>1. /\ AtElement("CycleHeader") /\ ~KnownCycleType(context.channel, byte) /\ Read(1)
      /\ context' = [context EXCEPT !.layout = None, !.payloadBytes = 0, !.stopped = TRUE]
      /\ wire' = [wire EXCEPT !.header[phase].byte = byte]
      /\ result' = [result EXCEPT !.truncated = FALSE]
      /\ pc' = "record" /\ armed' = armed /\ phase' = phase /\ todo' = todo
  BY DEF UnknownCycleType
<1>2. byte \in Byte /\ byte # None
  BY BytesAssumption, ByteIsSeen
<1>3. /\ Seen /\ pc = "elements" /\ phase \in Phase
      /\ context.channel = HeaderChannel(phase)
      /\ HeaderChannel(phase) \in {"Peripheral", "Oob", "Flash"}
  BY <1>1, AtHeader
<1>4. /\ tally' \in [Phase -> [read : Nat, covered : Nat, waits : 0..MaxWaits]]
      /\ tally'[phase].waits = tally[phase].waits
      /\ \A p \in Phase : p # phase => tally'[p] = tally[p]
      /\ armed
  BY <1>1, ReadCounts DEF IInv
<1>5. context' \in PacketContext
  <2>1. None \in LayoutValues /\ 0 \in PayloadValues /\ context \in PacketContext
    BY DEF LayoutValues, PayloadValues, IInv, TypeOK
  <2>2. QED
    BY <1>1, <2>1, ContextFields
<1>6. /\ context'.posted = context.posted /\ context'.address = context.address
      /\ context'.write = context.write /\ context'.reset = context.reset
      /\ context'.accepted = context.accepted
  BY <1>1 DEF IInv, TypeOK, PacketContext
<1>7. /\ wire'.address = wire.address /\ wire'.opcode = wire.opcode
      /\ wire'.response = wire.response /\ wire'.write = wire.write
      /\ wire'.groups = wire.groups
      /\ wire'.header = [wire.header EXCEPT ![phase].byte = byte]
  BY <1>1 DEF IInv, WireOK
<1>8. /\ wire'.header[phase].byte = byte
      /\ \A p \in Phase : p # phase => wire'.header[p] = wire.header[p]
      /\ wire'.header \in [Phase -> [byte : Byte \cup {None}, raw : Nat]]
  <2>1. wire.header \in [Phase -> [byte : Byte \cup {None}, raw : Nat]]
    BY DEF IInv, WireOK
  <2>2. QED
    BY <1>2, <1>3, <1>7, <2>1
<1>9. WireOK'
  BY <1>1, <1>7, <1>8 DEF IInv, WireOK
<1>10. result' \in Result /\ ~result'.truncated /\ ~result'.complete
       /\ result'.deferFlagged = result.deferFlagged
  BY <1>1, <1>3 DEF IInv, TypeOK, Result, Control
<1>11. TypeOK'
  BY <1>1, <1>4, <1>5, <1>10 DEF TypeOK, IInv
<1>12. HeaderChannel(phase)' = HeaderChannel(phase) /\ Name' = Name /\ Accepted' = Accepted
  <2>1. HeaderChannel(phase)' = HeaderChannel(phase)
    BY <1>1, <1>3, <1>7, PacketKept
  <2>2. QED
    BY <1>7, <2>1 DEF Name, Accepted
<1>13. Control'
  BY <1>1, <1>7, <1>12 DEF Control, IInv, Walking
<1>14. Announced'
  BY <1>1 DEF Announced, Walking
<1>15. Covered'
  BY <1>1, <1>3, <1>4 DEF Covered, IInv, Phase
<1>16. phase = "Response" =>
           /\ wire'.header["Command"] = wire.header["Command"]
           /\ HeaderChannel("Command")' = HeaderChannel("Command")
           /\ Drawn("Command", Len(Packet("Command")))' = Drawn("Command", Len(Packet("Command")))
  <2> HAVE phase = "Response"
  <2>1. wire'.header["Command"] = wire.header["Command"]
    BY <1>8 DEF Phase
  <2>2. QED
    BY <1>7, <2>1, FiguresKept DEF Phase
<1>17. Measured'
  BY <1>1, <1>4, <1>16 DEF Measured, IInv, Phase
<1>18. Flagged'
  BY <1>1, <1>3, <1>6, <1>7, <1>10, <1>12, <1>16 DEF Flagged, IInv, IsPosted
<1>19. Contracted'
  <2>1. wire.opcode # 255
    BY <1>3 DEF Seen
  <2>2. QED
    BY <1>1, <1>3, <1>4, <1>6, <1>7, <1>10, <1>12, <2>1 DEF Contracted, IInv, Wrote
<1>20. Stopped'
  <2>1. ~Printed(HeaderChannel(phase), byte)
    BY <1>1, <1>2, <1>3, PrintedIsKnown
  <2>2. Reason'
    BY <1>1, <1>2, <1>3, <1>8, <1>12, <2>1 DEF Reason
  <2>3. QED
    BY <2>2 DEF Stopped
<1>21. QED
  BY <1>9, <1>10, <1>11, <1>13, <1>14, <1>15, <1>17, <1>18, <1>19, <1>20
     DEF IInv, CrcCoverage, FrameLength

(* What is told from the wire changes with it alone. *)
LEMMA SameWire ==
    ASSUME wire' = wire
    PROVE  /\ Name' = Name /\ Accepted' = Accepted /\ Modifier' = Modifier
           /\ IsPosted' = IsPosted /\ Wrote' = Wrote /\ Reason' = Reason
           /\ \A p \in Phase : /\ Packet(p)' = Packet(p)
                               /\ \A n : Drawn(p, n)' = Drawn(p, n)
                               /\ PhaseBytes(p)' = PhaseBytes(p)
           /\ WireOK => WireOK'
           /\ \A p \in Phase : \A e : FigureBytes(p, e)' = FigureBytes(p, e)
<1>1. Name' = Name /\ Accepted' = Accepted
  BY DEF Name, Accepted
<1>2. Modifier' = Modifier
  BY <1>1 DEF Modifier
<1>3. \A p \in Phase : /\ Packet(p)' = Packet(p) /\ HeaderChannel(p)' = HeaderChannel(p)
                       /\ \A n : Drawn(p, n)' = Drawn(p, n)
                       /\ \A e : FigureBytes(p, e)' = FigureBytes(p, e)
  BY FiguresKept
<1>4. IsPosted' = IsPosted
  BY <1>1, <1>3 DEF IsPosted, Phase
<1>5. Wrote' = Wrote
  BY DEF Wrote
<1>6. Reason' = Reason
  BY <1>3 DEF Reason
<1>7. WireOK => WireOK'
  BY DEF WireOK
<1>8. \A p : FigureElements(p)' = FigureElements(p)
  BY <1>1 DEF FigureElements
<1>9. \A p \in Phase : PhaseBytes(p)' = PhaseBytes(p)
  BY <1>3, <1>8 DEF PhaseBytes
<1>10. QED
  BY <1>1, <1>2, <1>3, <1>4, <1>5, <1>6, <1>7, <1>9

(* Nothing left to read: what was read is the whole packet. *)
LEMMA EndElementsKeeps == ASSUME IInv, EndElements PROVE IInv'
<1>1. /\ pc = "elements" /\ todo = << >> /\ pc' = "crc"
      /\ armed' = armed /\ phase' = phase /\ todo' = todo /\ context' = context
      /\ tally' = tally /\ result' = result /\ wire' = wire
  BY DEF EndElements
<1>2. /\ Name' = Name /\ Accepted' = Accepted /\ Modifier' = Modifier
      /\ IsPosted' = IsPosted /\ Wrote' = Wrote /\ WireOK'
      /\ \A p \in Phase : /\ Packet(p)' = Packet(p)
                          /\ \A n : Drawn(p, n)' = Drawn(p, n)
  BY <1>1, SameWire DEF IInv
<1>3. PICK q \in Phase : q = phase
  BY DEF IInv, TypeOK
<1>4. TypeOK'
  BY <1>1 DEF TypeOK, IInv
<1>5. Control'
  BY <1>1 DEF Control, IInv, Walking
<1>6. Announced'
  BY <1>1 DEF Announced, IInv, Walking
<1>7. Covered'
  BY <1>1 DEF Covered, IInv
<1>8. Measured'
  <2>1. Seen
    BY <1>1, WalkingSeen DEF IInv, Walking
  <2>2. Place - 1 = Len(Packet(q))
    <3>1. Len(Packet(q)) \in Nat
      BY <2>1, PacketForm, LenProperties
    <3>2. Len(todo) = 0
      BY <1>1
    <3>3. QED
      BY <1>3, <3>1, <3>2 DEF Place
  <2>3. tally[q].read = 1 + tally[q].waits + Drawn(q, Len(Packet(q)))
    BY <1>1, <1>3, <2>2 DEF Measured, IInv
  <2>4. Drawn(q, Len(Packet(q)))' = Drawn(q, Len(Packet(q)))
        /\ Drawn("Command", Len(Packet("Command")))' = Drawn("Command", Len(Packet("Command")))
    BY <1>2 DEF Phase
  <2>5. Drawn(phase, Len(Packet(phase)))' = Drawn(q, Len(Packet(q)))'
    BY <1>1, <1>3
  <2>6. QED
    BY <1>1, <1>3, <2>3, <2>4, <2>5 DEF Measured, IInv
<1>9. Flagged'
  BY <1>1, <1>2 DEF Flagged, IInv, At
<1>10. Contracted'
  BY <1>1, <1>2 DEF Contracted, IInv
<1>11. CrcCoverage' /\ FrameLength' /\ Stopped'
  BY <1>1 DEF CrcCoverage, FrameLength, Stopped, Control, IInv
<1>12. QED
  BY <1>2, <1>4, <1>5, <1>6, <1>7, <1>8, <1>9, <1>10, <1>11 DEF IInv

(* The figures' elements are the packet's, but for the error answers of the *)
(* two reads that the code reads otherwise.                                 *)
LEMMA FiguresArePackets ==
    ASSUME Seen
    PROVE  /\ PhaseBytes("Command") = Drawn("Command", Len(Packet("Command")))
           /\ Accepted \/ Name \notin {"GET_VWIRE", "GET_CONFIGURATION"} =>
                  PhaseBytes("Response") = Drawn("Response", Len(Packet("Response")))
<1>1. ASSUME NEW p \in Phase, FigureElements(p) = Packet(p)
      PROVE  PhaseBytes(p) = Drawn(p, Len(Packet(p)))
  <2>1. DOMAIN Packet(p) = 1..Len(Packet(p))
    BY PacketForm, LenProperties
  <2>2. QED
    BY <1>1, <2>1 DEF PhaseBytes, Drawn
<1>2. FigureElements("Command") = Packet("Command")
  BY DEF FigureElements, Packet
<1>3. Name # "RESET"
  BY OpcodeNames DEF Seen, Name
<1>4. CASE Accepted
  <2>1. CASE Name = "GET_STATUS"
    <3>1. FigureElements("Response")
              = AppendedElements(Modifier) \o ResponseElements(Name)
      BY <1>4, <2>1 DEF FigureElements, Modifier
    <3>2. ResponseElements(Name) = <<"Status16">>
      BY <2>1 DEF ResponseElements
    <3>3. QED
      BY <1>1, <1>2, <1>4, <2>1, <3>1, <3>2, Answer DEF Phase
  <2>2. CASE Name # "GET_STATUS"
    <3>1. FigureElements("Response") = << >> \o ResponseElements(Name)
      BY <1>4, <2>2 DEF FigureElements
    <3>2. ResponseElements(Name) \in AnswerForms
      BY ResponseForms DEF AnswerForms
    <3>3. FigureElements("Response") = ResponseElements(Name)
      BY <3>1, <3>2, FormsAreSequences, ConcatEmptySeq
    <3>4. QED
      BY <1>1, <1>2, <1>4, <2>2, <3>3, Answer DEF Phase
  <2>3. QED
    BY <2>1, <2>2
<1>5. CASE ~Accepted
  <2>1. FigureElements("Response") = <<"Status16">>
    BY <1>5 DEF FigureElements
  <2>2. Name \notin {"GET_VWIRE", "GET_CONFIGURATION"} => Packet("Response") = <<"Status16">>
    BY <1>3, <1>5, Answer
  <2>3. QED
    BY <1>1, <1>2, <1>5, <2>1, <2>2 DEF Phase
<1>6. QED
  BY <1>4, <1>5

(* The CRC byte ends a phase; it covers every byte before it but the waits. *)
LEMMA ReadCrcKeeps == ASSUME IInv, ReadCrc PROVE IInv'
<1>1. /\ pc = "crc" /\ ReadUncovered(1) /\ pc' = IF phase = "Command" THEN "tar" ELSE "record"
      /\ result' = [result EXCEPT !.complete = phase = "Response"]
      /\ armed' = armed /\ phase' = phase /\ todo' = todo /\ context' = context /\ wire' = wire
  BY DEF ReadCrc
<1>2. /\ Name' = Name /\ Accepted' = Accepted /\ Modifier' = Modifier
      /\ IsPosted' = IsPosted /\ Wrote' = Wrote /\ WireOK'
      /\ \A p \in Phase : /\ Packet(p)' = Packet(p)
                          /\ \A n : Drawn(p, n)' = Drawn(p, n)
                          /\ PhaseBytes(p)' = PhaseBytes(p)
  BY <1>1, SameWire DEF IInv
<1>3. Seen /\ armed /\ ~context.stopped /\ ~result.truncated /\ ~result.complete
  BY <1>1, WalkingSeen DEF IInv, Walking, Control
<1>4. PICK q \in Phase : q = phase
  BY DEF IInv, TypeOK
<1>5. /\ tally' \in [Phase -> [read : Nat, covered : Nat, waits : 0..MaxWaits]]
      /\ tally'[q].read = tally[q].read + 1 /\ tally'[q].covered = tally[q].covered
      /\ tally'[q].waits = tally[q].waits
      /\ \A p \in Phase : p # q => tally'[p] = tally[p]
  BY <1>1, <1>4, ReadCounts DEF IInv
<1>6. /\ tally \in [Phase -> [read : Nat, covered : Nat, waits : 0..MaxWaits]]
      /\ tally[q].covered = tally[q].read - tally[q].waits
      /\ tally["Command"].waits = 0
      /\ tally[q].read = 1 + tally[q].waits + Drawn(q, Len(Packet(q)))
      /\ \A p \in Phase : Drawn(p, Len(Packet(p))) \in Nat
  <2>1. \A p \in Phase : Drawn(p, Len(Packet(p))) \in Nat
    BY <1>3, PacketForm, DrawnNext DEF DrawnAdds, IInv
  <2>2. QED
    BY <1>1, <1>4, <2>1 DEF IInv, TypeOK, Covered, Measured
<1>7. \A p \in Phase : Drawn(p, Len(Packet(p)))' = Drawn(p, Len(Packet(p)))
  BY <1>2
<1>8. /\ result' \in Result /\ ~result'.truncated /\ result'.deferFlagged = result.deferFlagged
      /\ result'.complete <=> phase = "Response"
  BY <1>1, <1>3 DEF IInv, TypeOK, Result
<1>9. TypeOK'
  BY <1>1, <1>5, <1>8 DEF TypeOK, IInv, Phase
<1>10. Control'
  BY <1>1, <1>3, <1>4, <1>8 DEF Control, IInv, Walking, Phase
<1>11. Announced'
  BY <1>1 DEF Announced, IInv, Walking
<1>12. CASE phase = "Command"
  <2>1. q = "Command" /\ pc' = "tar" /\ ~result'.complete /\ "Response" \in Phase
    BY <1>1, <1>4, <1>8, <1>12 DEF Phase
  <2>2. tally'["Command"].covered = tally'["Command"].read - tally'["Command"].waits - 1
    BY <1>5, <1>6, <2>1
  <2>3. Covered'
    BY <1>1, <1>5, <1>6, <1>12, <2>1, <2>2 DEF Covered, IInv
  <2>4. tally'["Command"].read = 1 + Drawn("Command", Len(Packet("Command")))' + 1
    BY <1>5, <1>6, <1>7, <2>1
  <2>5. Measured'
    BY <1>1, <1>12, <2>1, <2>4 DEF Measured
  <2>6. Flagged'
    BY <1>1, <1>2, <1>8, <1>12, <2>1 DEF Flagged, IInv
  <2>7. Contracted'
    BY <1>1, <1>2, <2>1 DEF Contracted, IInv
  <2>8. CrcCoverage' /\ FrameLength' /\ Stopped'
    BY <2>1 DEF CrcCoverage, FrameLength, Stopped
  <2>9. QED
    BY <1>2, <1>9, <1>10, <1>11, <2>3, <2>5, <2>6, <2>7, <2>8 DEF IInv
<1>13. CASE phase = "Response"
  <2>1. q = "Response" /\ pc' = "record" /\ result'.complete /\ "Command" \in Phase
    BY <1>1, <1>4, <1>8, <1>13 DEF Phase
  <2>2. /\ tally'["Command"] = tally["Command"]
        /\ tally["Command"].covered = tally["Command"].read - tally["Command"].waits - 1
        /\ tally["Command"].read = 1 + Drawn("Command", Len(Packet("Command"))) + 1
    BY <1>5, <1>13, <2>1 DEF IInv, Covered, Measured
  <2>3. /\ tally'["Response"].covered = tally'["Response"].read - tally'["Response"].waits - 1
        /\ tally'["Response"].read
               = tally'["Response"].waits + 1 + Drawn("Response", Len(Packet("Response"))) + 1
    <3>1. /\ tally["Response"].read \in Nat /\ tally["Response"].waits \in Nat
          /\ Drawn("Response", Len(Packet("Response"))) \in Nat
      <4>1. tally["Response"].read \in Nat /\ tally["Response"].waits \in 0..MaxWaits
        BY <1>6, <2>1
      <4>2. QED
        BY <1>6, <2>1, <4>1, NumberInRange, BoundsAssumption
    <3>2. QED
      BY <1>5, <1>6, <2>1, <3>1, SMTT(30)
  <2>4. Covered'
    BY <1>1, <1>6, <1>13, <2>1, <2>2 DEF Covered
  <2>5. CrcCoverage'
    BY <2>2, <2>3 DEF CrcCoverage, Phase
  <2>6. Measured'
    BY <1>1, <1>7, <1>13, <2>1, <2>2 DEF Measured
  <2>7. FrameLength'
    <3>1. /\ PhaseBytes("Command")' = Drawn("Command", Len(Packet("Command")))
          /\ Accepted \/ Name \notin {"GET_VWIRE", "GET_CONFIGURATION"} =>
                 PhaseBytes("Response")' = Drawn("Response", Len(Packet("Response")))
      BY <1>2, <1>3, FiguresArePackets DEF Phase
    <3>2. QED
      BY <1>2, <2>2, <2>3, <3>1 DEF FrameLength
  <2>8. Flagged'
    BY <1>1, <1>2, <1>8, <1>13, <2>1 DEF Flagged, IInv
  <2>9. Contracted'
    BY <1>1, <1>2, <1>3, <1>8, <2>1 DEF Contracted, IInv, Seen
  <2>10. Stopped'
    BY <2>1 DEF Stopped
  <2>11. QED
    BY <1>2, <1>9, <1>10, <1>11, <2>4, <2>5, <2>6, <2>7, <2>8, <2>9, <2>10 DEF IInv
<1>14. QED
  BY <1>12, <1>13 DEF IInv, TypeOK, Phase

(* The bus turned around: the response has not begun. *)
LEMMA TurnAroundKeeps == ASSUME IInv, TurnAround PROVE IInv'
<1>1. /\ pc = "tar" /\ armed /\ pc' = "response" /\ phase' = "Response"
      /\ armed' = armed /\ todo' = todo /\ context' = context /\ tally' = tally
      /\ result' = result /\ wire' = wire
  BY DEF TurnAround
<1>2. /\ Name' = Name /\ Accepted' = Accepted /\ Modifier' = Modifier
      /\ IsPosted' = IsPosted /\ Wrote' = Wrote /\ WireOK'
      /\ Drawn("Command", Len(Packet("Command")))' = Drawn("Command", Len(Packet("Command")))
  BY <1>1, SameWire DEF IInv, Phase
<1>3. phase = "Command" /\ wire.response = None
  BY <1>1 DEF Control, IInv
<1>4. TypeOK'
  BY <1>1 DEF TypeOK, IInv, Phase
<1>5. Control'
  BY <1>1, <1>3 DEF Control, IInv, Walking
<1>6. Announced'
  BY <1>1, <1>3 DEF Announced, IInv, Walking
<1>7. Covered'
  BY <1>1, <1>3 DEF Covered, IInv
<1>8. Measured'
  BY <1>1, <1>2 DEF Measured, IInv
<1>9. Flagged'
  BY <1>1, <1>2 DEF Flagged, IInv
<1>10. Contracted'
  BY <1>1, <1>2 DEF Contracted, IInv
<1>11. CrcCoverage' /\ FrameLength' /\ Stopped'
  BY <1>1 DEF CrcCoverage, FrameLength, Stopped, Control, IInv
<1>12. QED
  BY <1>2, <1>4, <1>5, <1>6, <1>7, <1>8, <1>9, <1>10, <1>11 DEF IInv

(* A change of the register is one the session knows. *)
LEMMA SessionUpdates ==
    ASSUME context \in PacketContext
    PROVE  SessionUpdateOf(context) \in SessionUpdate
<1>1. context.write \in Configs \cup {None} /\ Configs \subseteq GeneralConfig
  BY ConfigsAssumption DEF PacketContext
<1>2. GeneralConfigResetState \in GeneralConfig
  BY DEF GeneralConfig, GeneralConfigResetState
<1>3. /\ NoUpdate \in SessionUpdate /\ UncertainUpdate \in SessionUpdate
      /\ ResetUpdate \in SessionUpdate
      /\ \A c \in GeneralConfig : WrittenUpdate(c) \in SessionUpdate
  BY <1>2 DEF NoUpdate, UncertainUpdate, ResetUpdate, WrittenUpdate, SessionUpdate, Change
<1>4. QED
  BY <1>1, <1>3 DEF SessionUpdateOf

(* The way out: the verdict is drawn from the context, and nothing moves.   *)
LEMMA RecordSessionUpdateKeeps == ASSUME IInv, RecordSessionUpdate PROVE IInv'
<1>1. /\ pc = "record" /\ pc' = "idle"
      /\ result' = [result EXCEPT !.update = SessionUpdateOf(context)]
      /\ armed' = armed /\ phase' = phase /\ todo' = todo /\ context' = context
      /\ tally' = tally /\ wire' = wire
  BY DEF RecordSessionUpdate
<1>2. /\ Name' = Name /\ Accepted' = Accepted
      /\ IsPosted' = IsPosted /\ Reason' = Reason /\ WireOK'
      /\ \A p \in Phase : PhaseBytes(p)' = PhaseBytes(p)
      /\ Drawn("Command", Len(Packet("Command")))' = Drawn("Command", Len(Packet("Command")))
  BY <1>1, SameWire DEF IInv, Phase
<1>3. result' \in Result /\ result'.complete = result.complete
  <2>1. SessionUpdateOf(context) \in SessionUpdate
    BY SessionUpdates DEF IInv, TypeOK
  <2>2. QED
    BY <1>1, <2>1 DEF IInv, TypeOK, Result
<1>4. TypeOK'
  BY <1>1, <1>3 DEF TypeOK, IInv
<1>5. Control'
  BY <1>1 DEF Control, IInv, Walking
<1>6. Announced' /\ Contracted'
  BY <1>1 DEF Announced, Contracted, Walking
<1>7. Covered'
  BY <1>1 DEF Covered, IInv
<1>8. Measured'
  BY <1>1, <1>2 DEF Measured, IInv
<1>9. Flagged'
  BY <1>1, <1>2 DEF Flagged, IInv
<1>10. CrcCoverage'
  BY <1>1, <1>3 DEF CrcCoverage, IInv
<1>11. FrameLength'
  BY <1>1, <1>2, <1>3 DEF FrameLength, IInv, Phase
<1>12. Stopped'
  BY <1>1, <1>2, <1>3 DEF Stopped, IInv
<1>13. QED
  BY <1>2, <1>4, <1>5, <1>6, <1>7, <1>8, <1>9, <1>10, <1>11, <1>12 DEF IInv

(* The chip select deasserted under a read: truncated, wherever it is.      *)
LEMMA RunOutKeeps == ASSUME IInv, RunOut PROVE IInv'
<1>1. /\ pc \in {"opcode", "elements", "crc", "tar", "response"} /\ pc' = "record" /\ ~armed'
      /\ armed' \in BOOLEAN
      /\ result' = [result EXCEPT !.truncated = ~context.stopped]
      /\ phase' = phase /\ todo' = todo /\ context' = context /\ tally' = tally /\ wire' = wire
  BY DEF RunOut, Reading
<1>2. /\ Name' = Name /\ Accepted' = Accepted
      /\ IsPosted' = IsPosted /\ Wrote' = Wrote /\ WireOK'
      /\ Drawn("Command", Len(Packet("Command")))' = Drawn("Command", Len(Packet("Command")))
  BY <1>1, SameWire DEF IInv, Phase
<1>3. ~context.stopped /\ ~result.complete /\ wire.opcode # 255
  <2>1. ~context.stopped /\ ~result.complete
    BY <1>1 DEF Control, IInv
  <2>2. pc = "opcode" => wire.opcode = None
    BY DEF Control, IInv, NoWire
  <2>3. None # 255
    BY ByteIsSeen DEF Byte
  <2>4. QED
    BY <1>1, <2>1, <2>2, <2>3 DEF Control, IInv, Walking
<1>4. /\ result' \in Result /\ result'.truncated /\ ~result'.complete
      /\ result'.deferFlagged = result.deferFlagged
  BY <1>1, <1>3 DEF IInv, TypeOK, Result
<1>5. TypeOK'
  BY <1>1, <1>4 DEF TypeOK, IInv
<1>6. Control'
  BY <1>1 DEF Control, IInv, Walking
<1>7. Announced'
  BY <1>1 DEF Announced, Walking
<1>8. Covered'
  BY <1>1 DEF Covered, IInv
<1>9. Measured'
  BY <1>1, <1>2 DEF Measured, IInv
<1>10. Flagged'
  BY <1>1, <1>2, <1>4 DEF Flagged, IInv
<1>11. Contracted'
  BY <1>1, <1>2, <1>3, <1>4 DEF Contracted, IInv
<1>12. CrcCoverage' /\ FrameLength' /\ Stopped'
  BY <1>1, <1>4 DEF CrcCoverage, FrameLength, Stopped
<1>13. QED
  BY <1>2, <1>5, <1>6, <1>7, <1>8, <1>9, <1>10, <1>11, <1>12 DEF IInv

-----------------------------------------------------------------------------
(* The opcode. *)

(* A transaction whose opcode has been read, and nothing else. *)
LEMMA OpcodeRead ==
    ASSUME IInv, NEW byte \in Byte, ReadOpcode(byte), pc' \in {"record", "reset", "elements"}
    PROVE  /\ pc = "opcode" /\ armed /\ armed' /\ phase = "Command" /\ phase' = "Command"
           /\ context = NoContext /\ result' = result
           /\ result' \in Result /\ ~result'.truncated /\ ~result'.complete
           /\ ~result'.deferFlagged
           /\ tally' \in [Phase -> [read : Nat, covered : Nat, waits : 0..MaxWaits]]
           /\ tally'["Command"] = [read |-> 1, covered |-> 1, waits |-> 0]
           /\ tally'["Response"] = [read |-> 0, covered |-> 0, waits |-> 0]
           /\ WireOK' /\ wire'.opcode = byte /\ wire'.address = None /\ wire'.write = None
           /\ wire'.response = None /\ ~Accepted' /\ Wrote' = None
           /\ \A p \in Phase : wire'.header[p].byte = None
           /\ CrcCoverage' /\ FrameLength' /\ Covered'
           /\ Name' = LookupOpcode(byte).name
           /\ byte # None
<1>1. /\ pc = "opcode" /\ Read(1) /\ wire' = [wire EXCEPT !.opcode = byte]
      /\ armed' = armed /\ phase' = phase /\ result' = result
  BY DEF ReadOpcode
<1>2. /\ armed /\ phase = "Command" /\ context = NoContext /\ wire = NoWire /\ tally = NoTally
      /\ ~result.truncated /\ ~result.complete
  BY <1>1 DEF IInv, Control
<1>3. WireOK' /\ wire'.opcode = byte /\ wire'.address = None /\ wire'.write = None
      /\ wire'.response = None /\ \A p \in Phase : wire'.header[p].byte = None
  BY <1>1, <1>2 DEF WireOK, NoWire, NoHeader
<1>4. ~Accepted' /\ Wrote' = None /\ Name' = LookupOpcode(byte).name
  BY <1>3 DEF Accepted, Wrote, Name
<1>5. result \in Result /\ ~result.deferFlagged
  BY <1>1, <1>2 DEF IInv, TypeOK, Flagged, NoWire
<1>6. /\ tally' \in [Phase -> [read : Nat, covered : Nat, waits : 0..MaxWaits]]
      /\ tally'["Command"] = [read |-> 1, covered |-> 1, waits |-> 0]
      /\ tally'["Response"] = [read |-> 0, covered |-> 0, waits |-> 0]
  <2>1. tally["Command"] = [read |-> 0, covered |-> 0, waits |-> 0]
        /\ tally["Response"] = [read |-> 0, covered |-> 0, waits |-> 0]
    BY <1>2 DEF NoTally, Phase
  <2>2. /\ tally' \in [Phase -> [read : Nat, covered : Nat, waits : 0..MaxWaits]]
        /\ tally'["Command"] = [read |-> tally["Command"].read + 1,
                                covered |-> tally["Command"].covered + 1,
                                waits |-> tally["Command"].waits]
        /\ tally'["Response"] = tally["Response"]
    BY <1>1, <1>2, ReadCounts DEF IInv, Phase
  <2>3. QED
    BY <2>1, <2>2
<1>7. Covered'
  <2>1. tally'["Command"].covered = tally'["Command"].read - tally'["Command"].waits
    BY <1>6
  <2>2. QED
    BY <1>1, <1>2, <1>6, <2>1 DEF Covered
<1>8. CrcCoverage' /\ FrameLength'
  BY <1>1, <1>2 DEF CrcCoverage, FrameLength
<1>9. QED
  BY <1>1, <1>2, <1>3, <1>4, <1>5, <1>6, <1>7, <1>8, ByteIsSeen

(* An opcode that is nobody's ends the decode there. *)
LEMMA UndefinedOpcodeKeeps ==
    ASSUME IInv, NEW byte \in OpcodeBytes, UndefinedOpcode(byte)
    PROVE  IInv'
<1>1. /\ ReadOpcode(byte) /\ ~KnownOpcode(byte) /\ pc' = "record"
      /\ todo' = todo /\ context' = context /\ byte \in Byte
  BY BytesAssumption DEF UndefinedOpcode
<1>2. byte # 255
  BY <1>1, KnownOpcodes
<1>3. /\ TypeOK' /\ WireOK' /\ Covered' /\ CrcCoverage' /\ FrameLength'
      /\ wire'.opcode = byte /\ wire'.response = None /\ phase' = "Command" /\ armed'
  BY <1>1, OpcodeRead DEF TypeOK, IInv, Phase
<1>4. Control' /\ Announced' /\ Measured'
  BY <1>1, <1>3 DEF Control, Announced, Measured, Walking
<1>5. Flagged'
  BY <1>1, <1>3, OpcodeRead DEF Flagged
<1>6. Contracted'
  <2>1. /\ context'.address = None /\ context'.write = None /\ ~context'.accepted
        /\ ~context'.reset
    BY <1>1, OpcodeRead DEF NoContext
  <2>2. /\ wire'.address = None /\ Wrote' = None /\ ~Accepted' /\ ~result'.truncated
    BY <1>1, OpcodeRead
  <2>3. QED
    BY <1>1, <1>2, <1>3, <2>1, <2>2 DEF Contracted
<1>7. Stopped'
  BY <1>1, <1>3 DEF Stopped, Reason
<1>8. QED
  BY <1>3, <1>4, <1>5, <1>6, <1>7 DEF IInv

(* So does a short cycle whose length code is the reserved one. *)
LEMMA ReservedLengthOpcodeKeeps ==
    ASSUME IInv, NEW byte \in OpcodeBytes, ReservedLengthOpcode(byte)
    PROVE  IInv'
<1>1. /\ ReadOpcode(byte) /\ KnownOpcode(byte) /\ ReservedLength(byte) /\ pc' = "record"
      /\ todo' = todo /\ context' = [context EXCEPT !.channel = LookupOpcode(byte).channel]
      /\ byte \in Byte
  BY BytesAssumption DEF ReservedLengthOpcode
<1>2. byte \div 16 = 4 /\ byte % 4 = 2 /\ byte # 255
  <2>1. byte \div 16 = 4 /\ byte % 4 = 2
    BY <1>1, OpcodeNames, ShortLengths DEF ReservedLength
  <2>2. QED
    BY <2>1
<1>3. context' \in PacketContext
  <2>1. LookupOpcode(byte).channel \in ChannelValues
    BY <1>1, LookedUpOpcode DEF ChannelValues
  <2>2. QED
    BY <1>1, <2>1, ContextFields DEF IInv, TypeOK
<1>4. /\ TypeOK' /\ WireOK' /\ Covered' /\ CrcCoverage' /\ FrameLength'
      /\ wire'.opcode = byte /\ wire'.response = None /\ phase' = "Command" /\ armed'
  BY <1>1, <1>3, OpcodeRead DEF TypeOK, IInv, Phase
<1>5. Control' /\ Announced' /\ Measured'
  BY <1>1, <1>4 DEF Control, Announced, Measured, Walking
<1>6. Flagged'
  BY <1>1, <1>4, OpcodeRead DEF Flagged
<1>7. Contracted'
  <2>1. /\ context'.address = None /\ context'.write = None /\ ~context'.accepted
        /\ ~context'.reset
    BY <1>1, OpcodeRead DEF NoContext
  <2>2. /\ wire'.address = None /\ Wrote' = None /\ ~Accepted' /\ ~result'.truncated
    BY <1>1, OpcodeRead
  <2>3. QED
    BY <1>1, <1>2, <1>4, <2>1, <2>2 DEF Contracted
<1>8. Stopped'
  BY <1>2, <1>4 DEF Stopped, Reason
<1>9. QED
  BY <1>4, <1>5, <1>6, <1>7, <1>8 DEF IInv

(* RESET: the rest of the frame is still to be looked at. *)
LEMMA ResetOpcodeKeeps ==
    ASSUME IInv, NEW byte \in OpcodeBytes, ResetOpcode(byte)
    PROVE  IInv'
<1>1. /\ ReadOpcode(byte) /\ KnownOpcode(byte) /\ LookupOpcode(byte).name = "RESET"
      /\ pc' = "reset" /\ todo' = todo /\ context' = context /\ byte \in Byte
  BY BytesAssumption DEF ResetOpcode
<1>2. byte = 255
  BY <1>1, OpcodeNames
<1>3. /\ TypeOK' /\ WireOK' /\ Covered' /\ CrcCoverage' /\ FrameLength'
      /\ wire'.opcode = byte /\ wire'.response = None /\ phase' = "Command" /\ armed'
      /\ ~result'.truncated /\ ~result'.complete
  BY <1>1, OpcodeRead DEF TypeOK, IInv, Phase
<1>4. /\ context'.address = None /\ context'.write = None /\ ~context'.accepted
      /\ ~context'.reset /\ ~context'.stopped
  BY <1>1, OpcodeRead DEF NoContext
<1>5. Control'
  BY <1>1, <1>2, <1>3, <1>4 DEF Control, Walking
<1>6. Announced' /\ Measured'
  BY <1>1, <1>3 DEF Announced, Measured, Walking
<1>7. Flagged'
  BY <1>1, <1>3, OpcodeRead DEF Flagged
<1>8. Contracted'
  <2>1. /\ wire'.address = None /\ Wrote' = None /\ ~Accepted'
    BY <1>1, OpcodeRead
  <2>2. QED
    BY <1>1, <1>4, <2>1 DEF Contracted
<1>9. Stopped'
  BY <1>1 DEF Stopped
<1>10. QED
  BY <1>3, <1>5, <1>6, <1>7, <1>8, <1>9 DEF IInv

(* A packet of which nothing has been read is the rest of itself. *)
LEMMA WholeIsRest == ASSUME NEW f \in Seq(Element) PROVE IsRest(f, f)
<1>1. Len(f) \in Nat
  BY LenProperties
<1>2. QED
  BY <1>1 DEF IsRest

(* How the packet of a command begins. *)
LEMMA CommandHead ==
    ASSUME NEW name
    PROVE  /\ CommandElements(name) \in Seq(Element) /\ Len(CommandElements(name)) <= 3
           /\ CommandElements(name) # << >> => Head(CommandElements(name)) # "Payload"
           /\ name = "PUT_OOB" => /\ CommandElements(name) # << >>
                                  /\ Head(CommandElements(name)) = "CycleHeader"
<1>1. CommandElements(name) \in CommandForms
  BY DEF CommandElements, CommandForms
<1>2. CommandElements(name) \in Seq(Element) /\ Len(CommandElements(name)) <= 3
  BY <1>1, FormsAreSequences
<1>3. CommandElements(name) # << >> => Head(CommandElements(name)) # "Payload"
  BY DEF CommandElements
<1>4. name = "PUT_OOB" => CommandElements(name) = <<"CycleHeader", "Payload">>
  BY DEF CommandElements
<1>5. QED
  BY <1>2, <1>3, <1>4

(* Any other command: its packet is still to be read, whole. *)
LEMMA CommandOpcodeKeeps ==
    ASSUME IInv, NEW byte \in OpcodeBytes, CommandOpcode(byte)
    PROVE  IInv'
<1> DEFINE o == LookupOpcode(byte)
<1>1. /\ ReadOpcode(byte) /\ KnownOpcode(byte) /\ ~ReservedLength(byte) /\ o.name # "RESET"
      /\ pc' = "elements" /\ todo' = CommandElements(o.name)
      /\ context' = [context EXCEPT !.channel = o.channel,
                                    !.shortLength = IF o.short THEN ShortRequestLength(byte) ELSE 0]
      /\ byte \in Byte
  BY BytesAssumption DEF CommandOpcode
<1>2. byte # 255 /\ (o.short => ShortRequestLength(byte) = (byte % 4) + 1)
  BY <1>1, OpcodeNames, ShortLengths DEF ReservedLength
<1>3. /\ context' \in PacketContext
      /\ context'.address = None /\ context'.write = None /\ ~context'.accepted
      /\ ~context'.reset /\ ~context'.stopped /\ ~context'.posted
      /\ context'.channel = o.channel
      /\ o.short => context'.shortLength = (byte % 4) + 1
  <2>1. o.channel \in ChannelValues
    BY <1>1, LookedUpOpcode DEF ChannelValues
  <2>2. (IF o.short THEN ShortRequestLength(byte) ELSE 0) \in LengthValues
    BY <1>1, ShortLengths DEF LengthValues
  <2> HIDE DEF o
  <2>3. context' \in PacketContext
    BY <1>1, <2>1, <2>2, ContextFields DEF IInv, TypeOK
  <2>4. context = NoContext /\ context \in PacketContext
    BY <1>1, OpcodeRead DEF IInv, TypeOK
  <2>5. context'.channel = o.channel /\ (o.short => context'.shortLength = (byte % 4) + 1)
    BY <1>1, <1>2, <2>4 DEF PacketContext
  <2>6. /\ context'.address = None /\ context'.write = None /\ ~context'.accepted
        /\ ~context'.reset /\ ~context'.stopped /\ ~context'.posted
    BY <1>1, <2>4 DEF NoContext
  <2>7. QED
    BY <2>3, <2>5, <2>6
<1> HIDE DEF o
<1>4. /\ todo' \in Seq(Element) /\ Len(todo') <= 3
      /\ todo' # << >> => Head(todo') # "Payload"
      /\ o.name = "PUT_OOB" => todo' # << >> /\ Head(todo') = "CycleHeader"
  BY <1>1, CommandHead
<1>5. /\ WireOK' /\ Covered' /\ CrcCoverage' /\ FrameLength'
      /\ wire'.opcode = byte /\ wire'.response = None /\ phase' = "Command" /\ armed'
      /\ byte # None /\ ~result'.truncated /\ ~result'.complete
      /\ Name' = o.name
  BY <1>1, OpcodeRead DEF o
<1>6. TypeOK'
  BY <1>1, <1>3, <1>4, OpcodeRead DEF TypeOK, Phase
<1>7. Packet("Command")' = todo'
  BY <1>1, <1>5 DEF Packet
<1>8. Control'
  <2>1. IsRest(todo', Packet(phase)')
    BY <1>4, <1>5, <1>7, WholeIsRest
  <2>2. QED
    BY <1>1, <1>2, <1>3, <1>5, <2>1 DEF Control, Walking
<1>9. Announced'
  BY <1>1, <1>3, <1>4, <1>5 DEF Announced, Walking, At, o
<1>10. Measured'
  <2>1. Len(todo') \in Nat
    BY <1>4, LenProperties
  <2>2. Place' = 1
    BY <1>5, <1>7, <2>1 DEF Place
  <2>3. Drawn(phase, Place - 1)' = 0
    BY <2>2 DEF Drawn
  <2>4. tally'[phase'].read = 1 /\ tally'[phase'].waits = 0
    BY <1>1, <1>5, OpcodeRead
  <2>5. QED
    BY <1>1, <1>5, <2>3, <2>4 DEF Measured
<1>11. Flagged'
  <2>1. wire'.header["Command"].byte = None /\ ~result'.deferFlagged
    BY <1>1, OpcodeRead DEF Phase
  <2>2. None \notin {1, 3} \cup 16..31
    BY ByteIsSeen DEF Byte
  <2>3. ~At("CycleHeader")' => ~IsPosted'
    BY <1>4, <1>5, <2>1, <2>2 DEF At, IsPosted
  <2>4. QED
    BY <1>1, <1>3, <1>5, <2>1, <2>3 DEF Flagged
<1>12. Contracted'
  <2>1. /\ wire'.address = None /\ wire'.write = None /\ Wrote' = None /\ ~Accepted'
    BY <1>1, OpcodeRead
  <2>2. QED
    BY <1>1, <1>3, <2>1 DEF Contracted
<1>13. Stopped'
  BY <1>1 DEF Stopped
<1>14. QED
  BY <1>5, <1>6, <1>8, <1>9, <1>10, <1>11, <1>12, <1>13 DEF IInv

(* The rest of a reset's frame is looked at, and nothing more is read.      *)
LEMMA ReadResetRemainderKeeps ==
    ASSUME IInv, NEW mode \in IoMode, NEW clocks \in Nat, NEW high \in BOOLEAN,
           ReadResetRemainder(mode, clocks, high)
    PROVE  IInv'
<1> DEFINE bytes == clocks \div ClocksPerByte(mode)
           flagged == bytes * ClocksPerByte(mode) # ResetClocks \/ ~high
<1>1. /\ pc = "reset" /\ ReadUncovered(bytes - 1)
      /\ wire' = [wire EXCEPT !.clocks = clocks, !.high = high]
      /\ context' = [context EXCEPT !.reset = TRUE]
      /\ result' = [result EXCEPT !.patternFlagged = flagged]
      /\ armed' = FALSE /\ pc' = "record" /\ phase' = phase /\ todo' = todo
      /\ clocks >= ClocksPerByte(mode)
  BY DEF ReadResetRemainder
<1>2. bytes - 1 \in Nat
  <2>1. ClocksPerByte(mode) \in {2, 4, 8}
    BY DEF IoMode, ClocksPerByte, BitsPerClock
  <2>2. PICK c \in {2, 4, 8} : c = ClocksPerByte(mode)
    BY <2>1
  <2>3. clocks \div c \in Nat \ {0}
    BY <1>1, <2>2
  <2>4. QED
    BY <2>2, <2>3
<1> HIDE DEF bytes
<1>3. /\ phase = "Command" /\ wire.opcode = 255 /\ wire.response = None
      /\ ~result.truncated /\ ~result.complete
  BY <1>1 DEF IInv, Control
<1>4. /\ WireOK' /\ wire'.opcode = wire.opcode /\ wire'.address = wire.address
      /\ wire'.write = wire.write /\ wire'.response = wire.response
  BY <1>1 DEF IInv, WireOK
<1>5. /\ tally' \in [Phase -> [read : Nat, covered : Nat, waits : 0..MaxWaits]]
      /\ tally'["Command"].waits = tally["Command"].waits
      /\ tally'["Response"] = tally["Response"]
  BY <1>1, <1>2, <1>3, ReadCounts DEF IInv, Phase
<1>6. context' \in PacketContext
  BY <1>1, ContextFields DEF IInv, TypeOK
<1>7. /\ context'.address = context.address /\ context'.write = context.write
      /\ context'.accepted = context.accepted /\ context'.reset
      /\ context'.posted = context.posted
  BY <1>1 DEF IInv, TypeOK, PacketContext
<1>8. /\ result' \in Result /\ ~result'.truncated /\ ~result'.complete
      /\ result'.deferFlagged = result.deferFlagged
  <2>1. flagged \in BOOLEAN
    OBVIOUS
  <2> HIDE DEF flagged
  <2>2. QED
    BY <1>1, <1>3, <2>1 DEF IInv, TypeOK, Result
<1>9. TypeOK'
  BY <1>1, <1>5, <1>6, <1>8 DEF IInv, TypeOK
<1>10. Control'
  BY <1>1, <1>3, <1>4 DEF Control, Walking
<1>11. Announced' /\ Measured'
  BY <1>1, <1>3 DEF Announced, Measured, Walking
<1>12. Covered'
  BY <1>1, <1>3, <1>5 DEF IInv, Covered
<1>13. Flagged'
  BY <1>1, <1>3, <1>4, <1>8 DEF IInv, Flagged
<1>14. Contracted'
  <2>1. Wrote' = Wrote /\ Accepted' = Accepted
    BY <1>4 DEF Wrote, Accepted
  <2>2. QED
    BY <1>1, <1>3, <1>4, <1>7, <1>8, <2>1 DEF IInv, Contracted
<1>15. CrcCoverage' /\ FrameLength' /\ Stopped'
  BY <1>1, <1>8 DEF CrcCoverage, FrameLength, Stopped
<1>16. QED
  BY <1>4, <1>9, <1>10, <1>11, <1>12, <1>13, <1>14, <1>15 DEF IInv

-----------------------------------------------------------------------------
(* The response. *)

(* The byte is on the wire, for what it is or for what it may be. *)
Responds(byte) ==
    \/ wire' = [wire EXCEPT !.response = byte]
    \/ wire' = [wire EXCEPT !.response = byte, !.undecided = @ \/ Undecided(byte)]

(* What a response byte leaves as it was, and what it finds. *)
LEMMA ResponseRead ==
    ASSUME IInv, pc = "response", NEW byte \in Byte, Responds(byte)
    PROVE  /\ Seen /\ Seen' /\ armed /\ phase = "Response" /\ Walking
           /\ KnownOpcode(wire.opcode) /\ ~ReservedLength(wire.opcode)
           /\ wire.opcode # 255 /\ wire.opcode # None
           /\ ~context.stopped /\ ~result.truncated /\ ~result.complete /\ ~result.deferFlagged
           /\ WireOK' /\ wire'.opcode = wire.opcode /\ wire'.address = wire.address
           /\ wire'.write = wire.write /\ wire'.response = byte /\ byte # None
           /\ Name' = Name /\ Wrote' = Wrote /\ IsPosted' = IsPosted
           /\ ~Accepted /\ (Accepted' <=> LookupResponse(byte) = "ACCEPT")
           /\ Drawn("Command", Len(Packet("Command")))' = Drawn("Command", Len(Packet("Command")))
<1>1. /\ armed /\ phase = "Response" /\ Walking
      /\ KnownOpcode(wire.opcode) /\ ~ReservedLength(wire.opcode)
      /\ wire.opcode # 255 /\ wire.opcode # None
      /\ ~context.stopped /\ ~result.truncated /\ ~result.complete
      /\ wire.response = None \/ IsWaitState(wire.response)
  BY DEF IInv, Control, Walking
<1>2. Seen /\ byte # None
  BY <1>1, WalkingSeen, ByteIsSeen DEF IInv
<1>3. /\ WireOK' /\ wire'.opcode = wire.opcode /\ wire'.address = wire.address
      /\ wire'.write = wire.write /\ wire'.response = byte /\ wire'.header = wire.header
      /\ wire'.groups = wire.groups
  BY <1>2 DEF IInv, WireOK, Responds
<1>4. Name' = Name /\ Wrote' = Wrote
  BY <1>3 DEF Name, Wrote
<1>5. /\ HeaderChannel("Command")' = HeaderChannel("Command")
      /\ Packet("Command")' = Packet("Command")
      /\ \A n : Drawn("Command", n)' = Drawn("Command", n)
  BY <1>3, FiguresKept DEF Phase
<1>6. IsPosted' = IsPosted
  BY <1>3, <1>4, <1>5 DEF IsPosted
<1>7. wire.response # None => LookupResponse(wire.response) = "WAIT_STATE"
  BY <1>1, <1>2, ResponseKinds DEF Seen
<1>8. ~Accepted /\ ~result.deferFlagged
  BY <1>7 DEF Accepted, IInv, Flagged
<1>9. Accepted' <=> LookupResponse(byte) = "ACCEPT"
  BY <1>2, <1>3 DEF Accepted
<1>10. Seen'
  BY <1>2, <1>3 DEF Seen
<1>11. QED
  BY <1>1, <1>2, <1>3, <1>4, <1>5, <1>6, <1>8, <1>9, <1>10

(* A wait state is counted as read and as waited, not as covered. *)
LEMMA WaitStateKeeps ==
    ASSUME IInv, NEW byte \in ResponseBytes, WaitState(byte)
    PROVE  IInv'
<1>1. /\ pc = "response" /\ IsWaitState(byte) /\ tally[phase].waits < MaxWaits
      /\ tally' = [tally EXCEPT ![phase].read = @ + 1, ![phase].waits = @ + 1]
      /\ wire' = [wire EXCEPT !.response = byte, !.undecided = @ \/ Undecided(byte)]
      /\ pc' = pc /\ armed' = armed /\ phase' = phase /\ todo' = todo
      /\ context' = context /\ result' = result /\ byte \in Byte
      /\ Responds(byte)
  BY BytesAssumption DEF WaitState, Responds
<1>2. /\ armed /\ phase = "Response" /\ Seen /\ Walking
      /\ KnownOpcode(wire.opcode) /\ ~ReservedLength(wire.opcode)
      /\ wire.opcode # 255 /\ wire.opcode # None
      /\ ~context.stopped /\ ~result.truncated /\ ~result.complete /\ ~result.deferFlagged
      /\ WireOK' /\ wire'.opcode = wire.opcode /\ wire'.address = wire.address
      /\ wire'.write = wire.write /\ wire'.response = byte /\ byte # None
      /\ Name' = Name /\ Wrote' = Wrote /\ IsPosted' = IsPosted
      /\ ~Accepted /\ (Accepted' <=> LookupResponse(byte) = "ACCEPT")
      /\ Drawn("Command", Len(Packet("Command")))' = Drawn("Command", Len(Packet("Command")))
  BY <1>1, ResponseRead
<1>3. LookupResponse(byte) = "WAIT_STATE"
  BY <1>1, ResponseKinds
<1>4. /\ tally' \in [Phase -> [read : Nat, covered : Nat, waits : 0..MaxWaits]]
      /\ tally'["Response"].covered = 0
      /\ tally'["Response"].read = tally'["Response"].waits
      /\ tally'["Command"] = tally["Command"]
  <2>1. tally \in [Phase -> [read : Nat, covered : Nat, waits : 0..MaxWaits]]
        /\ "Response" \in Phase /\ "Command" \in Phase
    BY DEF IInv, TypeOK, Phase
  <2>2. tally["Response"].covered = 0 /\ tally["Response"].read = tally["Response"].waits
    BY <1>1 DEF IInv, Covered
  <2>3. PICK w \in 0..MaxWaits : w = tally["Response"].waits
    BY <2>1
  <2>4. w \in Nat /\ w + 1 \in 0..MaxWaits
    BY <1>1, <1>2, <2>3, BoundsAssumption
  <2>5. tally'["Response"] = [read |-> w + 1, covered |-> 0, waits |-> w + 1]
    BY <1>1, <1>2, <2>1, <2>2, <2>3
  <2>6. tally'["Command"] = tally["Command"]
    BY <1>1, <1>2, <2>1
  <2>7. DOMAIN tally' = Phase /\ tally' = [p \in DOMAIN tally' |-> tally'[p]]
    BY <1>1, <2>1
  <2>8. \A p \in Phase : tally'[p] \in [read : Nat, covered : Nat, waits : 0..MaxWaits]
    BY <2>1, <2>4, <2>5, <2>6 DEF Phase
  <2>9. QED
    BY <2>5, <2>6, <2>7, <2>8
<1>5. TypeOK'
  BY <1>1, <1>4 DEF IInv, TypeOK
<1>6. Control'
  BY <1>1, <1>2 DEF Control, Walking
<1>7. Announced'
  BY <1>1, <1>2 DEF IInv, Announced, Walking
<1>8. Covered'
  BY <1>1, <1>2, <1>4, ZenonT(60) DEF IInv, Covered
<1>9. Measured'
  BY <1>1, <1>2, <1>4 DEF IInv, Measured
<1>10. Flagged'
  BY <1>1, <1>2, <1>3 DEF IInv, Flagged
<1>11. Contracted'
  BY <1>1, <1>2, <1>3 DEF IInv, Contracted
<1>12. CrcCoverage' /\ FrameLength' /\ Stopped'
  BY <1>1, <1>2 DEF CrcCoverage, FrameLength, Stopped
<1>13. QED
  BY <1>2, <1>5, <1>6, <1>7, <1>8, <1>9, <1>10, <1>11, <1>12 DEF IInv

(* A response that is nobody's ends the decode there. *)
LEMMA UndefinedResponseKeeps ==
    ASSUME IInv, NEW byte \in ResponseBytes, UndefinedResponse(byte)
    PROVE  IInv'
<1>1. /\ pc = "response" /\ LookupResponse(byte) = "UNDEFINED" /\ ReadUncovered(1)
      /\ wire' = [wire EXCEPT !.response = byte] /\ pc' = "record"
      /\ armed' = armed /\ phase' = phase /\ todo' = todo
      /\ context' = context /\ result' = result /\ byte \in Byte
      /\ Responds(byte)
  BY BytesAssumption DEF UndefinedResponse, ReadResponse, Responds
<1>2. /\ armed /\ phase = "Response" /\ Walking
      /\ wire.opcode # 255
      /\ ~result.truncated /\ ~result.complete /\ ~result.deferFlagged
      /\ WireOK' /\ wire'.opcode = wire.opcode /\ wire'.address = wire.address
      /\ wire'.write = wire.write /\ wire'.response = byte /\ byte # None
      /\ Wrote' = Wrote /\ IsPosted' = IsPosted
      /\ ~Accepted /\ (Accepted' <=> LookupResponse(byte) = "ACCEPT")
      /\ Drawn("Command", Len(Packet("Command")))' = Drawn("Command", Len(Packet("Command")))
  BY <1>1, ResponseRead
<1>3. /\ tally' \in [Phase -> [read : Nat, covered : Nat, waits : 0..MaxWaits]]
      /\ tally'["Command"] = tally["Command"]
  BY <1>1, <1>2, ReadCounts DEF IInv, Phase
<1>4. TypeOK'
  BY <1>1, <1>3 DEF IInv, TypeOK
<1>5. Control'
  BY <1>1, <1>2 DEF Control, Walking
<1>6. Announced'
  BY <1>1, <1>2 DEF Announced, Walking
<1>7. Covered'
  BY <1>1, <1>2, <1>3 DEF IInv, Covered
<1>8. Measured'
  BY <1>1, <1>2, <1>3 DEF IInv, Measured
<1>9. Flagged'
  BY <1>1, <1>2 DEF IInv, Flagged
<1>10. Contracted'
  BY <1>1, <1>2 DEF IInv, Contracted
<1>11. CrcCoverage' /\ FrameLength'
  BY <1>1, <1>2 DEF CrcCoverage, FrameLength
<1>12. Stopped'
  BY <1>1, <1>2, ResponseKinds DEF Stopped, Reason
<1>13. QED
  BY <1>2, <1>4, <1>5, <1>6, <1>7, <1>8, <1>9, <1>10, <1>11, <1>12 DEF IInv

(* No target at all: an answer like the undefined one, told to be none.     *)
LEMMA NoResponseKeeps ==
    ASSUME IInv, NEW byte \in ResponseBytes, NoResponse(byte)
    PROVE  IInv'
<1>1. /\ pc = "response" /\ LookupResponse(byte) = "NO_RESPONSE" /\ Read(1)
      /\ wire' = [wire EXCEPT !.response = byte] /\ pc' = "record"
      /\ context' = [context EXCEPT !.accepted = FALSE]
      /\ armed' = armed /\ phase' = phase /\ todo' = todo
      /\ result' = result /\ byte \in Byte
      /\ Responds(byte)
  BY BytesAssumption DEF NoResponse, ReadResponse, Responds
<1>2. /\ armed /\ phase = "Response" /\ Walking
      /\ wire.opcode # 255
      /\ ~result.truncated /\ ~result.complete /\ ~result.deferFlagged
      /\ WireOK' /\ wire'.opcode = wire.opcode /\ wire'.address = wire.address
      /\ wire'.write = wire.write /\ wire'.response = byte /\ byte # None
      /\ Wrote' = Wrote /\ IsPosted' = IsPosted
      /\ ~Accepted /\ (Accepted' <=> LookupResponse(byte) = "ACCEPT")
      /\ Drawn("Command", Len(Packet("Command")))' = Drawn("Command", Len(Packet("Command")))
  BY <1>1, ResponseRead
<1>3. /\ tally' \in [Phase -> [read : Nat, covered : Nat, waits : 0..MaxWaits]]
      /\ tally'["Command"] = tally["Command"]
  BY <1>1, <1>2, ReadCounts DEF IInv, Phase
<1>4. context' \in PacketContext
  BY <1>1, ContextFields DEF IInv, TypeOK
<1>5. /\ context'.address = context.address /\ context'.write = context.write
      /\ ~context'.accepted /\ context'.reset = context.reset
      /\ context'.posted = context.posted
  BY <1>1 DEF IInv, TypeOK, PacketContext
<1>6. TypeOK'
  BY <1>1, <1>3, <1>4 DEF IInv, TypeOK
<1>7. Control'
  BY <1>1, <1>2 DEF Control, Walking
<1>8. Announced'
  BY <1>1, <1>2 DEF Announced, Walking
<1>9. Covered'
  BY <1>1, <1>2, <1>3 DEF IInv, Covered
<1>10. Measured'
  BY <1>1, <1>2, <1>3 DEF IInv, Measured
<1>11. Flagged'
  BY <1>1, <1>2, <1>5 DEF IInv, Flagged
<1>12. Contracted'
  BY <1>1, <1>2, <1>5 DEF IInv, Contracted
<1>13. CrcCoverage' /\ FrameLength'
  BY <1>1, <1>2 DEF CrcCoverage, FrameLength
<1>14. Stopped'
  BY <1>1, <1>2, ResponseKinds DEF Stopped, Reason
<1>15. QED
  BY <1>2, <1>6, <1>7, <1>8, <1>9, <1>10, <1>11, <1>12, <1>13, <1>14 DEF IInv

(* The packet of an answer, in the form a later state can be told of.       *)
LEMMA AnswerForm == Seen => Packet("Response") \in AnswerForms
BY AnswerPacket

(* An answer: its packet is still to be read, whole. *)
LEMMA RespondKeeps ==
    ASSUME IInv, NEW byte \in ResponseBytes, Respond(byte)
    PROVE  IInv'
<1> DEFINE accepted == LookupResponse(byte) = "ACCEPT"
           modifier == IF Name = "GET_STATUS" /\ accepted THEN ResponseModifier(byte) ELSE 0
           flagged == LookupResponse(byte) = "DEFER" /\ context.posted
<1>1. /\ pc = "response" /\ ~IsWaitState(byte) /\ Read(1)
      /\ LookupResponse(byte) \notin {"UNDEFINED", "NO_RESPONSE"}
      /\ wire' = [wire EXCEPT !.response = byte] /\ pc' = "elements"
      /\ armed' = armed /\ phase' = phase /\ byte \in Byte
      /\ Responds(byte)
  BY BytesAssumption DEF Respond, ReadResponse, Responds
<1>2. /\ todo' = AppendedElements(modifier) \o PresentElements(ResponseElements(Name), accepted)
      /\ context' = [context EXCEPT !.accepted = accepted,
                                    !.channel = AppendedChannel(modifier, context.channel)]
      /\ result' = [result EXCEPT !.deferFlagged = flagged]
  BY DEF Respond
<1>3. /\ armed /\ phase = "Response" /\ Walking /\ Seen /\ Seen'
      /\ KnownOpcode(wire.opcode) /\ ~ReservedLength(wire.opcode)
      /\ wire.opcode # 255 /\ wire.opcode # None
      /\ ~context.stopped /\ ~result.truncated /\ ~result.complete /\ ~result.deferFlagged
      /\ WireOK' /\ wire'.opcode = wire.opcode /\ wire'.address = wire.address
      /\ wire'.write = wire.write /\ wire'.response = byte /\ byte # None
      /\ Name' = Name /\ Wrote' = Wrote /\ IsPosted' = IsPosted
      /\ ~Accepted /\ (Accepted' <=> LookupResponse(byte) = "ACCEPT")
      /\ Drawn("Command", Len(Packet("Command")))' = Drawn("Command", Len(Packet("Command")))
  BY <1>1, ResponseRead
<1>4. Accepted' = accepted
  <2>1. Accepted' \in BOOLEAN
    BY DEF Accepted
  <2>2. QED
    BY <1>3, <2>1
<1>5. Modifier' = modifier
  BY <1>3, <1>4 DEF Modifier
<1>6. Packet("Response")' = todo'
  BY <1>2, <1>3, <1>4, <1>5 DEF Packet
<1>7. todo' \in AnswerForms
  <2>1. (Seen => Packet("Response") \in AnswerForms)'
    BY AnswerForm, PTL
  <2>2. QED
    BY <1>3, <1>6, <2>1
<1>8. todo' \in Seq(Element) /\ Len(todo') <= 3 /\ Len(todo') \in Nat
  BY <1>7, FormsAreSequences, LenProperties
<1>9. todo' # << >> => Head(todo') # "Payload"
  BY <1>7 DEF AnswerForms
<1>10. context.channel = LookupOpcode(wire.opcode).channel
  BY <1>1, <1>3 DEF IInv, Announced
<1> HIDE DEF modifier
<1>11. /\ context' \in PacketContext
       /\ context'.address = context.address /\ context'.write = context.write
       /\ context'.accepted = accepted /\ context'.reset = context.reset
       /\ context'.posted = context.posted /\ context'.stopped = context.stopped
       /\ context'.shortLength = context.shortLength
       /\ context'.channel = AppendedChannel(modifier, context.channel)
  <2> DEFINE channel == AppendedChannel(modifier, context.channel)
  <2>1. {"Peripheral", "VirtualWire", "Flash"} \subseteq ChannelValues
    BY DEF ChannelValues, Opcodes, Opcode
  <2>2. channel \in ChannelValues
    BY <2>1, ContextFields DEF AppendedChannel, IInv, TypeOK
  <2>3. accepted \in BOOLEAN
    OBVIOUS
  <2> HIDE DEF channel, accepted
  <2>4. context \in PacketContext /\ context' = [context EXCEPT !.accepted = accepted,
                                                               !.channel = channel]
    BY <1>2 DEF IInv, TypeOK, channel
  <2>5. context' \in PacketContext
    BY <2>2, <2>3, <2>4, ContextFields
  <2>6. /\ context'.address = context.address /\ context'.write = context.write
        /\ context'.accepted = accepted /\ context'.reset = context.reset
        /\ context'.posted = context.posted /\ context'.stopped = context.stopped
        /\ context'.shortLength = context.shortLength
        /\ context'.channel = channel
    BY <2>4, ContextFields
  <2>7. QED
    BY <2>5, <2>6 DEF channel
<1>12. /\ result' \in Result /\ ~result'.truncated /\ ~result'.complete
       /\ result'.deferFlagged = flagged
  <2>1. flagged \in BOOLEAN
    BY DEF IInv, TypeOK, PacketContext
  <2> HIDE DEF flagged
  <2>2. QED
    BY <1>2, <1>3, <2>1 DEF IInv, TypeOK, Result
<1>13. /\ tally' \in [Phase -> [read : Nat, covered : Nat, waits : 0..MaxWaits]]
       /\ tally'["Response"].covered = 1
       /\ tally'["Response"].read = 1 + tally'["Response"].waits
       /\ tally'["Response"].waits \in Nat
       /\ tally'["Command"] = tally["Command"]
  <2>1. /\ tally' \in [Phase -> [read : Nat, covered : Nat, waits : 0..MaxWaits]]
        /\ tally'["Response"].read = tally["Response"].read + 1
        /\ tally'["Response"].covered = tally["Response"].covered + 1
        /\ tally'["Response"].waits = tally["Response"].waits
        /\ tally'["Command"] = tally["Command"]
    BY <1>1, <1>3, ReadCounts, ZenonT(60) DEF IInv, Phase
  <2>2. tally["Response"].covered = 0 /\ tally["Response"].read = tally["Response"].waits
    BY <1>1 DEF IInv, Covered
  <2>3. tally["Response"].read \in Nat
    BY DEF IInv, TypeOK, Phase
  <2>4. QED
    BY <2>1, <2>2, <2>3
<1>14. TypeOK'
  BY <1>1, <1>3, <1>8, <1>11, <1>12, <1>13 DEF TypeOK, Phase
<1>15. Control'
  <2>1. IsRest(todo', Packet(phase)')
    BY <1>1, <1>3, <1>6, <1>8, WholeIsRest
  <2>2. QED
    BY <1>1, <1>3, <1>11, <1>12, <2>1 DEF Control, Walking
<1>16. Announced'
  BY <1>1, <1>3, <1>5, <1>9, <1>10, <1>11 DEF IInv, Announced, Walking, At
<1>17. Covered'
  <2>1. tally'["Response"].covered = tally'["Response"].read - tally'["Response"].waits
    BY <1>13
  <2>2. QED
    BY <1>1, <1>3, <1>13, <2>1 DEF IInv, Covered
<1>18. Measured'
  <2>1. Place' = 1
    BY <1>1, <1>3, <1>6, <1>8 DEF Place
  <2>2. Drawn(phase, Place - 1)' = 0
    BY <2>1 DEF Drawn
  <2>3. tally'["Response"].read = 1 + tally'["Response"].waits + 0
    BY <1>13
  <2>4. QED
    BY <1>1, <1>3, <1>13, <2>2, <2>3 DEF IInv, Measured
<1>19. Flagged'
  <2>1. context.posted <=> IsPosted
    BY <1>3 DEF IInv, Flagged
  <2>2. context'.posted <=> IsPosted'
    BY <1>3, <1>11, <2>1
  <2>3. result'.deferFlagged <=> LookupResponse(byte) = "DEFER" /\ context'.posted
    BY <1>11, <1>12
  <2>4. QED
    BY <1>1, <1>3, <2>2, <2>3 DEF Flagged
<1>20. Contracted'
  BY <1>1, <1>3, <1>4, <1>11 DEF IInv, Contracted
<1>21. CrcCoverage' /\ FrameLength' /\ Stopped'
  BY <1>1, <1>12 DEF CrcCoverage, FrameLength, Stopped
<1>22. QED
  BY <1>3, <1>14, <1>15, <1>16, <1>17, <1>18, <1>19, <1>20, <1>21 DEF IInv

-----------------------------------------------------------------------------
(* The invariant. *)

(* Nothing read yet: before the first call, and as each call begins. *)
Fresh ==
    /\ pc \in {"idle", "opcode"} /\ armed \in BOOLEAN /\ (pc = "opcode" => armed)
    /\ phase = "Command" /\ todo = << >>
    /\ context = NoContext /\ tally = NoTally /\ result = NoResult /\ wire = NoWire

(* Such a state is one of the invariant's. *)
LEMMA FreshInv == Fresh => IInv
<1> SUFFICES ASSUME Fresh PROVE IInv
  OBVIOUS
<1>1. NoContext \in PacketContext
  <2>1. "ChannelIndependent" \in ChannelValues
    BY DEF ChannelValues, Opcodes, Opcode
  <2>2. /\ None \in AddressValues /\ None \in LayoutValues /\ None \in WriteValues
        /\ 0 \in LengthValues /\ 0 \in PayloadValues
    BY DEF AddressValues, LayoutValues, WriteValues, LengthValues, PayloadValues
  <2>3. QED
    BY <2>1, <2>2, ContextFields DEF NoContext
<1>2. NoTally \in [Phase -> [read : Nat, covered : Nat, waits : 0..MaxWaits]]
  <2>1. 0 \in 0..MaxWaits
    BY BoundsAssumption
  <2>2. QED
    BY <2>1 DEF NoTally
<1>3. NoResult \in Result
  <2>1. NoUpdate \in SessionUpdate
    BY DEF NoUpdate, SessionUpdate, Change, GeneralConfig, GeneralConfigResetState
  <2>2. QED
    BY <2>1 DEF NoResult, Result
<1>4. TypeOK
  <2>1. << >> \in Seq(Element) /\ Len(<< >>) <= 3
    OBVIOUS
  <2>2. QED
    BY <1>1, <1>2, <1>3, <2>1 DEF Fresh, TypeOK, Phase
<1>5. WireOK
  BY DEF Fresh, WireOK, NoWire, NoHeader
<1>6. /\ wire.opcode = None /\ wire.address = None /\ wire.write = None /\ wire.response = None
      /\ ~result.truncated /\ ~result.complete /\ ~result.deferFlagged
  BY DEF Fresh, NoWire, NoResult
<1>7. /\ context.address = None /\ context.write = None /\ ~context.accepted
      /\ ~context.reset /\ ~context.stopped
  BY DEF Fresh, NoContext
<1>8. Control /\ Announced /\ Measured
  BY <1>6, <1>7 DEF Fresh, Control, Announced, Measured, Walking
<1>9. Covered
  BY DEF Fresh, Covered, NoTally, Phase
<1>10. Flagged
  BY <1>6 DEF Fresh, Flagged
<1>11. Contracted
  BY <1>6, <1>7 DEF Fresh, Contracted, Wrote, Accepted
<1>12. CrcCoverage /\ FrameLength /\ Stopped
  BY <1>6 DEF CrcCoverage, FrameLength, Stopped
<1>13. QED
  BY <1>4, <1>5, <1>8, <1>9, <1>10, <1>11, <1>12 DEF IInv

(* The invariant holds before the first call. *)
LEMMA InitInv == Init => IInv
BY FreshInv DEF Init, Fresh

(* A call begins afresh, whatever the one before it left. *)
LEMMA BeginKeeps == ASSUME Begin PROVE IInv'
<1>1. (Fresh => IInv)'
  BY FreshInv, PTL
<1>2. Fresh'
  BY DEF Begin, Fresh
<1>3. QED
  BY <1>1, <1>2

(* The invariant and the wire, told of a state in which nothing moved. *)
LEMMA StutterKeeps == ASSUME IInv, UNCHANGED vars PROVE IInv'
<1>1. /\ pc' = pc /\ armed' = armed /\ phase' = phase /\ todo' = todo /\ context' = context
      /\ tally' = tally /\ result' = result /\ wire' = wire
  BY DEF vars
<1>2. /\ Name' = Name /\ Accepted' = Accepted /\ Modifier' = Modifier
      /\ IsPosted' = IsPosted /\ Wrote' = Wrote /\ Reason' = Reason /\ WireOK'
      /\ \A p \in Phase : /\ Packet(p)' = Packet(p)
                          /\ \A n : Drawn(p, n)' = Drawn(p, n)
                          /\ PhaseBytes(p)' = PhaseBytes(p)
                          /\ \A e : FigureBytes(p, e)' = FigureBytes(p, e)
  BY <1>1, SameWire DEF IInv
<1>3. PICK q \in Phase : q = phase
  BY DEF IInv, TypeOK
<1>4. TypeOK' /\ Covered' /\ CrcCoverage'
  BY <1>1 DEF TypeOK, Covered, CrcCoverage, IInv
<1>5. Control'
  BY <1>1, <1>2, <1>3 DEF Control, Walking, IInv
<1>6. Announced'
  BY <1>1, <1>2, <1>3 DEF Announced, Walking, At, IInv
<1>7. Measured'
  <2>1. Packet(q)' = Packet(q) /\ \A n : Drawn(q, n)' = Drawn(q, n)
    BY <1>2
  <2>2. Place' = Place
    BY <1>1, <1>3, <2>1 DEF Place
  <2>3. Drawn(phase, Place - 1)' = Drawn(phase, Place - 1)
    BY <1>1, <1>3, <2>1, <2>2
  <2>4. Drawn(phase, Len(Packet(phase)))' = Drawn(phase, Len(Packet(phase)))
    BY <1>1, <1>3, <2>1
  <2>5. Drawn("Command", Len(Packet("Command")))' = Drawn("Command", Len(Packet("Command")))
    BY <1>2 DEF Phase
  <2>6. QED
    BY <1>1, <2>3, <2>4, <2>5 DEF Measured, IInv
<1>8. FrameLength'
  BY <1>1, <1>2 DEF FrameLength, IInv, Phase
<1>9. Flagged' /\ Contracted' /\ Stopped'
  BY <1>1, <1>2 DEF Flagged, Contracted, Stopped, At, IInv
<1>10. QED
  BY <1>2, <1>4, <1>5, <1>6, <1>7, <1>8, <1>9 DEF IInv

(* Every step keeps the invariant. *)
LEMMA NextInv == IInv /\ [Next]_vars => IInv'
<1> SUFFICES ASSUME IInv, [Next]_vars PROVE IInv'
  OBVIOUS
<1>1. CASE Begin
  BY <1>1, BeginKeeps
<1>2. CASE RunOut
  BY <1>2, RunOutKeeps
<1>3. CASE OpcodeStep
  BY <1>3, UndefinedOpcodeKeeps, ReservedLengthOpcodeKeeps, ResetOpcodeKeeps, CommandOpcodeKeeps
     DEF OpcodeStep
<1>4. CASE ResetStep
  <2>1. PICK mode \in IoMode, clocks \in 1..8 * (MaxResetBytes + 1), high \in BOOLEAN :
            ReadResetRemainder(mode, clocks, high)
    BY <1>4 DEF ResetStep
  <2>2. clocks \in Nat
    BY BoundsAssumption
  <2>3. QED
    BY <2>1, <2>2, ReadResetRemainderKeeps
<1>5. CASE ElementStep
  BY <1>5, ReadAddr16Keeps, ReadData32Keeps, ReadPlainKeeps, ReadVwirePacketKeeps,
     ReadCycleHeaderKeeps, UnknownCycleTypeKeeps, ReadPayloadKeeps, ReadShortDataKeeps,
     EndElementsKeeps DEF ElementStep
<1>6. CASE ReadCrc
  BY <1>6, ReadCrcKeeps
<1>7. CASE TurnAround
  BY <1>7, TurnAroundKeeps
<1>8. CASE ResponseStep
  BY <1>8, WaitStateKeeps, UndefinedResponseKeeps, NoResponseKeeps, RespondKeeps
     DEF ResponseStep
<1>9. CASE RecordSessionUpdate
  BY <1>9, RecordSessionUpdateKeeps
<1>10. CASE UNCHANGED vars
  BY <1>10, StutterKeeps
<1>11. QED
  BY <1>1, <1>2, <1>3, <1>4, <1>5, <1>6, <1>7, <1>8, <1>9, <1>10 DEF Next, Decode

(* Whatever the bytes and wherever the chip select ends, the decode is in a *)
(* state of the invariant.                                                  *)
THEOREM Invariance == Spec => []IInv
<1>1. QED
  BY InitInv, NextInv, PTL DEF Spec

(* The decoder's state has its type: no more than three elements are ever   *)
(* left of a packet, and no field of the context leaves its range.          *)
THEOREM TypeCorrect == Spec => []TypeOK
<1>1. IInv => TypeOK
  BY DEF IInv
<1>2. QED
  BY <1>1, Invariance, PTL

(* LinkDecoder.cpp:1450-1482: of a transaction read to its end the CRC      *)
(* covers every byte but itself and the wait states, in both phases.        *)
THEOREM CrcCovers == Spec => []CrcCoverage
<1>1. IInv => CrcCoverage
  BY DEF IInv
<1>2. QED
  BY <1>1, Invariance, PTL

(* tables/PacketShapes.h: a transaction read to its end holds exactly the   *)
(* bytes the figures draw for what it carried.                              *)
THEOREM FramesAsDrawn == Spec => []FrameLength
<1>1. IInv => FrameLength
  BY DEF IInv
<1>2. QED
  BY <1>1, Invariance, PTL

(* LinkDecoder.cpp:829-833, 1494-1505: DEFER is flagged exactly when this   *)
(* transaction's own command header was of a posted type.                   *)
THEOREM DeferFlagged == Spec => []DeferFlaggedForPosted
<1>1. IInv => DeferFlaggedForPosted
  <2> SUFFICES ASSUME IInv, pc = "record"
               PROVE  result.deferFlagged <=>
                          /\ wire.response # None /\ LookupResponse(wire.response) = "DEFER"
                          /\ IsPosted
    BY DEF DeferFlaggedForPosted, IsPosted
  <2>1. wire.response # None => phase = "Response"
    BY DEF IInv, Control, TypeOK, Phase
  <2>2. phase = "Response" => (context.posted <=> IsPosted)
    BY DEF IInv, Flagged
  <2>3. QED
    BY <2>1, <2>2 DEF IInv, Flagged
<1>2. QED
  BY <1>1, Invariance, PTL

(* LinkDecoder.cpp:815-827, 1358-1383: a decode that stops with bytes still *)
(* to come does so where the length cannot be known, and nowhere else.      *)
THEOREM GivesUp == Spec => []GivesUpOnUnknownLength
<1>1. IInv => GivesUpOnUnknownLength
  BY DEF IInv, Stopped, Reason, GivesUpOnUnknownLength
<1>2. QED
  BY <1>1, Invariance, PTL

-----------------------------------------------------------------------------
(* The contract. *)

(* What the contract is told of the answer, and of the verdict. *)
Answered ==
    IF wire.response \in {None} \cup {16 * n + 15 : n \in 0..14} THEN "None"
    ELSE IF Accepted THEN "Accept" ELSE "Other"

Verdict ==
    IF pc = "idle" THEN [truncated |-> result.truncated, update |-> result.update]
    ELSE [truncated |-> FALSE, update |-> NoUpdate]

(* The contract's register and its changes are the decoder's.               *)
LEMMA SameSession ==
    /\ Contract!GeneralConfig = GeneralConfig
    /\ Contract!NoUpdate = NoUpdate /\ Contract!ResetUpdate = ResetUpdate
    /\ Contract!UncertainUpdate = UncertainUpdate
    /\ \A config : Contract!WrittenUpdate(config) = WrittenUpdate(config)
    /\ Contract!NoVerdict = [truncated |-> FALSE, update |-> NoUpdate]
BY DEF Contract!GeneralConfig, GeneralConfig, Contract!NoUpdate, NoUpdate, Contract!ResetUpdate,
       ResetUpdate, Contract!UncertainUpdate, UncertainUpdate, Contract!WrittenUpdate,
       WrittenUpdate, Contract!NoVerdict, Contract!GeneralConfigResetState,
       GeneralConfigResetState

(* The bytes told to be no answer are the wait states.                      *)
LEMMA WaitStateBytes ==
    ASSUME NEW byte \in Byte
    PROVE  byte \in {16 * n + 15 : n \in 0..14} <=> IsWaitState(byte)
<1>1. ASSUME NEW n \in 0..14 PROVE IsWaitState(16 * n + 15)
  BY DEF IsWaitState, NoResponseByte
<1>2. ASSUME IsWaitState(byte) PROVE byte \in {16 * n + 15 : n \in 0..14}
  <2>1. byte \div 16 \in 0..14 /\ byte = 16 * (byte \div 16) + 15
    BY <1>2 DEF IsWaitState, NoResponseByte, Byte
  <2>2. QED
    BY <2>1
<1>3. QED
  BY <1>1, <1>2

(* What the contract is told, by the response byte. *)
LEMMA AnswerTold ==
    ASSUME WireOK
    PROVE  /\ wire.response = None => Answered = "None"
           /\ wire.response # None /\ IsWaitState(wire.response) => Answered = "None"
           /\ wire.response # None /\ ~IsWaitState(wire.response) =>
                  Answered = IF Accepted THEN "Accept" ELSE "Other"
           /\ Answered = "Accept" <=> Accepted
<1>1. wire.response \in Byte \cup {None}
  BY DEF WireOK
<1>2. wire.response # None =>
          (wire.response \in {16 * n + 15 : n \in 0..14} <=> IsWaitState(wire.response))
  BY <1>1, WaitStateBytes
<1>3. Accepted => wire.response # None /\ ~IsWaitState(wire.response)
  BY <1>1, ResponseKinds DEF Accepted
<1>4. QED
  BY <1>2, <1>3 DEF Answered

(* In a call, a step that does nothing the contract knows of. *)
LEMMA UntoldStep ==
    ASSUME pc # "idle", pc' # "idle", armed' = armed, wire.opcode = 255 <=> wire'.opcode = 255,
           Wrote' = Wrote, Answered' = Answered, wire'.undecided = wire.undecided
    PROVE  UNCHANGED Contract!vars
<1>1. /\ (pc # "idle")' = (pc # "idle") /\ (~armed)' = (~armed)
      /\ (wire.opcode = 255)' = (wire.opcode = 255) /\ Verdict' = Verdict
  BY DEF Verdict
<1>2. QED
  BY <1>1 DEF Contract!vars, Wrote, Answered, Verdict

(* An opcode: an in-band reset, or nothing the contract knows of. *)
LEMMA OpcodeTold ==
    ASSUME IInv, OpcodeStep
    PROVE  [Contract!Next]_(Contract!vars)
<1>1. PICK byte \in OpcodeBytes : \/ UndefinedOpcode(byte)
                                  \/ ReservedLengthOpcode(byte)
                                  \/ ResetOpcode(byte)
                                  \/ CommandOpcode(byte)
  BY DEF OpcodeStep
<1>2. /\ ReadOpcode(byte) /\ byte \in Byte /\ pc' \in {"record", "reset", "elements"}
      /\ ResetOpcode(byte) => byte = 255
      /\ ~ResetOpcode(byte) => byte # 255
  <2>1. /\ ReadOpcode(byte) /\ byte \in Byte /\ pc' \in {"record", "reset", "elements"}
    BY <1>1, BytesAssumption DEF UndefinedOpcode, ReservedLengthOpcode, ResetOpcode, CommandOpcode
  <2>2. ResetOpcode(byte) => byte = 255
    BY <2>1, OpcodeNames DEF ResetOpcode
  <2>3. ~ResetOpcode(byte) => byte # 255
    <3>1. UndefinedOpcode(byte) => byte # 255
      BY KnownOpcodes DEF UndefinedOpcode
    <3>2. ReservedLengthOpcode(byte) => byte # 255
      BY <2>1, OpcodeNames DEF ReservedLengthOpcode, ReservedLength
    <3>3. CommandOpcode(byte) => byte # 255
      BY <2>1, OpcodeNames DEF CommandOpcode
    <3>4. QED
      BY <1>1, <3>1, <3>2, <3>3
  <2>4. QED
    BY <2>1, <2>2, <2>3
<1>3. /\ pc = "opcode" /\ armed /\ armed' /\ wire = NoWire
      /\ wire'.opcode = byte /\ wire'.response = None /\ Wrote' = None /\ WireOK'
  BY <1>2, OpcodeRead DEF IInv, Control
<1>4. /\ wire.opcode # 255 /\ Wrote = None /\ wire.response = None
      /\ wire.undecided = FALSE /\ wire'.undecided = FALSE
  <2>1. wire.opcode # 255 /\ Wrote = None /\ wire.response = None
    BY <1>3, ByteIsSeen DEF NoWire, Wrote, Byte
  <2>2. wire.undecided = FALSE /\ wire'.undecided = FALSE
    BY <1>3, <2>1 DEF IInv, WireOK
  <2>3. QED
    BY <2>1, <2>2
<1>5. Answered = "None" /\ Answered' = "None"
  <2>1. (wire.response = None => Answered = "None")'
    BY <1>3 DEF Answered
  <2>2. QED
    BY <1>3, <1>4, <2>1, AnswerTold DEF IInv
<1>6. CASE byte # 255
  <2>1. UNCHANGED Contract!vars
    BY <1>2, <1>3, <1>4, <1>5, <1>6, UntoldStep
  <2>2. QED
    BY <2>1
<1>7. CASE byte = 255
  <2>1. Verdict' = Verdict
    BY <1>2, <1>3 DEF Verdict
  <2>2. armed /\ Wrote = None /\ Answered = "None" /\ ~wire.undecided
    BY <1>2, <1>3, <1>4, <1>5
  <2>3. (wire.opcode = 255)' /\ (pc # "idle")' /\ pc # "idle"
    BY <1>2, <1>3, <1>7
  <2>4. UNCHANGED <<pc # "idle", ~armed, Wrote, wire.undecided, Answered, Verdict>>
    <3>1. (pc # "idle")' = (pc # "idle") /\ (~armed)' = (~armed)
      BY <1>3, <2>2, <2>3
    <3>2. Wrote' = Wrote /\ (wire.undecided)' = wire.undecided /\ Answered' = Answered
      BY <1>3, <1>4, <1>5
    <3>3. QED
      BY <2>1, <3>1, <3>2
  <2>5. Contract!CarriesReset
    BY <1>3, <1>4, <2>2, <2>3, <2>4
       DEF Contract!CarriesReset, Wrote, Answered, Verdict
  <2>6. QED
    BY <2>5 DEF Contract!Next
<1>8. QED
  BY <1>6, <1>7

(* The end of the chip select, under a read or at the end of a reset.       *)
LEMMA RunsOutTold ==
    ASSUME IInv, RunOut \/ ResetStep
    PROVE  [Contract!Next]_(Contract!vars)
<1>1. /\ pc # "idle" /\ pc' = "record" /\ armed /\ ~armed'
      /\ wire'.opcode = wire.opcode /\ Wrote' = Wrote /\ Answered' = Answered
      /\ wire'.undecided = wire.undecided
  <2>1. CASE RunOut
    <3>1. /\ pc \in {"opcode", "elements", "crc", "tar", "response"} /\ pc' = "record" /\ ~armed'
          /\ wire' = wire
      BY <2>1 DEF RunOut, Reading
    <3>2. armed
      BY <3>1 DEF IInv, Control
    <3>3. QED
      BY <3>1, <3>2 DEF Wrote, Answered, Accepted
  <2>2. CASE ResetStep
    <3>1. PICK mode \in IoMode, clocks \in 1..8 * (MaxResetBytes + 1), high \in BOOLEAN :
              ReadResetRemainder(mode, clocks, high)
      BY <2>2 DEF ResetStep
    <3>2. /\ pc = "reset" /\ pc' = "record" /\ ~armed'
          /\ wire' = [wire EXCEPT !.clocks = clocks, !.high = high]
      BY <3>1 DEF ReadResetRemainder
    <3>3. /\ armed /\ wire'.opcode = wire.opcode /\ wire'.address = wire.address
          /\ wire'.write = wire.write /\ wire'.response = wire.response
          /\ wire'.undecided = wire.undecided
      BY <3>2 DEF IInv, Control, WireOK
    <3>4. QED
      BY <3>2, <3>3 DEF Wrote, Answered, Accepted
  <2>3. QED
    BY <2>1, <2>2
<1>2. Verdict' = Verdict
  BY <1>1 DEF Verdict
<1>3. Contract!RunsOut
  BY <1>1, <1>2 DEF Contract!RunsOut, Wrote, Answered, Verdict
<1>4. QED
  BY <1>3 DEF Contract!Next

(* An element: a write of the register, or nothing the contract knows of.   *)
LEMMA ElementTold ==
    ASSUME IInv, ElementStep
    PROVE  [Contract!Next]_(Contract!vars)
<1>1. ASSUME pc # "idle", pc' # "idle", armed' = armed, wire'.opcode = wire.opcode,
             wire'.address = wire.address, wire'.write = wire.write,
             wire'.response = wire.response, wire'.undecided = wire.undecided
      PROVE  UNCHANGED Contract!vars
  <2>1. Wrote' = Wrote /\ Answered' = Answered
    BY <1>1 DEF Wrote, Answered, Accepted
  <2>2. QED
    BY <1>1, <2>1, UntoldStep
<1>2. CASE \E address \in Addresses : ReadAddr16(address)
  <2>1. PICK address \in Addresses : ReadAddr16(address)
    BY <1>2
  <2>2. /\ pc = "elements" /\ pc' = pc /\ armed' = armed /\ todo # << >> /\ Head(todo) = "Addr16"
        /\ wire' = [wire EXCEPT !.address = address]
    BY <2>1 DEF ReadAddr16, ReadElement, AtElement
  <2>3. phase = "Command"
    <3>1. /\ Seen /\ phase \in Phase /\ Place \in 1..Len(Packet(phase))
          /\ Packet(phase)[Place] = "Addr16"
      BY <2>2, AtHead DEF IInv, TypeOK
    <3>2. QED
      BY <3>1, AnswerPacket DEF Phase
  <2>4. wire.write = None
    BY <2>2, <2>3 DEF IInv, Contracted
  <2>5. /\ wire'.opcode = wire.opcode /\ wire'.write = wire.write
        /\ wire'.response = wire.response /\ wire'.undecided = wire.undecided
    BY <2>2 DEF IInv, WireOK
  <2>6. Wrote' = Wrote /\ Answered' = Answered
    BY <2>4, <2>5 DEF Wrote, Answered, Accepted
  <2>7. UNCHANGED Contract!vars
    BY <2>2, <2>5, <2>6, UntoldStep
  <2>8. QED
    BY <2>7
<1>3. CASE \E config \in Configs : ReadData32(config)
  <2>1. PICK config \in Configs : ReadData32(config)
    BY <1>3
  <2>2. /\ pc = "elements" /\ pc' = pc /\ armed' = armed /\ todo # << >> /\ Head(todo) = "Data32"
        /\ wire' = IF phase = "Command" THEN [wire EXCEPT !.write = config] ELSE wire
    BY <2>1 DEF ReadData32, ReadElement, AtElement
  <2>3. CASE phase # "Command"
    <3>1. UNCHANGED Contract!vars
      BY <1>1, <2>2, <2>3
    <3>2. QED
      BY <3>1
  <2>4. CASE phase = "Command"
    <3>1. wire.opcode = 34
      <4>1. /\ Seen /\ Place \in 1..Len(Packet("Command"))
            /\ Packet("Command")[Place] = "Data32"
        BY <2>2, <2>4, AtHead DEF IInv
      <4>2. QED
        BY <4>1, CommandPacket
    <3>2. /\ wire.write = None /\ wire.response = None /\ armed
      BY <2>2, <2>4 DEF IInv, Control, Contracted
    <3>3. /\ wire'.opcode = wire.opcode /\ wire'.address = wire.address
          /\ wire'.response = wire.response /\ wire'.write = config
          /\ wire.undecided = FALSE /\ wire'.undecided = FALSE
      BY <2>2, <2>4, <3>2 DEF IInv, WireOK
    <3>4. Answered = "None" /\ Answered' = Answered /\ Verdict' = Verdict /\ Wrote = None
      BY <2>2, <3>2, <3>3, AnswerTold DEF IInv, Answered, Accepted, Verdict, Wrote
    <3>5. CASE wire.address # None /\ IsGeneralConfigAddress(wire.address)
      <4>1. Wrote' = config /\ config \in GeneralConfig
        BY <3>1, <3>3, <3>5, ConfigsAssumption DEF Wrote
      <4>2. Contract!CarriesWrite
        BY <2>2, <3>1, <3>2, <3>3, <3>4, <4>1, SameSession
           DEF Contract!CarriesWrite, Wrote, Answered, Verdict
      <4>3. QED
        BY <4>2 DEF Contract!Next
    <3>6. CASE ~(wire.address # None /\ IsGeneralConfigAddress(wire.address))
      <4>1. Wrote' = Wrote
        BY <3>3, <3>6 DEF Wrote
      <4>2. UNCHANGED Contract!vars
        BY <2>2, <3>3, <3>4, <4>1, UntoldStep
      <4>3. QED
        BY <4>2
    <3>7. QED
      BY <3>5, <3>6
  <2>5. QED
    BY <2>3, <2>4
<1>4. CASE \/ ReadPlain
           \/ \E count \in SmbusCounts : ReadPayload(count)
           \/ ReadShortData
           \/ EndElements
  <2>1. pc = "elements" /\ pc' # "idle" /\ armed' = armed /\ wire' = wire
    BY <1>4 DEF ReadPlain, ReadPayload, ReadShortData, EndElements, ReadElement
  <2>2. QED
    BY <1>1, <2>1
<1>5. CASE \/ \E count \in VwireCounts : ReadVwirePacket(count)
           \/ \E byte \in CycleBytes : \/ \E raw \in RawLengths : ReadCycleHeader(byte, raw)
                                       \/ UnknownCycleType(byte)
  <2>1. pc = "elements" /\ pc' # "idle" /\ armed' = armed
    BY <1>5 DEF ReadVwirePacket, ReadCycleHeader, UnknownCycleType, ReadElement, AtElement
  <2>2. \/ \E groups : wire' = [wire EXCEPT !.groups = groups]
        \/ \E header : wire' = [wire EXCEPT !.header = header]
    BY <1>5 DEF ReadVwirePacket, ReadCycleHeader, UnknownCycleType
  <2>3. /\ wire'.opcode = wire.opcode /\ wire'.address = wire.address
        /\ wire'.write = wire.write /\ wire'.response = wire.response
        /\ wire'.undecided = wire.undecided
    BY <2>2 DEF IInv, WireOK
  <2>4. QED
    BY <1>1, <2>1, <2>3
<1>6. QED
  BY <1>2, <1>3, <1>4, <1>5 DEF ElementStep

(* A response byte: an answer; a wait state that is none; or one of which   *)
(* it is not settled which it is.                                           *)
LEMMA ResponseTold ==
    ASSUME IInv, ResponseStep
    PROVE  [Contract!Next]_(Contract!vars)
<1>1. PICK byte \in ResponseBytes : \/ WaitState(byte)
                                    \/ UndefinedResponse(byte)
                                    \/ NoResponse(byte)
                                    \/ Respond(byte)
  BY DEF ResponseStep
<1>2. /\ pc = "response" /\ pc' # "idle" /\ armed' = armed /\ byte \in Byte
      /\ \/ /\ IsWaitState(byte)
            /\ wire' = [wire EXCEPT !.response = byte, !.undecided = @ \/ Undecided(byte)]
         \/ /\ ~IsWaitState(byte)
            /\ wire' = [wire EXCEPT !.response = byte]
      /\ Responds(byte)
  BY <1>1, BytesAssumption
     DEF WaitState, UndefinedResponse, NoResponse, Respond, ReadResponse, Responds
<1>3. /\ armed /\ wire.opcode # 255 /\ WireOK' /\ wire'.opcode = wire.opcode
      /\ wire'.response = byte /\ byte # None /\ Wrote' = Wrote
  BY <1>2, ResponseRead
<1>4. Answered = "None"
  BY <1>2, AnswerTold DEF IInv, Control
<1>5. CASE IsWaitState(byte)
  <2>1. byte \in {16 * n + 15 : n \in 0..14}
    BY <1>2, <1>5, WaitStateBytes
  <2>2. Answered' = "None" /\ Verdict' = Verdict
    BY <1>2, <1>3, <2>1 DEF Answered, Verdict
  <2>3. /\ wire.undecided \in BOOLEAN
        /\ wire'.undecided = (wire.undecided \/ Undecided(byte))
    BY <1>2, <1>5 DEF IInv, WireOK
  <2>4. CASE wire'.undecided = wire.undecided
    BY <1>2, <1>3, <1>4, <2>2, <2>4, UntoldStep
  <2>5. CASE wire'.undecided # wire.undecided
    <3>1. wire'.undecided = TRUE
      BY <2>3, <2>5
    <3>2. Contract!CarriesUndecided
      BY <1>2, <1>3, <1>4, <2>2, <3>1
         DEF Contract!CarriesUndecided, Wrote, Answered, Verdict
    <3>3. QED
      BY <3>2 DEF Contract!Next
  <2>6. QED
    BY <2>4, <2>5
<1>6. CASE ~IsWaitState(byte)
  <2>1. wire'.response \notin {None} \cup {16 * n + 15 : n \in 0..14}
    BY <1>2, <1>3, <1>6, WaitStateBytes
  <2>2. Answered' \in {"Accept", "Other"} /\ Verdict' = Verdict
    BY <1>2, <2>1 DEF Answered, Verdict
  <2>3. wire'.undecided = wire.undecided
    BY <1>2, <1>6 DEF IInv, WireOK
  <2>4. Contract!CarriesAnswer
    BY <1>2, <1>3, <1>4, <2>2, <2>3 DEF Contract!CarriesAnswer, Wrote, Answered, Verdict
  <2>5. QED
    BY <2>4 DEF Contract!Next
<1>7. QED
  BY <1>5, <1>6

(* The return: the verdict the contract gives for what the wire did. *)
LEMMA ReturnTold ==
    ASSUME IInv, RecordSessionUpdate
    PROVE  [Contract!Next]_(Contract!vars)
<1>1. /\ pc = "record" /\ pc' = "idle" /\ armed' = armed /\ wire' = wire
      /\ result' = [result EXCEPT !.update = SessionUpdateOf(context)]
      /\ result \in Result
  BY DEF RecordSessionUpdate, IInv, TypeOK
<1>2. /\ context.write = Wrote /\ (context.accepted <=> Accepted)
      /\ context.reset <=> wire.opcode = 255
      /\ result.truncated <=> ~armed /\ wire.opcode # 255
      /\ wire.opcode = 255 => ~armed
  BY <1>1 DEF IInv, Contracted
<1>3. Wrote' = Wrote /\ Answered' = Answered
  BY <1>1 DEF Wrote, Answered, Accepted
<1>4. Answered = "Accept" <=> Accepted
  BY AnswerTold DEF IInv
<1>5. result'.truncated = (~armed /\ wire.opcode # 255)
      /\ result'.update = SessionUpdateOf(context)
  BY <1>1, <1>2 DEF Result
<1>6. SessionUpdateOf(context) = Contract!RightUpdate(Answered)
  BY <1>2, <1>4, SameSession DEF SessionUpdateOf, Contract!RightUpdate, Wrote, Answered
<1>7. Verdict' = [truncated |-> ~armed /\ wire.opcode # 255,
                           update |-> Contract!RightUpdate(Answered)]
  BY <1>1, <1>5, <1>6 DEF Verdict
<1>8. Answered \in Contract!Answers
  BY DEF Contract!Answers, Answered
<1>9. Contract!Return
  BY <1>1, <1>2, <1>3, <1>7, <1>8 DEF Contract!Return, Wrote, Answered, Verdict
<1>10. QED
  BY <1>9 DEF Contract!Next

(* Decode.h, LinkDecoder.h: the decoder implements its contract. Whatever   *)
(* the bytes and wherever the chip select ends, what it returns follows     *)
(* from what the wire did: truncated exactly when a read ran out outside a  *)
(* reset, and the register's change the one the wire carried.               *)
THEOREM Refinement == Spec => ImplementsContract
<1>1. Init => Contract!Init
  <2> SUFFICES ASSUME Init PROVE Contract!Init
    OBVIOUS
  <2>1. /\ pc = "idle" /\ armed = FALSE /\ WireOK
        /\ wire.opcode # 255 /\ Wrote = None /\ wire.response = None
        /\ Verdict = Contract!NoVerdict /\ wire.undecided = FALSE
    <3>1. WireOK
      BY InitInv DEF IInv
    <3>2. QED
      BY <3>1, ByteIsSeen, SameSession DEF Init, NoWire, Wrote, Byte, NoResult, Verdict
  <2>2. Answered = "None"
    BY <2>1, AnswerTold
  <2>3. QED
    BY <2>1, <2>2 DEF Contract!Init, Wrote, Answered, Verdict
<1>2. IInv /\ [Next]_vars => [Contract!Next]_(Contract!vars)
  <2> SUFFICES ASSUME IInv, [Next]_vars PROVE [Contract!Next]_(Contract!vars)
    OBVIOUS
  <2>1. CASE Begin
    <3>1. /\ pc = "idle" /\ pc' = "opcode" /\ armed' = TRUE /\ wire' = NoWire
      BY <2>1 DEF Begin
    <3>2. wire'.opcode # 255 /\ Wrote' = None /\ Answered' = "None" /\ wire'.undecided = FALSE
      BY <3>1, ByteIsSeen DEF NoWire, Wrote, Answered, Byte
    <3>3. Verdict' = Contract!NoVerdict
      BY <3>1, SameSession DEF Verdict
    <3>4. Contract!Call
      BY <3>1, <3>2, <3>3 DEF Contract!Call, Wrote, Answered, Verdict
    <3>5. QED
      BY <3>4 DEF Contract!Next
  <2>2. CASE ReadCrc \/ TurnAround
    <3>1. pc # "idle" /\ pc' # "idle" /\ armed' = armed /\ wire' = wire
      BY <2>2 DEF ReadCrc, TurnAround
    <3>2. UNCHANGED Contract!vars
      BY <3>1, UntoldStep DEF Wrote, Answered, Accepted
    <3>3. QED
      BY <3>2
  <2>3. CASE UNCHANGED vars
    <3>1. pc' = pc /\ armed' = armed /\ wire' = wire /\ result' = result
      BY <2>3 DEF vars
    <3>2. UNCHANGED Contract!vars
      BY <3>1 DEF Contract!vars, Accepted
    <3>3. QED
      BY <3>2
  <2>4. QED
    BY <2>1, <2>2, <2>3, OpcodeTold, RunsOutTold, ElementTold, ResponseTold, ReturnTold
       DEF Next, Decode
<1>3. QED
  BY <1>1, <1>2, Invariance, PTL DEF Spec, ImplementsContract, Contract!Spec
=============================================================================
