-------------------------- MODULE EspiTables_proofs --------------------------
(***************************************************************************)
(* Lemmas about the tables of the protocol: what a look-up returns for     *)
(* each byte, which elements a packet is made of, and in which order.      *)
(***************************************************************************)
EXTENDS EspiTables, SequenceTheorems, TLAPS

-----------------------------------------------------------------------------
(* Opcodes *)

(* A look-up of a known byte returns the row that matches it. *)
LEMMA LookedUpOpcode ==
    ASSUME NEW byte \in Byte, KnownOpcode(byte)
    PROVE  LookupOpcode(byte) \in Opcodes /\ MatchesOpcode(byte, LookupOpcode(byte))
BY DEF KnownOpcode, LookupOpcode

(* The rows of the table that something depends on by name (tables/Opcodes.h). *)
LEMMA OpcodeNames ==
    ASSUME NEW byte \in Byte, KnownOpcode(byte)
    PROVE  LET o == LookupOpcode(byte)
           IN  /\ o.name = "RESET" <=> byte = 255
               /\ o.name = "SET_CONFIGURATION" <=> byte = 34
               /\ o.name = "GET_STATUS" <=> byte = 37
               /\ o.name = "PUT_OOB" <=> byte = 6
               /\ o.short <=> byte \div 16 = 4
               /\ o.short <=> o.name \in {"PUT_IORD_SHORT", "PUT_IOWR_SHORT",
                                          "PUT_MEMRD32_SHORT", "PUT_MEMWR32_SHORT"}
               /\ o.channel \in {x.channel : x \in Opcodes}
<1> DEFINE o == LookupOpcode(byte)
<1>1. o \in Opcodes /\ o.encoding = IF o.short THEN byte - (byte % 4) ELSE byte
  BY LookedUpOpcode DEF MatchesOpcode
<1>2. o.channel \in {x.channel : x \in Opcodes}
  BY <1>1
<1> HIDE DEF o
<1>4. o.short <=> o.name \in {"PUT_IORD_SHORT", "PUT_IOWR_SHORT",
                             "PUT_MEMRD32_SHORT", "PUT_MEMWR32_SHORT"}
  BY <1>1 DEF Opcodes, Opcode
<1>5. o.short <=> byte \div 16 = 4
  <2>1. o.short => byte - (byte % 4) \in {64, 68, 72, 76}
    BY <1>1 DEF Opcodes, Opcode
  <2>2. ~o.short => byte \in 0..11 \cup {33, 34, 37, 255}
    BY <1>1 DEF Opcodes, Opcode
  <2>3. byte - (byte % 4) \in {64, 68, 72, 76} => byte \div 16 = 4
    BY DEF Byte
  <2>4. byte \in 0..11 \cup {33, 34, 37, 255} => byte \div 16 # 4
    OBVIOUS
  <2>5. QED
    BY <2>1, <2>2, <2>3, <2>4
<1>6. /\ o.name = "RESET" <=> byte = 255
      /\ o.name = "SET_CONFIGURATION" <=> byte = 34
  BY <1>1 DEF Opcodes, Opcode, Byte
<1>7. /\ o.name = "GET_STATUS" <=> byte = 37
      /\ o.name = "PUT_OOB" <=> byte = 6
  BY <1>1 DEF Opcodes, Opcode, Byte
<1>8. QED
  BY <1>2, <1>4, <1>5, <1>6, <1>7 DEF o

(* The channel whose cycle types an opcode's packets are read by. *)
LEMMA OpcodeChannels ==
    ASSUME NEW byte \in Byte, KnownOpcode(byte)
    PROVE  LET o == LookupOpcode(byte)
           IN  /\ o.name \in {"PUT_PC", "GET_PC", "PUT_NP", "GET_NP"} => o.channel = "Peripheral"
               /\ o.name \in {"PUT_OOB", "GET_OOB"} => o.channel = "Oob"
               /\ o.name \in {"PUT_FLASH_C", "GET_FLASH_NP", "PUT_FLASH_NP", "GET_FLASH_C"}
                      => o.channel = "Flash"
               /\ o.channel = "Oob" => o.name \in {"PUT_OOB", "GET_OOB"}
BY LookedUpOpcode DEF Opcodes, Opcode, MatchesOpcode

(* RESET and SET_CONFIGURATION are in the table. *)
LEMMA KnownOpcodes == KnownOpcode(255) /\ KnownOpcode(34)
BY DEF KnownOpcode, Opcodes, Opcode, MatchesOpcode

(* A short cycle's length code, the reserved one left out, is what it says. *)
LEMMA ShortLengths ==
    ASSUME NEW byte \in Byte
    PROVE  /\ ShortRequestLength(byte) \in {0, 1, 2, 4}
           /\ ShortRequestLength(byte) = 0 <=> byte % 4 = 2
           /\ ShortRequestLength(byte) # 0 => ShortRequestLength(byte) = (byte % 4) + 1
<1>1. byte % 4 \in 0..3
  BY DEF Byte
<1>2. CASE byte % 4 = 0
  BY <1>2 DEF ShortRequestLength
<1>3. CASE byte % 4 = 1
  BY <1>3 DEF ShortRequestLength
<1>4. CASE byte % 4 = 2
  BY <1>4 DEF ShortRequestLength
<1>5. CASE byte % 4 = 3
  BY <1>5 DEF ShortRequestLength
<1>6. QED
  BY <1>1, <1>2, <1>3, <1>4, <1>5

-----------------------------------------------------------------------------
(* Cycle types *)

(* The bytes a row of the table stands for, one by one. *)
RowBytes(t) ==
    CASE t.variable = "None"                             -> {t.code}
      [] t.variable = "SplitCompletion" /\ t.code = 8    -> {8, 10, 12, 14}
      [] t.variable = "SplitCompletion" /\ t.code = 9    -> {9, 11, 13, 15}
      [] t.variable = "MessageRouting"  /\ t.code = 16   -> {16, 18, 20, 22, 24, 26, 28, 30}
      [] t.variable = "MessageRouting"  /\ t.code = 17   -> {17, 19, 21, 23, 25, 27, 29, 31}
      [] t.variable = "RpmcTarget"      /\ t.code = 3    -> {3, 35, 67, 99}
      [] t.variable = "RpmcTarget"      /\ t.code = 4    -> {4, 36, 68, 100}

(* Every row has one of these forms. *)
LEMMA RowForms ==
    ASSUME NEW t \in CycleTypes
    PROVE  /\ t.code \in Byte
           /\ \/ t.variable = "None"
              \/ t.variable = "SplitCompletion" /\ t.code \in {8, 9}
              \/ t.variable = "MessageRouting" /\ t.code \in {16, 17}
              \/ t.variable = "RpmcTarget" /\ t.code \in {3, 4}
BY DEF CycleTypes, CycleType, Byte

(* Masking the variable bits off compares the bits that are left.           *)
LEMMA MatchedByte ==
    ASSUME NEW t \in CycleTypes, NEW byte \in Byte
    PROVE  MatchesCycleType(byte, t) <=> byte \in RowBytes(t)
<1>1. CASE t.variable = "None"
  <2>1. FieldFor(t.variable).shift = 0 /\ FieldFor(t.variable).width = 0
    BY <1>1 DEF FieldFor
  <2>2. 2^0 = 1
    OBVIOUS
  <2>3. CycleVariableValue(byte, t) = (byte \div 1) % 1
    BY <2>1, <2>2 DEF CycleVariableValue
  <2>4. (byte \div 1) % 1 = 0
    BY DEF Byte
  <2>5. MatchesCycleType(byte, t) <=> byte - 0 * 1 = t.code
    BY <2>1, <2>2, <2>3, <2>4 DEF MatchesCycleType
  <2>6. RowBytes(t) = {t.code}
    BY <1>1 DEF RowBytes
  <2>7. QED
    BY <2>5, <2>6, RowForms DEF Byte
<1>2. CASE t.variable = "SplitCompletion"
  <2>1. FieldFor(t.variable).shift = 1 /\ FieldFor(t.variable).width = 2
    BY <1>2 DEF FieldFor
  <2>2. 2^1 = 2 /\ 2^2 = 4
    OBVIOUS
  <2>3. MatchesCycleType(byte, t) <=> byte - ((byte \div 2) % 4) * 2 = t.code
    BY <2>1, <2>2 DEF MatchesCycleType, CycleVariableValue
  <2>4. /\ byte - ((byte \div 2) % 4) * 2 = 8 <=> byte \in {8, 10, 12, 14}
        /\ byte - ((byte \div 2) % 4) * 2 = 9 <=> byte \in {9, 11, 13, 15}
    BY DEF Byte
  <2>5. QED
    BY <1>2, <2>3, <2>4, RowForms DEF RowBytes
<1>3. CASE t.variable = "MessageRouting"
  <2>1. FieldFor(t.variable).shift = 1 /\ FieldFor(t.variable).width = 3
    BY <1>3 DEF FieldFor
  <2>2. 2^1 = 2 /\ 2^3 = 8
    OBVIOUS
  <2>3. MatchesCycleType(byte, t) <=> byte - ((byte \div 2) % 8) * 2 = t.code
    BY <2>1, <2>2 DEF MatchesCycleType, CycleVariableValue
  <2>4. /\ byte - ((byte \div 2) % 8) * 2 = 16 <=> byte \in {16, 18, 20, 22, 24, 26, 28, 30}
        /\ byte - ((byte \div 2) % 8) * 2 = 17 <=> byte \in {17, 19, 21, 23, 25, 27, 29, 31}
    BY DEF Byte
  <2>5. QED
    BY <1>3, <2>3, <2>4, RowForms DEF RowBytes
<1>4. CASE t.variable = "RpmcTarget"
  <2>1. FieldFor(t.variable).shift = 5 /\ FieldFor(t.variable).width = 2
    BY <1>4 DEF FieldFor
  <2>2. 2^5 = 32 /\ 2^2 = 4
    OBVIOUS
  <2>3. MatchesCycleType(byte, t) <=> byte - ((byte \div 32) % 4) * 32 = t.code
    BY <2>1, <2>2 DEF MatchesCycleType, CycleVariableValue
  <2>4. /\ byte - ((byte \div 32) % 4) * 32 = 3 <=> byte \in {3, 35, 67, 99}
        /\ byte - ((byte \div 32) % 4) * 32 = 4 <=> byte \in {4, 36, 68, 100}
    BY DEF Byte
  <2>5. QED
    BY <1>4, <2>3, <2>4, RowForms DEF RowBytes
<1>5. QED
  BY <1>1, <1>2, <1>3, <1>4, RowForms

(* A look-up of a known byte returns a row of the channel it belongs to. *)
LEMMA LookedUpCycleType ==
    ASSUME NEW channel, NEW byte \in Byte, KnownCycleType(channel, byte)
    PROVE  LET t == LookupCycleType(channel, byte)
           IN  t \in CycleTypes /\ t.channel = channel /\ byte \in RowBytes(t)
<1> DEFINE t == LookupCycleType(channel, byte)
<1>1. t \in CycleTypesOf(channel) /\ MatchesCycleType(byte, t)
  BY DEF KnownCycleType, LookupCycleType
<1>2. t \in CycleTypes /\ t.channel = channel
  BY <1>1 DEF CycleTypesOf
<1>3. QED
  BY <1>1, <1>2, MatchedByte

-----------------------------------------------------------------------------
(* Packet shapes *)

(* Short sequences put together. *)
LEMMA JoinOneOne == ASSUME NEW a, NEW b PROVE <<a>> \o <<b>> = <<a, b>>
<1> DEFINE S == {a, b}
<1>1. <<a>> \in Seq(S) /\ <<b>> \in Seq(S) /\ <<a, b>> \in Seq(S)
  OBVIOUS
<1>2. /\ <<a>> \o <<b>> \in Seq(S) /\ Len(<<a>> \o <<b>>) = 2
      /\ \A i \in 1..2 : (<<a>> \o <<b>>)[i] = <<a, b>>[i]
  BY <1>1, ConcatProperties
<1> HIDE DEF S
<1>3. QED
  BY <1>1, <1>2, SeqEqual

(* Three elements, the first two already together. *)
LEMMA JoinTwoOne == ASSUME NEW a, NEW b, NEW c PROVE <<a, b>> \o <<c>> = <<a, b, c>>
<1> DEFINE S == {a, b, c}
<1>1. <<a, b>> \in Seq(S) /\ <<c>> \in Seq(S) /\ <<a, b, c>> \in Seq(S)
  OBVIOUS
<1>2. /\ <<a, b>> \o <<c>> \in Seq(S) /\ Len(<<a, b>> \o <<c>>) = 3
      /\ \A i \in 1..3 : (<<a, b>> \o <<c>>)[i] = <<a, b, c>>[i]
  BY <1>1, ConcatProperties
<1> HIDE DEF S
<1>3. QED
  BY <1>1, <1>2, SeqEqual

(* The elements of the responses, all of them. *)
LEMMA ResponseForms ==
    ASSUME NEW name
    PROVE  ResponseElements(name) \in {<<"Data32", "Status16">>, <<"VwirePacket", "Status16">>,
               <<"CycleHeader", "Payload", "Status16">>, <<"ShortData", "Status16">>, << >>,
               <<"Status16">>}
BY DEF ResponseElements

(* An accepted response has every element of its shape. *)
LEMMA PresentWhenAccepted ==
    ASSUME NEW name
    PROVE  PresentElements(ResponseElements(name), TRUE) = ResponseElements(name)
<1>1. PresentElements(<<"Data32", "Status16">>, TRUE) = <<"Data32", "Status16">>
  BY JoinOneOne DEF PresentElements
<1>2. PresentElements(<<"VwirePacket", "Status16">>, TRUE) = <<"VwirePacket", "Status16">>
  BY JoinOneOne DEF PresentElements
<1>3. PresentElements(<<"CycleHeader", "Payload", "Status16">>, TRUE)
          = <<"CycleHeader", "Payload", "Status16">>
  <2>1. PresentElements(<<"CycleHeader", "Payload", "Status16">>, TRUE)
            = ((<<"CycleHeader">> \o <<"Payload">>) \o <<"Status16">>) \o << >>
    BY DEF PresentElements
  <2>2. <<"CycleHeader">> \o <<"Payload">> = <<"CycleHeader", "Payload">>
    BY JoinOneOne
  <2>3. <<"CycleHeader", "Payload">> \o <<"Status16">> = <<"CycleHeader", "Payload", "Status16">>
    BY JoinTwoOne
  <2>4. <<"CycleHeader", "Payload", "Status16">> \o << >> = <<"CycleHeader", "Payload", "Status16">>
    OBVIOUS
  <2>5. QED
    BY <2>1, <2>2, <2>3, <2>4, Zenon
<1>4. PresentElements(<<"ShortData", "Status16">>, TRUE) = <<"ShortData", "Status16">>
  BY JoinOneOne DEF PresentElements
<1>5. PresentElements(<<"Status16">>, TRUE) = <<"Status16">>
  BY DEF PresentElements
<1>6. PresentElements(<< >>, TRUE) = << >>
  BY DEF PresentElements
<1>7. QED
  BY <1>1, <1>2, <1>3, <1>4, <1>5, <1>6, ResponseForms

(* A response that is not accepted has its status, and in front of it the   *)
(* data of the two reads whose elements are not said to need an ACCEPT.     *)
LEMMA PresentWhenRefused ==
    ASSUME NEW name
    PROVE  LET present == PresentElements(ResponseElements(name), FALSE)
           IN  /\ name = "GET_CONFIGURATION" => present = <<"Data32", "Status16">>
               /\ name = "GET_VWIRE" => present = <<"VwirePacket", "Status16">>
               /\ name = "RESET" => present = << >>
               /\ name \notin {"GET_CONFIGURATION", "GET_VWIRE", "RESET"}
                      => present = <<"Status16">>
<1>1. PresentElements(<<"Data32", "Status16">>, FALSE) = <<"Data32", "Status16">>
  BY JoinOneOne DEF PresentElements, ElementPresentOnlyOnAccept
<1>2. PresentElements(<<"VwirePacket", "Status16">>, FALSE) = <<"VwirePacket", "Status16">>
  BY JoinOneOne DEF PresentElements, ElementPresentOnlyOnAccept
<1>3. PresentElements(<<"CycleHeader", "Payload", "Status16">>, FALSE) = <<"Status16">>
  BY DEF PresentElements, ElementPresentOnlyOnAccept
<1>4. PresentElements(<<"ShortData", "Status16">>, FALSE) = <<"Status16">>
  BY DEF PresentElements, ElementPresentOnlyOnAccept
<1>5. PresentElements(<<"Status16">>, FALSE) = <<"Status16">>
  BY DEF PresentElements, ElementPresentOnlyOnAccept
<1>6. PresentElements(<< >>, FALSE) = << >>
  BY DEF PresentElements
<1>7. QED
  BY <1>1, <1>2, <1>3, <1>4, <1>5, <1>6 DEF ResponseElements
=============================================================================
