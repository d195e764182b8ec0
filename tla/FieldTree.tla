------------------------------ MODULE FieldTree ------------------------------
(***************************************************************************)
(* The tree a transaction is decoded into, as far as its shape and spans:  *)
(* which fields LinkDecoder makes of the bytes of each element, and what a *)
(* read cut short leaves behind. Texts, values and severities are left     *)
(* out, and so are the spaces in the names; of the fields that explain the *)
(* same bytes a few stand for all.                                         *)
(*                                                                         *)
(* Bytes are counted by UNITS, a byte or a turn-around window; each unit   *)
(* is at least two clocks, so its span has two samples here.               *)
(***************************************************************************)
EXTENDS EspiTables, FiniteSetsExt, Sequences

-----------------------------------------------------------------------------
(* ByteStream.h and Decode.h *)

NoSpan == [first |-> 0, last |-> 0]

HasSpan(span) == span.last > span.first

(* A plausible bug: the samples all of the spans cover.                     *)
MergeCommon(spans) ==
    [first |-> Max({s.first : s \in spans}), last |-> Min({s.last : s \in spans})]

(* Merging two is commutative and associative: this is what several come to.*)
Merge(spans) == [first |-> Min({s.first : s \in spans}), last |-> Max({s.last : s \in spans})]

(* The span of the n units after the first at.                              *)
Units(at, n) == IF n = 0 THEN NoSpan ELSE [first |-> 2 * at + 1, last |-> 2 * (at + n)]

Field(name, span) == [name |-> name, span |-> span, children |-> << >>]

(* A plausible bug: a container keeps the span it was made with.            *)
AddAllKeepsSpan(field, children) == [field EXCEPT !.children = @ \o children]

(* Each child that has a span widens its parent's.                          *)
AddAll(field, children) ==
    LET spans == {s \in {field.span} \cup {children[i].span : i \in DOMAIN children} : HasSpan(s)}
    IN  [name     |-> field.name,
         span     |-> IF spans = {} THEN field.span ELSE Merge(spans),
         children |-> field.children \o children]

Add(field, child) == AddAll(field, <<child>>)

(* A field explained by others that carry its span. *)
Explained(name, span) == AddAll(Field(name, span), <<Field("Bits", span), Field("Bits", span)>>)

(* AddStatusChildren: the bits that are set. *)
StatusWord(span) == Explained("Status", span)

(* AddConfigChildren: the register's fields, of which the mask of supported *)
(* channels is explained bit by bit in turn.                                *)
ConfigData(span) ==
    AddAll(Field("Data", span), <<Field("RegisterField", span), Explained("ChannelSupported", span)>>)

(* AddMctpHeader: the cells of the five bytes. *)
MctpHeader(span) == Explained("MctpHeader", span)

-----------------------------------------------------------------------------
(* Elements: the fields each adds and, when it is whole, the bytes it takes.*)
(* What a read cut short leaves is the fields of the reads before it.       *)

Reading(fields, bytes) == [fields |-> fields, bytes |-> bytes]

(* AddVwireGroup: the i-th byte after the count is an index or, explained   *)
(* by its wires, its interrupt or a gap, the data of one.                   *)
VwireByte(at, i) == IF i % 2 = 1 THEN Field("Index", Units(at + i, 1))
                    ELSE Explained("Data", Units(at + i, 1))

(* ReadVwirePacket: the count and the groups read. *)
VwirePacket(at, reserved, groups) ==
    AddAll(Field("VirtualWirePacket", Units(at, 1)),
           (IF reserved THEN <<Field("Count", Units(at, 1)), Field("Reserved", Units(at, 1))>>
            ELSE <<Field("Count", Units(at, 1))>>)
           \o [i \in 1..2 * groups |-> VwireByte(at, i)])

VwireWhole(at, groups, reserved) ==
    Reading(<<VwirePacket(at, reserved, groups)>>, 1 + 2 * groups)

VwirePart(at, groups) ==
    {<< >>} \cup {<<VwirePacket(at, reserved, read)>> :
                      reserved \in BOOLEAN, read \in 0..groups - 1}

(* ReadCycleHeader, AddMessageSpecific *)
MessageCode(at) ==
    AddAll(Field("MessageCode", Units(at, 1)),
           [i \in 1..4 |-> Field("MessageSpecificByte", Units(at + 1, 4))])

(* The tag and the top of the length share a byte. No layout has both an    *)
(* address and a message code.                                              *)
CycleHeaderFields(at, layout) ==
    <<Explained("CycleType", Units(at, 1)),
      Field("Tag", Units(at + 1, 1)), Field("Length", Units(at + 1, 2))>>
    \o CASE AddressBytes(layout) # 0 -> <<Field("Address", Units(at + 3, AddressBytes(layout)))>>
         [] HasMessageCode(layout)   -> <<MessageCode(at + 3)>>
         [] OTHER                    -> << >>

CycleHeaderWhole(at, layout) == Reading(CycleHeaderFields(at, layout), HeaderBytes(layout))

(* Tag and length are read together; a message code is kept when its        *)
(* specific bytes are not.                                                  *)
CycleHeaderPart(at, layout) ==
    LET all  == CycleHeaderFields(at, layout)
        read == SubSeq(all, 1, 3)
    IN  {<< >>, SubSeq(all, 1, 1)}
          \cup (IF Len(all) > 3 THEN {read} ELSE {})
          \cup (IF HasMessageCode(layout)
                THEN {read \o <<Field("MessageCode", Units(at + 3, 1))>>} ELSE {})

(* ReadSmbusPayload: the three header bytes and what they say, then, if the *)
(* Byte Count is to be believed, an MCTP header, the data and a PEC.        *)
SmbusConsistent(length, count) == length - 3 - count \in {0, 1}

SmbusHeader(at, length, count, mctp) ==
    <<Field("TargetAddress", Units(at, 3)), Field("CommandOpcode", Units(at, 3)),
      Field("ByteCount", Units(at, 3))>>
    \o CASE ~SmbusConsistent(length, count) -> <<Field("SmbusByteCount", NoSpan)>>
         [] SmbusConsistent(length, count) /\ mctp /\ count < 5
                                            -> <<Field("MctpHeader", Units(at, 3))>>
         [] OTHER                           -> << >>

(* Each of these is a read of its own.                                      *)
SmbusBody(at, length, count, mctp) ==
    LET split == mctp /\ count >= 5
        begin == IF split THEN 8 ELSE 3
        bytes == count + 3 - begin
        data  == IF bytes # 0 THEN <<Field("Data", Units(at + begin, bytes))>> ELSE << >>
        pec   == IF length = 4 + count THEN <<Field("Pec", Units(at + 3 + count, 1))>> ELSE << >>
    IN  CASE SmbusConsistent(length, count)
               -> (IF split THEN <<MctpHeader(Units(at + 3, 5))>> ELSE << >>) \o data \o pec
          [] ~SmbusConsistent(length, count) /\ length > 3
               -> <<Field("Data", Units(at + 3, length - 3))>>
          [] OTHER -> << >>

SmbusPacket(at, length, count, mctp, read) ==
    AddAll(Field("SmbusPacket", Units(at, 3)),
           SmbusHeader(at, length, count, mctp)
           \o SubSeq(SmbusBody(at, length, count, mctp), 1, read))

(* ReadPayload: an SMBus packet for an OOB message, read as it comes when   *)
(* it is too short to be one.                                               *)
PayloadWhole(at, layout, length, count, mctp) ==
    CASE ~HasPayload(layout) -> Reading(<< >>, 0)
      [] layout = "OobMessage" /\ length >= 3 ->
             Reading(<<SmbusPacket(at, length, count, mctp,
                                   Len(SmbusBody(at, length, count, mctp)))>>, length)
      [] layout = "OobMessage" /\ length < 3 ->
             Reading(<<Field("SmbusPacket", NoSpan), Field("Data", Units(at, length))>>, length)
      [] layout = "FlashRpmcOp1" -> Reading(<<Explained("Data", Units(at, length))>>, length)
      [] OTHER -> Reading(<<Field("Data", Units(at, length))>>, length)

PayloadPart(at, layout, length, count, mctp) ==
    CASE layout = "OobMessage" /\ length >= 3 ->
             {<< >>} \cup {<<SmbusPacket(at, length, count, mctp, read)>> :
                               read \in 0..Len(SmbusBody(at, length, count, mctp)) - 1}
      [] layout = "OobMessage" /\ length < 3 -> {<<Field("SmbusPacket", NoSpan)>>}
      [] OTHER -> {<< >>}

(* ElementName *)
ElementName(e) == CASE e \in {"Addr16", "IoAddr16", "MemAddr32"} -> "Address"
                    [] e = "Status16"                           -> "Status"
                    [] OTHER                                    -> "Data"

(* ReadShortData and the elements of a fixed size *)
FixedWhole(at, e) ==
    LET span == Units(at, ElementFixedSize(e))
    IN  Reading(<<CASE e = "Status16" -> StatusWord(span)
                    [] e = "Data32"   -> ConfigData(span)
                    [] OTHER          -> Field(ElementName(e), span)>>,
                ElementFixedSize(e))

ShortDataWhole(at, length) == Reading(<<Field("Data", Units(at, length))>>, length)

(* ReadResetRemainder *)
ResetFields(at, bytes, deviates) ==
    LET ignored == Field("Ignored", Units(at, bytes))
    IN  <<IF deviates THEN Add(ignored, Field("ResetPattern", NoSpan)) ELSE ignored,
          Field("RegisterReset", NoSpan)>>
=============================================================================
