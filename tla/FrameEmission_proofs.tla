------------------------ MODULE FrameEmission_proofs ------------------------
(***************************************************************************)
(* Proofs that every field's span covers those of the fields below it,     *)
(* that the frames drawn come in the order of the bytes and overlap only   *)
(* where a byte is shared, and that no field is left out but for the lost, *)
(* for transactions of any packets, cut short anywhere.                    *)
(***************************************************************************)
EXTENDS FrameEmission, EspiTables_proofs, WellFoundedInduction

-----------------------------------------------------------------------------
(* Merging spans *)

(* A set of numbers has a smallest one. *)
LEMMA SmallestOf ==
    ASSUME NEW T, T \subseteq Nat, T # {}
    PROVE  \E x \in T : \A y \in T : x <= y
<1> DEFINE Less == {ss \in Nat \X Nat : ss[1] < ss[2]}
<1>1. IsWellFoundedOn(Less, Nat)
  BY NatLessThanWellFounded, Zenon DEF OpToRel
<1>2. \A x, y \in Nat : y < x => <<y, x>> \in Less
  OBVIOUS
<1> HIDE DEF Less
<1>3. PICK x \in T : \A y \in T : ~ (<<y, x>> \in Less)
  BY <1>1, WFMin
<1>4. \A y \in T : ~ (y < x)
  BY <1>2, <1>3, Zenon
<1>5. QED
  BY <1>4

LEMMA MinOf ==
    ASSUME NEW T, T \subseteq Nat, T # {}
    PROVE  Min(T) \in T /\ \A y \in T : Min(T) <= y
<1>1. \E x \in T : \A y \in T : x <= y
  BY SmallestOf
<1>2. QED
  BY <1>1 DEF Min

(* And, when none is above some number, a greatest one: the least of those  *)
(* that none is above.                                                      *)
LEMMA MaxOf ==
    ASSUME NEW T, T \subseteq Nat, T # {}, NEW bound \in Nat, \A x \in T : x <= bound
    PROVE  Max(T) \in T /\ \A y \in T : y <= Max(T)
<1> DEFINE Above == {n \in Nat : \A x \in T : x <= n}
<1>1. Above \subseteq Nat /\ bound \in Above
  OBVIOUS
<1>2. PICK d \in Above : \A y \in Above : d <= y
  BY <1>1, SmallestOf
<1>3. d \in T
  <2>1. CASE d = 0
    <3>1. PICK t \in T : TRUE
      OBVIOUS
    <3>2. t \in Nat /\ t <= d
      BY <1>2, <3>1
    <3>3. QED
      BY <2>1, <3>1, <3>2
  <2>2. CASE d # 0
    <3>1. d \in Nat /\ d - 1 \in Nat
      BY <2>2
    <3>2. d - 1 \notin Above
      BY <1>2, <3>1
    <3>3. QED
      BY <1>2, <3>1, <3>2
  <2>3. QED
    BY <2>1, <2>2
<1>4. \A y \in T : y <= d
  BY <1>2
<1>5. QED
  BY <1>3, <1>4 DEF Max

Span == {s \in [first : Nat, last : Nat] : s.first <= s.last}

(* Spans of samples from low to high merge into one that covers each of     *)
(* them and goes no further.                                                *)
LEMMA Merged ==
    ASSUME NEW spans, spans \subseteq Span, spans # {}, NEW low \in Nat, NEW high \in Nat,
           \A s \in spans : low <= s.first /\ s.last <= high
    PROVE  /\ Merge(spans) \in Span
           /\ \A s \in spans : Covers(Merge(spans), s)
           /\ low <= Merge(spans).first /\ Merge(spans).last <= high
           /\ \E s \in spans : Merge(spans).last = s.last
<1> DEFINE firsts == {s.first : s \in spans}
           lasts == {s.last : s \in spans}
<1>1. firsts \subseteq Nat /\ firsts # {} /\ lasts \subseteq Nat /\ lasts # {}
  BY DEF Span
<1>2. \A x \in lasts : x <= high
  OBVIOUS
<1>3. Min(firsts) \in firsts /\ \A y \in firsts : Min(firsts) <= y
  BY <1>1, MinOf
<1>4. Max(lasts) \in lasts /\ \A y \in lasts : y <= Max(lasts)
  BY <1>1, <1>2, MaxOf
<1> DEFINE merged == [first |-> Min(firsts), last |-> Max(lasts)]
<1>5. merged = Merge(spans)
  BY DEF Merge
<1>6. \A s \in spans : merged.first <= s.first /\ s.last <= merged.last
  BY <1>3, <1>4
<1>7. low <= merged.first /\ merged.last <= high
  BY <1>3, <1>4
<1>8. merged \in Span
  <2>1. merged.first \in Nat /\ merged.last \in Nat
    BY <1>1, <1>3, <1>4
  <2>2. PICK s \in spans : TRUE
    OBVIOUS
  <2>3. s.first \in Nat /\ s.last \in Nat /\ s.first <= s.last
    BY <2>2 DEF Span
  <2>4. merged.first <= s.first /\ s.last <= merged.last
    BY <1>6, <2>2, Zenon
  <2> HIDE DEF merged
  <2>5. merged.first <= merged.last
    BY <2>1, <2>3, <2>4
  <2>6. QED
    BY <2>1, <2>5 DEF Span, merged
<1>9. \E s \in spans : merged.last = s.last
  BY <1>4
<1> HIDE DEF merged
<1>10. QED
  BY <1>5, <1>6, <1>7, <1>8, <1>9 DEF Covers

-----------------------------------------------------------------------------
(* Rows of fields *)

(* EmitField draws it as one frame, and does not look at its children.      *)
Flat(f) == ~ChildrenAreSeparateBytes(f)

(* Of two fields with a span the later one is of later bytes, or they are   *)
(* two that one byte is read into, both are drawn as they are, and the      *)
(* later one neither begins nor ends earlier.                               *)
InOrder(a, b) ==
    HasSpan(a) /\ HasSpan(b) => a.first <= b.first /\ a.last <= b.last

Shared(f, g) == {f.name, g.name} \in SharedBytes

Follows(f, g) ==
    \/ ~HasSpan(f.span) \/ ~HasSpan(g.span)
    \/ f.span.last < g.span.first
    \/ Flat(f) /\ Flat(g) /\ InOrder(f.span, g.span) /\ Shared(f, g)

Ordered(row) == \A i, j \in 1..Len(row) : i < j => Follows(row[i], row[j])

(* Of the units after the first from, up to the first to. *)
Inside(span, from, to) == HasSpan(span) => 2 * from < span.first /\ span.last <= 2 * to

Row(S, row, from, to) ==
    /\ row \in Seq(S)
    /\ Ordered(row)
    /\ \A i \in 1..Len(row) : Inside(row[i].span, from, to)

(* A set of fields: what a row may be made of. *)
Fields(S) == \A f \in S : f.span \in Span

LEMMA InsideMore ==
    ASSUME NEW span \in Span, NEW from \in Nat, NEW to \in Nat, NEW low \in 0..from,
           NEW high \in Nat, to <= high, Inside(span, from, to)
    PROVE  Inside(span, low, high)
BY DEF Inside, HasSpan, Span

LEMMA EmptyRow ==
    ASSUME NEW S, NEW from, NEW to
    PROVE  Row(S, << >>, from, to)
BY DEF Row, Ordered

LEMMA OneInRow ==
    ASSUME NEW S, NEW f \in S, NEW from, NEW to, Inside(f.span, from, to)
    PROVE  Row(S, <<f>>, from, to)
BY DEF Row, Ordered

LEMMA RowOfMore ==
    ASSUME NEW S, Fields(S), NEW row, NEW from \in Nat, NEW to \in Nat, NEW low \in 0..from,
           NEW high \in Nat, to <= high, Row(S, row, from, to)
    PROVE  Row(S, row, low, high)
<1>1. \A i \in 1..Len(row) : row[i].span \in Span
  BY DEF Row, Fields
<1>2. QED
  BY <1>1, InsideMore DEF Row

LEMMA RowOfLarger ==
    ASSUME NEW S, NEW T, S \subseteq T, NEW row, NEW from, NEW to, Row(S, row, from, to)
    PROVE  Row(T, row, from, to)
BY SeqMonotonic DEF Row

LEMMA LaterUnits ==
    ASSUME NEW f, NEW g, f.span \in Span, g.span \in Span, NEW from \in Nat, NEW mid \in Nat,
           NEW to \in Nat, Inside(f.span, from, mid), Inside(g.span, mid, to)
    PROVE  Follows(f, g)
BY DEF Follows, Inside, HasSpan, Span

(* Two rows, the second of later bytes, make one. *)
LEMMA RowsJoined ==
    ASSUME NEW S, Fields(S), NEW a, NEW b, NEW from \in Nat, NEW mid \in Nat, NEW to \in Nat,
           from <= mid, mid <= to, Row(S, a, from, mid), Row(S, b, mid, to)
    PROVE  Row(S, a \o b, from, to)
<1>1. /\ a \o b \in Seq(S)
      /\ Len(a \o b) = Len(a) + Len(b) /\ Len(a) \in Nat /\ Len(b) \in Nat
      /\ \A i \in 1..Len(a) : (a \o b)[i] = a[i]
      /\ \A i \in Len(a) + 1..Len(a) + Len(b) : (a \o b)[i] = b[i - Len(a)]
  BY DEF Row
<1>2. /\ \A i \in 1..Len(a) : a[i] \in S /\ a[i].span \in Span /\ Inside(a[i].span, from, mid)
      /\ \A i \in 1..Len(b) : b[i] \in S /\ b[i].span \in Span /\ Inside(b[i].span, mid, to)
  BY DEF Row, Fields
<1>3. \A i \in 1..Len(a), j \in 1..Len(b) : Follows(a[i], b[j])
  BY <1>2, LaterUnits
<1>4. Ordered(a \o b)
  <2> SUFFICES ASSUME NEW i \in 1..Len(a \o b), NEW j \in 1..Len(a \o b), i < j
               PROVE  Follows((a \o b)[i], (a \o b)[j])
    BY DEF Ordered
  <2>1. CASE j <= Len(a)
    <3>1. i \in 1..Len(a) /\ j \in 1..Len(a)
      BY <1>1, <2>1
    <3>2. QED
      BY <1>1, <3>1 DEF Row, Ordered
  <2>2. CASE i <= Len(a) /\ j > Len(a)
    <3>1. i \in 1..Len(a) /\ j \in Len(a) + 1..Len(a) + Len(b) /\ j - Len(a) \in 1..Len(b)
      BY <1>1, <2>2
    <3>2. QED
      BY <1>1, <1>3, <3>1
  <2>3. CASE i > Len(a)
    <3>1. /\ i \in Len(a) + 1..Len(a) + Len(b) /\ j \in Len(a) + 1..Len(a) + Len(b)
          /\ i - Len(a) \in 1..Len(b) /\ j - Len(a) \in 1..Len(b) /\ i - Len(a) < j - Len(a)
      BY <1>1, <2>3
    <3>2. QED
      BY <1>1, <3>1 DEF Row, Ordered
  <2>4. QED
    BY <1>1, <2>1, <2>2, <2>3
<1>5. \A i \in 1..Len(a \o b) : Inside((a \o b)[i].span, from, to)
  <2> SUFFICES ASSUME NEW i \in 1..Len(a \o b)
               PROVE  Inside((a \o b)[i].span, from, to)
    OBVIOUS
  <2>1. CASE i <= Len(a)
    BY <1>1, <1>2, <2>1, InsideMore
  <2>2. CASE i > Len(a)
    <3>1. i \in Len(a) + 1..Len(a) + Len(b) /\ i - Len(a) \in 1..Len(b)
      BY <1>1, <2>2
    <3>2. QED
      BY <1>1, <1>2, <3>1, InsideMore
  <2>3. QED
    BY <1>1, <2>1, <2>2
<1>6. QED
  BY <1>1, <1>4, <1>5 DEF Row

(* What has been read of a row is one. *)
LEMMA RowCut ==
    ASSUME NEW S, NEW row, NEW from, NEW to, Row(S, row, from, to), NEW k \in 0..Len(row)
    PROVE  Row(S, SubSeq(row, 1, k), from, to)
<1>1. /\ SubSeq(row, 1, k) \in Seq(S) /\ Len(SubSeq(row, 1, k)) = k
      /\ \A i \in 1..k : SubSeq(row, 1, k)[i] = row[i] /\ i \in 1..Len(row)
  BY DEF Row
<1>2. QED
  BY <1>1 DEF Row, Ordered

-----------------------------------------------------------------------------
(* Fields *)

(* Field::Add: a field covers the children that have a span. That they come *)
(* in order is what EmitField needs of those it visits.                     *)
Fits(f) ==
    /\ ~Flat(f) => Ordered(f.children)
    /\ \A i \in 1..Len(f.children) :
           LET child == f.children[i]
           IN  HasSpan(child.span) => HasSpan(f.span) /\ Covers(f.span, child.span)

Name ==
    {"Command", "TAR", "Response", "Session", "IoMode", "Opcode", "RequestLength", "Ignored",
     "ResetPattern", "RegisterReset", "Address", "Data", "Status", "VirtualWirePacket", "Count",
     "Reserved", "Index", "CycleType", "Tag", "Length", "MessageCode", "MessageSpecificByte",
     "SmbusPacket", "TargetAddress", "CommandOpcode", "ByteCount", "SmbusByteCount",
     "MctpHeader", "Pec", "RegisterField", "ChannelSupported", "Bits", "CRC", "WAIT_STATE"}

Node(S) == {f \in [name : Name, span : Span, children : Seq(S)] : Fits(f)}

(* It is drawn, or its children are and every sample of it is under one of  *)
(* them, or it is one of those whose own bytes are lost.                    *)
Under(f, sample) == HasSpan(f.span) /\ f.span.first <= sample /\ sample <= f.span.last

Kept(f, sample) == Under(f, sample) /\ f.name \notin Lost

Tiled(f) ==
    \/ Flat(f)
    \/ f.name \in Lost
    \/ \A sample \in Nat : Under(f, sample) =>
           \E i \in 1..Len(f.children) : Kept(f.children[i], sample)

Whole(S) == {f \in Node(S) : Tiled(f)}

(* Fields with no level below them, with one, with two; and a phase.        *)
Cell == Node({})
Explanation == Whole(Cell)
Part == Whole(Explanation)
Phase == Node(Part)

LEMMA Names ==
    /\ "Command" \in Name /\ "TAR" \in Name /\ "Response" \in Name /\ "Session" \in Name
    /\ "IoMode" \in Name /\ "Opcode" \in Name /\ "RequestLength" \in Name
    /\ "Ignored" \in Name /\ "ResetPattern" \in Name /\ "RegisterReset" \in Name
    /\ "Address" \in Name /\ "Data" \in Name /\ "Status" \in Name
    /\ "VirtualWirePacket" \in Name /\ "Count" \in Name /\ "Reserved" \in Name
    /\ "Index" \in Name /\ "CycleType" \in Name /\ "Tag" \in Name /\ "Length" \in Name
    /\ "MessageCode" \in Name /\ "MessageSpecificByte" \in Name /\ "SmbusPacket" \in Name
    /\ "TargetAddress" \in Name /\ "CommandOpcode" \in Name /\ "ByteCount" \in Name
    /\ "SmbusByteCount" \in Name /\ "MctpHeader" \in Name /\ "Pec" \in Name
    /\ "RegisterField" \in Name /\ "ChannelSupported" \in Name /\ "Bits" \in Name
    /\ "CRC" \in Name /\ "WAIT_STATE" \in Name
BY DEF Name

(* One byte is read into each of these pairs. *)
LEMMA SharedPairs ==
    /\ {"Opcode", "RequestLength"} \in SharedBytes /\ {"Tag", "Length"} \in SharedBytes
    /\ {"Count", "Reserved"} \in SharedBytes
    /\ {"MessageSpecificByte", "MessageSpecificByte"} \in SharedBytes
    /\ {"TargetAddress", "CommandOpcode"} \in SharedBytes
    /\ {"TargetAddress", "ByteCount"} \in SharedBytes
    /\ {"CommandOpcode", "ByteCount"} \in SharedBytes
    /\ {"TargetAddress", "MctpHeader"} \in SharedBytes
    /\ {"CommandOpcode", "MctpHeader"} \in SharedBytes
    /\ {"ByteCount", "MctpHeader"} \in SharedBytes
<1>1. {"MessageSpecificByte", "MessageSpecificByte"} = {"MessageSpecificByte"}
  OBVIOUS
<1>2. QED
  BY <1>1, Zenon DEF SharedBytes

LEMMA NodeForm ==
    ASSUME NEW S, NEW f \in Node(S)
    PROVE  /\ f = [name |-> f.name, span |-> f.span, children |-> f.children]
           /\ f.name \in Name /\ f.span \in Span /\ f.children \in Seq(S)
           /\ Fits(f)
BY DEF Node

LEMMA NodesAreFields == ASSUME NEW S PROVE Fields(Node(S)) /\ Fields(Whole(S))
BY DEF Node, Whole, Fields

LEMMA FlatIsWhole ==
    ASSUME NEW S, NEW f \in Node(S), Flat(f) \/ f.name \in Lost
    PROVE  f \in Whole(S)
BY DEF Whole, Tiled

LEMMA NodesOfMore == ASSUME NEW S, NEW T, S \subseteq T PROVE Node(S) \subseteq Node(T)
BY SeqMonotonic DEF Node

LEMMA CellsAreFlat == \A f \in Cell : Flat(f) /\ f.children = << >>
<1> SUFFICES ASSUME NEW f \in Cell
             PROVE  Flat(f) /\ f.children = << >>
  OBVIOUS
<1>1. f.children \in Seq({})
  BY DEF Cell, Node
<1>2. f.children = << >>
  BY <1>1
<1>3. QED
  BY <1>2 DEF Flat, ChildrenAreSeparateBytes

LEMMA Levels == Cell \subseteq Explanation /\ Explanation \subseteq Part /\ Part \subseteq Phase
<1>1. Cell \subseteq Explanation
  <2>1. Cell \subseteq Node(Cell)
    BY NodesOfMore DEF Cell
  <2>2. QED
    BY <2>1, CellsAreFlat, FlatIsWhole DEF Explanation
<1>2. Explanation \subseteq Part
  BY <1>1, NodesOfMore DEF Explanation, Part, Whole
<1>3. QED
  BY <1>1, <1>2, NodesOfMore DEF Part, Phase, Whole

(* A new field has no children. *)
LEMMA NewField ==
    ASSUME NEW S, NEW name \in Name, NEW span \in Span
    PROVE  /\ Field(name, span) \in Node(S)
           /\ Field(name, span).name = name /\ Field(name, span).span = span
           /\ Field(name, span).children = << >>
           /\ Flat(Field(name, span))
<1>1. << >> \in Seq(S) /\ Len(<< >>) = 0 /\ DOMAIN << >> = {}
  OBVIOUS
<1>2. /\ Field(name, span).name = name /\ Field(name, span).span = span
      /\ Field(name, span).children = << >>
      /\ Field(name, span) \in [name : Name, span : Span, children : Seq(S)]
  BY <1>1 DEF Field
<1>3. QED
  BY <1>1, <1>2 DEF Node, Fits, Ordered, Flat, ChildrenAreSeparateBytes

(* Where the span of a field that was given children ends. *)
EndsWith(span, own, more) ==
    \/ HasSpan(own) /\ span.last = own.last
    \/ \E i \in 1..Len(more) : HasSpan(more[i].span) /\ span.last = more[i].span.last

(* What Add keeps: a field of the units from from to to goes on to cover    *)
(* its children when it is given more of those units that follow them.      *)
LEMMA Grown ==
    ASSUME NEW S, Fields(S), NEW f \in Node(S), NEW more,
           NEW from \in Nat, NEW to \in Nat, Inside(f.span, from, to),
           Row(S, f.children \o more, from, to), more \in Seq(S)
    PROVE  LET g == AddAll(f, more)
           IN  /\ g \in Node(S)
               /\ g.name = f.name /\ g.children = f.children \o more
               /\ Inside(g.span, from, to)
               /\ HasSpan(f.span) => HasSpan(g.span) /\ Covers(g.span, f.span)
               /\ HasSpan(g.span) => EndsWith(g.span, f.span, more)
<1> DEFINE spans == {s \in {f.span} \cup {more[i].span : i \in DOMAIN more} : HasSpan(s)}
           span == IF spans = {} THEN f.span ELSE Merge(spans)
           all == f.children \o more
           g == [name |-> f.name, span |-> span, children |-> all]
<1>1. /\ f = [name |-> f.name, span |-> f.span, children |-> f.children]
      /\ f.name \in Name /\ f.span \in Span /\ f.children \in Seq(S) /\ Fits(f)
  BY NodeForm
<1>2. AddAll(f, more) = g
  BY DEF AddAll
<1>3. /\ Len(all) = Len(f.children) + Len(more) /\ Len(f.children) \in Nat /\ Len(more) \in Nat
      /\ DOMAIN more = 1..Len(more)
      /\ \A i \in 1..Len(f.children) : all[i] = f.children[i]
      /\ \A i \in 1..Len(more) : all[Len(f.children) + i] = more[i]
      /\ \A i \in Len(f.children) + 1..Len(all) :
             i - Len(f.children) \in 1..Len(more) /\ all[i] = more[i - Len(f.children)]
  BY <1>1
<1>4. \A i \in 1..Len(all) : all[i].span \in Span /\ Inside(all[i].span, from, to)
  BY DEF Row, Fields
<1>5. \A i \in 1..Len(more) : more[i].span \in Span /\ Inside(more[i].span, from, to)
  <2> SUFFICES ASSUME NEW i \in 1..Len(more)
               PROVE  more[i].span \in Span /\ Inside(more[i].span, from, to)
    OBVIOUS
  <2>1. Len(f.children) + i \in 1..Len(all) /\ all[Len(f.children) + i] = more[i]
    BY <1>3
  <2>2. QED
    BY <1>4, <2>1
<1>6. spans \subseteq Span /\ \A s \in spans : HasSpan(s) /\ Inside(s, from, to)
  BY <1>1, <1>3, <1>5
<1>7. /\ span \in Span /\ Inside(span, from, to)
      /\ \A s \in spans : HasSpan(span) /\ Covers(span, s)
  <2> HIDE DEF spans
  <2>1. CASE spans = {}
    BY <1>1, <2>1
  <2>2. CASE spans # {}
    <3>1. \A s \in spans : 2 * from + 1 <= s.first /\ s.last <= 2 * to
      BY <1>6 DEF Inside, Span
    <3>2. /\ Merge(spans) \in Span /\ \A s \in spans : Covers(Merge(spans), s)
          /\ 2 * from + 1 <= Merge(spans).first /\ Merge(spans).last <= 2 * to
      BY <1>6, <2>2, <3>1, Merged
    <3>3. \A s \in spans : HasSpan(Merge(spans))
      BY <1>6, <3>2 DEF HasSpan, Covers, Span
    <3>4. QED
      BY <2>2, <3>2, <3>3 DEF Inside, Span
  <2>3. QED
    BY <2>1, <2>2
<1>8. HasSpan(f.span) => HasSpan(span) /\ Covers(span, f.span)
  BY <1>7
<1>13. HasSpan(span) => EndsWith(span, f.span, more)
  <2> HIDE DEF spans
  <2>1. CASE spans = {}
    BY <1>1, <2>1 DEF EndsWith
  <2>2. CASE spans # {}
    <3>1. \A s \in spans : 2 * from + 1 <= s.first /\ s.last <= 2 * to
      BY <1>6 DEF Inside, Span
    <3>2. \E s \in spans : Merge(spans).last = s.last
      BY <1>6, <2>2, <3>1, Merged, SMTT(30)
    <3>3. PICK s \in spans : span.last = s.last
      BY <2>2, <3>2
    <3>4. HasSpan(s) /\ (s = f.span \/ \E i \in 1..Len(more) : s = more[i].span)
      BY <1>3 DEF spans
    <3>5. QED
      BY <3>3, <3>4 DEF EndsWith
  <2>3. QED
    BY <2>1, <2>2
<1>9. Fits(g)
  <2>1. Ordered(all)
    BY DEF Row
  <2>2. ASSUME NEW i \in 1..Len(all), HasSpan(all[i].span)
        PROVE  HasSpan(span) /\ Covers(span, all[i].span)
    <3>1. CASE i <= Len(f.children)
      <4>1. i \in 1..Len(f.children) /\ all[i] = f.children[i]
        BY <1>3, <3>1
      <4>2. HasSpan(f.span) /\ Covers(f.span, all[i].span)
        BY <1>1, <2>2, <4>1 DEF Fits
      <4>3. HasSpan(span) /\ Covers(span, f.span)
        BY <1>8, <4>2
      <4> HIDE DEF span, all
      <4>4. Covers(span, all[i].span)
        BY <1>1, <1>4, <1>7, <4>2, <4>3 DEF Covers, Span
      <4>5. QED
        BY <4>3, <4>4
    <3>2. CASE i > Len(f.children)
      <4>1. i - Len(f.children) \in 1..Len(more) /\ all[i] = more[i - Len(f.children)]
        BY <1>3, <3>2
      <4>2. all[i].span \in spans
        BY <1>3, <2>2, <4>1
      <4>3. QED
        BY <1>7, <4>2
    <3>3. QED
      BY <1>3, <3>1, <3>2, SMTT(30)
  <2>3. QED
    BY <2>1, <2>2 DEF Fits
<1>10. g \in Node(S)
  BY <1>1, <1>7, <1>9 DEF Node, Row
<1>11. g.name = f.name /\ g.span = span /\ g.children = all
  OBVIOUS
<1> HIDE DEF g, span, all
<1>12. QED
  BY <1>2, <1>7, <1>8, <1>10, <1>11, <1>13 DEF all

(* A field made with a span and given children of the same units. *)
LEMMA Made ==
    ASSUME NEW S, Fields(S), NEW name \in Name, NEW span \in Span, NEW from \in Nat,
           NEW to \in Nat, Inside(span, from, to), NEW more, Row(S, more, from, to)
    PROVE  LET g == AddAll(Field(name, span), more)
           IN  /\ g \in Node(S)
               /\ g.name = name /\ g.children = more
               /\ Inside(g.span, from, to)
               /\ HasSpan(span) => HasSpan(g.span) /\ Covers(g.span, span)
               /\ HasSpan(g.span) => EndsWith(g.span, span, more)
<1> DEFINE f == Field(name, span)
<1>1. f \in Node(S) /\ f.name = name /\ f.span = span /\ f.children = << >>
  BY NewField
<1>2. more \in Seq(S) /\ f.children \o more = more
  BY <1>1 DEF Row
<1> HIDE DEF f
<1>3. /\ AddAll(f, more) \in Node(S)
      /\ AddAll(f, more).name = f.name /\ AddAll(f, more).children = f.children \o more
      /\ Inside(AddAll(f, more).span, from, to)
      /\ HasSpan(f.span) => HasSpan(AddAll(f, more).span) /\ Covers(AddAll(f, more).span, f.span)
      /\ HasSpan(AddAll(f, more).span) => EndsWith(AddAll(f, more).span, f.span, more)
  BY <1>1, <1>2, Grown
<1>4. QED
  BY <1>1, <1>2, <1>3 DEF f

LEMMA NoSpanForm == NoSpan \in Span /\ ~HasSpan(NoSpan) /\ \A from, to : Inside(NoSpan, from, to)
BY DEF NoSpan, Span, HasSpan, Inside

LEMMA FieldName == \A name, span : Field(name, span).name = name
BY DEF Field

LEMMA UnitsForm ==
    ASSUME NEW from \in Nat, NEW n \in Nat
    PROVE  /\ Units(from, n) \in Span /\ Inside(Units(from, n), from, from + n)
           /\ n # 0 => /\ HasSpan(Units(from, n))
                       /\ Units(from, n).first = 2 * from + 1
                       /\ Units(from, n).last = 2 * (from + n)
<1>1. CASE n = 0
  BY <1>1, NoSpanForm DEF Units
<1>2. CASE n # 0
  BY <1>2 DEF Units, Span, HasSpan, Inside
<1>3. QED
  BY <1>1, <1>2

(* Two flat fields, of which the later neither begins nor ends earlier.     *)
LEMMA TwoInRow ==
    ASSUME NEW S, NEW f \in S, NEW g \in S, Flat(f), Flat(g), InOrder(f.span, g.span),
           Shared(f, g), NEW from, NEW to, Inside(f.span, from, to), Inside(g.span, from, to)
    PROVE  Row(S, <<f, g>>, from, to)
BY DEF Row, Ordered, Follows

LEMMA SpanInOrder == \A span \in Span : InOrder(span, span)
BY DEF InOrder, Span

(* A field explained by others with its span keeps it, and is drawn alone.  *)
LEMMA SameSpan ==
    ASSUME NEW S, NEW name \in Name, NEW span \in Span, NEW a \in S, NEW b \in S,
           a.span = span, b.span = span
    PROVE  LET g == AddAll(Field(name, span), <<a, b>>)
           IN  g \in Node(S) /\ g.name = name /\ g.span = span /\ Flat(g)
<1> DEFINE own == Field(name, span)
           spans == {s \in {own.span} \cup {<<a, b>>[i].span : i \in DOMAIN <<a, b>>} :
                         HasSpan(s)}
           g == AddAll(own, <<a, b>>)
<1>2. own.name = name /\ own.span = span /\ own.children = << >>
  BY NewField
<1>3. g = [name |-> own.name, span |-> IF spans = {} THEN own.span ELSE Merge(spans),
           children |-> own.children \o <<a, b>>]
  BY DEF AddAll
<1> HIDE DEF own
<1>4. spans = IF HasSpan(span) THEN {span} ELSE {}
  BY <1>2
<1> HIDE DEF spans, g
<1>5. g.span = span
  <2>1. CASE HasSpan(span)
    <3>1. Merge({span}) \in Span /\ Covers(Merge({span}), span)
          /\ span.first <= Merge({span}).first /\ Merge({span}).last <= span.last
      BY Merged DEF Span
    <3>2. Merge({span}) = span
      BY <3>1 DEF Covers, Span
    <3>3. spans = {span} /\ spans # {}
      BY <1>4, <2>1
    <3>4. QED
      BY <1>3, <3>2, <3>3
  <2>2. CASE ~HasSpan(span)
    BY <1>2, <1>3, <1>4, <2>2
  <2>3. QED
    BY <2>1, <2>2
<1>6. g.name = name /\ g.children = <<a, b>>
  BY <1>2, <1>3
<1>7. Flat(g)
  BY <1>5, <1>6 DEF Flat, ChildrenAreSeparateBytes
<1>8. g \in Node(S)
  <2>1. Covers(span, span)
    BY DEF Covers, Span
  <2>2. Fits(g)
    BY <1>5, <1>6, <1>7, <2>1 DEF Fits
  <2>3. g = [name |-> name, span |-> span, children |-> <<a, b>>]
    BY <1>3, <1>5, <1>6
  <2>4. <<a, b>> \in Seq(S)
    OBVIOUS
  <2>5. QED
    BY <2>2, <2>3, <2>4 DEF Node
<1>9. QED
  BY <1>5, <1>6, <1>7, <1>8 DEF g, own

LEMMA ExplainedForm ==
    ASSUME NEW name \in Name, NEW span \in Span
    PROVE  /\ Explained(name, span) \in Explanation
           /\ Explained(name, span).name = name
           /\ Explained(name, span).span = span
           /\ Flat(Explained(name, span))
<1> DEFINE bit == Field("Bits", span)
<1>1. "Bits" \in Name
  BY Names
<1>2. bit \in Cell /\ bit.span = span
  BY <1>1, NewField, Zenon DEF Cell
<1>3. Explained(name, span) = AddAll(Field(name, span), <<bit, bit>>)
  BY DEF Explained
<1> HIDE DEF bit
<1>4. QED
  BY <1>2, <1>3, SameSpan, FlatIsWhole DEF Explanation

-----------------------------------------------------------------------------
(* Rows without gaps *)

(* Each field with a span begins with the units after the first from, or    *)
(* where an earlier one ends at the latest, and is none of the lost.        *)
Chained(row, from) ==
    \A i \in 1..Len(row) : HasSpan(row[i].span) =>
        /\ row[i].name \notin Lost
        /\ \/ row[i].span.first <= 2 * from + 1
           \/ \E j \in 1..i - 1 :
                  HasSpan(row[j].span) /\ row[i].span.first <= row[j].span.last + 1

Reaches(row, from, to) ==
    from = to \/ \E i \in 1..Len(row) : HasSpan(row[i].span) /\ row[i].span.last >= 2 * to

Tiles(row, from, to) == Chained(row, from) /\ Reaches(row, from, to)

(* Up to where any of its fields ends such a row keeps every sample: the    *)
(* first field that ends no earlier than the sample has it.                 *)
LEMMA ChainKeeps ==
    ASSUME NEW S, Fields(S), NEW row \in Seq(S), NEW from \in Nat, Chained(row, from),
           NEW k \in 1..Len(row), HasSpan(row[k].span),
           NEW sample \in Nat, 2 * from < sample, sample <= row[k].span.last
    PROVE  \E i \in 1..Len(row) : Kept(row[i], sample)
<1> DEFINE T == {i \in 1..Len(row) : HasSpan(row[i].span) /\ sample <= row[i].span.last}
<1>1. T \subseteq Nat /\ k \in T
  OBVIOUS
<1>2. PICK i \in T : \A j \in T : i <= j
  BY <1>1, SmallestOf
<1>3. \A j \in 1..Len(row) : row[j].span.first \in Nat /\ row[j].span.last \in Nat
  BY DEF Fields, Span
<1>4. row[i].span.first <= sample
  <2>1. CASE row[i].span.first <= 2 * from + 1
    BY <1>2, <1>3, <2>1
  <2>2. CASE \E j \in 1..i - 1 :
                 HasSpan(row[j].span) /\ row[i].span.first <= row[j].span.last + 1
    <3>1. PICK j \in 1..i - 1 :
              HasSpan(row[j].span) /\ row[i].span.first <= row[j].span.last + 1
      BY <2>2
    <3>2. j \in 1..Len(row) /\ i \in 1..Len(row) /\ j < i
      BY <1>2
    <3>3. j \notin T
      BY <1>2, <3>2
    <3>4. row[j].span.last < sample
      BY <1>3, <3>1, <3>2, <3>3
    <3>5. QED
      BY <1>3, <3>1, <3>2, <3>4, SMTT(30)
  <2>3. QED
    BY <1>2, <2>1, <2>2 DEF Chained
<1>5. row[i].name \notin Lost
  BY <1>2 DEF Chained
<1>6. QED
  BY <1>2, <1>4, <1>5 DEF Kept, Under

(* A field made with a span that such a row goes up to, and given its       *)
(* fields, is tiled by them.                                                *)
LEMMA MadeWhole ==
    ASSUME NEW S, Fields(S), NEW name \in Name, NEW span \in Span, NEW from \in Nat,
           NEW to \in Nat, Inside(span, from, to), NEW more, Row(S, more, from, to),
           Chained(more, from),
           \E i \in 1..Len(more) : HasSpan(more[i].span) /\ span.last <= more[i].span.last
    PROVE  AddAll(Field(name, span), more) \in Whole(S)
<1> DEFINE g == AddAll(Field(name, span), more)
<1>1. /\ g \in Node(S)
      /\ g.name = name /\ g.children = more
      /\ Inside(g.span, from, to)
      /\ HasSpan(span) => HasSpan(g.span) /\ Covers(g.span, span)
      /\ HasSpan(g.span) => EndsWith(g.span, span, more)
  BY Made
<1>2. more \in Seq(S) /\ \A i \in 1..Len(more) : more[i].span \in Span
  BY DEF Row, Fields
<1> HIDE DEF g
<1>3. ASSUME NEW sample \in Nat, Under(g, sample)
      PROVE  \E i \in 1..Len(g.children) : Kept(g.children[i], sample)
  <2>1. /\ HasSpan(g.span) /\ g.span.first <= sample /\ sample <= g.span.last
        /\ g.span \in Span
    BY <1>1, <1>3 DEF Under, Node
  <2>2. 2 * from < sample
    BY <1>1, <2>1 DEF Inside, Span
  <2>3. PICK k \in 1..Len(more) : HasSpan(more[k].span) /\ g.span.last <= more[k].span.last
    <3>1. CASE HasSpan(span) /\ g.span.last = span.last
      BY <3>1
    <3>2. CASE \E i \in 1..Len(more) : HasSpan(more[i].span) /\ g.span.last = more[i].span.last
      BY <1>2, <3>2, SMTT(30) DEF Span
    <3>3. QED
      BY <1>1, <2>1, <3>1, <3>2 DEF EndsWith
  <2>4. sample <= more[k].span.last
    BY <1>2, <2>1, <2>3, SMTT(30) DEF Span
  <2>5. \E i \in 1..Len(more) : Kept(more[i], sample)
    BY <1>2, <2>2, <2>3, <2>4, ChainKeeps
  <2>6. QED
    BY <1>1, <2>5
<1>4. QED
  BY <1>1, <1>3 DEF Whole, Tiled, g

LEMMA NothingTiles == \A from : Tiles(<< >>, from, from)
BY DEF Tiles, Chained, Reaches

(* Fields of the same n bytes, or of none. *)
LEMMA SameBytesTile ==
    ASSUME NEW row, Len(row) \in Nat, NEW from \in Nat, NEW n \in Nat, n # 0,
           \A i \in 1..Len(row) : row[i].span \in {Units(from, n), NoSpan},
           \A i \in 1..Len(row) : row[i].name \notin Lost,
           NEW k \in 1..Len(row), row[k].span = Units(from, n)
    PROVE  Tiles(row, from, from + n)
<1>1. /\ HasSpan(Units(from, n)) /\ Units(from, n).first = 2 * from + 1
      /\ Units(from, n).last = 2 * (from + n)
  BY UnitsForm
<1>2. Chained(row, from)
  BY <1>1, NoSpanForm, SMTT(30) DEF Chained
<1>3. Reaches(row, from, from + n)
  <2>1. HasSpan(row[k].span) /\ row[k].span.last >= 2 * (from + n)
    BY <1>1
  <2>2. QED
    BY <2>1 DEF Reaches
<1>4. QED
  BY <1>2, <1>3 DEF Tiles

LEMMA OneTiles ==
    ASSUME NEW f, f.name \notin Lost, NEW from \in Nat, NEW n \in Nat, n # 0,
           f.span = Units(from, n)
    PROVE  Tiles(<<f>>, from, from + n)
<1>1. Len(<<f>>) = 1 /\ <<f>>[1] = f /\ 1 \in Nat
  OBVIOUS
<1>2. \A i \in 1..1 : i = 1
  OBVIOUS
<1> DEFINE row == <<f>>
<1> HIDE DEF row
<1>3. /\ Len(row) \in Nat /\ 1 \in 1..Len(row) /\ row[1].span = Units(from, n)
      /\ \A i \in 1..Len(row) : row[i].span = Units(from, n) /\ row[i].name \notin Lost
  BY <1>1, <1>2 DEF row
<1>4. Tiles(row, from, from + n)
  BY <1>3, SameBytesTile
<1>5. QED
  BY <1>4 DEF row

LEMMA TilesJoined ==
    ASSUME NEW S, Fields(S), NEW a \in Seq(S), NEW b \in Seq(S), NEW from \in Nat,
           NEW mid \in Nat, Tiles(a, from, mid), Chained(b, mid)
    PROVE  /\ Chained(a \o b, from)
           /\ \A to \in Nat : mid <= to /\ Reaches(b, mid, to) => Tiles(a \o b, from, to)
<1> DEFINE all == a \o b
<1>1. /\ Len(all) = Len(a) + Len(b) /\ Len(a) \in Nat /\ Len(b) \in Nat
      /\ \A i \in 1..Len(a) : all[i] = a[i] /\ i \in 1..Len(all)
      /\ \A i \in Len(a) + 1..Len(a) + Len(b) : all[i] = b[i - Len(a)]
      /\ \A i \in 1..Len(b) : all[Len(a) + i] = b[i] /\ Len(a) + i \in 1..Len(all)
  OBVIOUS
<1>2. /\ \A i \in 1..Len(a) : a[i].span.first \in Nat /\ a[i].span.last \in Nat
      /\ \A i \in 1..Len(b) : b[i].span.first \in Nat /\ b[i].span.last \in Nat
  BY DEF Fields, Span
<1> HIDE DEF all
<1>3. ASSUME NEW i \in 1..Len(all), HasSpan(all[i].span)
      PROVE  /\ all[i].name \notin Lost
             /\ \/ all[i].span.first <= 2 * from + 1
                \/ \E j \in 1..i - 1 :
                       HasSpan(all[j].span) /\ all[i].span.first <= all[j].span.last + 1
  <2>1. CASE i <= Len(a)
    <3>1. i \in 1..Len(a) /\ all[i] = a[i]
      BY <1>1, <2>1
    <3>2. \A j \in 1..i - 1 : j \in 1..Len(a) /\ all[j] = a[j]
      BY <1>1, <3>1
    <3>3. QED
      BY <1>3, <3>1, <3>2 DEF Tiles, Chained
  <2>2. CASE i > Len(a)
    <3>0. PICK m \in 1..Len(b) : i = Len(a) + m
      <4>1. i - Len(a) \in 1..Len(b) /\ i = Len(a) + (i - Len(a))
        BY <1>1, <2>2
      <4>2. QED
        BY <4>1
    <3>1. all[i] = b[m]
      BY <1>1, <3>0
    <3>2. all[i].name \notin Lost
      BY <1>3, <3>1 DEF Chained
    <3>3. CASE b[m].span.first <= 2 * mid + 1
      <4>1. CASE from = mid
        BY <3>1, <3>2, <3>3, <4>1
      <4>2. CASE from # mid
        <5>1. PICK j \in 1..Len(a) : HasSpan(a[j].span) /\ a[j].span.last >= 2 * mid
          BY <4>2 DEF Tiles, Reaches
        <5>2. j \in 1..i - 1 /\ all[j] = a[j]
          BY <1>1, <3>0, <5>1
        <5>3. b[m].span.first <= a[j].span.last + 1
          BY <1>2, <3>3, <5>1, SMTT(30)
        <5>4. QED
          BY <3>1, <3>2, <5>1, <5>2, <5>3
      <4>3. QED
        BY <4>1, <4>2
    <3>4. CASE \E j \in 1..m - 1 :
                   HasSpan(b[j].span) /\ b[m].span.first <= b[j].span.last + 1
      <4>1. PICK j \in 1..m - 1 :
                HasSpan(b[j].span) /\ b[m].span.first <= b[j].span.last + 1
        BY <3>4
      <4>2. Len(a) + j \in 1..i - 1 /\ j \in 1..Len(b)
        BY <1>1, <3>0, <4>1
      <4>3. all[Len(a) + j] = b[j]
        BY <1>1, <4>2
      <4>4. QED
        BY <3>1, <3>2, <4>1, <4>2, <4>3
    <3>5. QED
      BY <1>3, <3>1, <3>3, <3>4 DEF Chained
  <2>3. QED
    BY <1>1, <2>1, <2>2
<1>4. Chained(all, from)
  BY <1>3 DEF Chained
<1>5. ASSUME NEW to \in Nat, mid <= to, Reaches(b, mid, to)
      PROVE  Reaches(all, from, to)
  <2>1. CASE mid = to
    BY <1>1, <2>1 DEF Tiles, Reaches
  <2>2. CASE mid # to
    BY <1>1, <1>5, <2>2 DEF Reaches
  <2>3. QED
    BY <2>1, <2>2
<1>6. QED
  BY <1>4, <1>5 DEF Tiles, all

LEMMA ChainCut ==
    ASSUME NEW S, NEW row \in Seq(S), NEW from, Chained(row, from), NEW k \in 0..Len(row)
    PROVE  Chained(SubSeq(row, 1, k), from)
<1>1. /\ Len(SubSeq(row, 1, k)) = k
      /\ \A i \in 1..k : SubSeq(row, 1, k)[i] = row[i] /\ i \in 1..Len(row)
  OBVIOUS
<1>2. \A i \in 1..k : \A j \in 1..i - 1 : j \in 1..k
  OBVIOUS
<1>3. QED
  BY <1>1, <1>2 DEF Chained

-----------------------------------------------------------------------------
(* Elements *)

LEMMA PartsAreFields == Fields(Cell) /\ Fields(Explanation) /\ Fields(Part) /\ Fields(Phase)
BY NodesAreFields DEF Cell, Explanation, Part, Phase

(* Some fields of the n units after the first at. *)
LEMMA PartOf ==
    ASSUME NEW name \in Name, NEW from \in Nat, NEW n \in Nat
    PROVE  LET f == Field(name, Units(from, n))
           IN  /\ f \in Explanation /\ f \in Part /\ f.span = Units(from, n) /\ Flat(f)
               /\ Row(Explanation, <<f>>, from, from + n)
               /\ Row(Part, <<f>>, from, from + n)
<1> DEFINE f == Field(name, Units(from, n))
<1>1. Units(from, n) \in Span /\ Inside(Units(from, n), from, from + n)
  BY UnitsForm
<1>2. f \in Explanation /\ f \in Part /\ f.span = Units(from, n) /\ Flat(f)
  BY <1>1, NewField, FlatIsWhole DEF Explanation, Part
<1> HIDE DEF f
<1>3. Row(Explanation, <<f>>, from, from + n) /\ Row(Part, <<f>>, from, from + n)
  BY <1>1, <1>2, OneInRow
<1>4. QED
  BY <1>2, <1>3 DEF f

LEMMA ExplainedPartOf ==
    ASSUME NEW name \in Name, NEW from \in Nat, NEW n \in Nat
    PROVE  LET f == Explained(name, Units(from, n))
           IN  /\ f \in Explanation /\ f \in Part /\ f.span = Units(from, n) /\ Flat(f)
               /\ Row(Explanation, <<f>>, from, from + n)
               /\ Row(Part, <<f>>, from, from + n)
<1> DEFINE f == Explained(name, Units(from, n))
<1>1. Units(from, n) \in Span /\ Inside(Units(from, n), from, from + n)
  BY UnitsForm
<1>2. f \in Explanation /\ f.span = Units(from, n) /\ Flat(f)
  BY <1>1, ExplainedForm
<1>3. f \in Part
  BY <1>2, Levels
<1> HIDE DEF f
<1>4. Row(Explanation, <<f>>, from, from + n) /\ Row(Part, <<f>>, from, from + n)
  BY <1>1, <1>2, <1>3, OneInRow
<1>5. QED
  BY <1>2, <1>3, <1>4 DEF f

(* A configuration value's own children are explained in turn. *)
LEMMA ConfigPart ==
    ASSUME NEW from \in Nat, NEW n \in Nat
    PROVE  Row(Part, <<ConfigData(Units(from, n))>>, from, from + n)
<1> DEFINE span == Units(from, n)
           register == Field("RegisterField", span)
           channels == Explained("ChannelSupported", span)
           more == <<register, channels>>
<1>1. span \in Span /\ Inside(span, from, from + n)
  BY UnitsForm
<1>0. "RegisterField" \in Name /\ "ChannelSupported" \in Name /\ "Data" \in Name
  BY Names
<1>2. register \in Explanation /\ register.span = span /\ Flat(register)
  BY <1>0, PartOf
<1>3. channels \in Explanation /\ channels.span = span /\ Flat(channels)
  BY <1>0, ExplainedPartOf
<1>4. from + n \in Nat
  OBVIOUS
<1>5. ConfigData(span) = AddAll(Field("Data", span), more)
  BY DEF ConfigData
<1> HIDE DEF span, register, channels
<1>6. ConfigData(span) \in Part /\ ConfigData(span).span = span
  BY <1>0, <1>1, <1>2, <1>3, <1>5, SameSpan, FlatIsWhole DEF Part
<1>7. QED
  BY <1>1, <1>6, OneInRow DEF span

LEMMA FixedRow ==
    ASSUME NEW e \in Element, NEW from \in Nat
    PROVE  LET whole == FixedWhole(from, e)
           IN  whole.bytes \in Nat /\ Row(Part, whole.fields, from, from + whole.bytes)
<1> DEFINE n == ElementFixedSize(e)
           span == Units(from, n)
           field == CASE e = "Status16" -> StatusWord(span)
                      [] e = "Data32"   -> ConfigData(span)
                      [] OTHER          -> Field(ElementName(e), span)
<1>1. n \in Nat
  BY DEF ElementFixedSize, Element
<1>2. FixedWhole(from, e).bytes = n /\ FixedWhole(from, e).fields = <<field>>
  BY DEF FixedWhole, Reading
<1>3. ElementName(e) \in Name
  BY Names DEF ElementName
<1> HIDE DEF n
<1>4. CASE e = "Status16"
  BY <1>1, <1>2, <1>4, ExplainedPartOf, Names DEF StatusWord
<1>5. CASE e = "Data32"
  BY <1>1, <1>2, <1>5, ConfigPart
<1>6. CASE e \notin {"Status16", "Data32"}
  BY <1>1, <1>2, <1>3, <1>6, PartOf
<1>7. QED
  BY <1>4, <1>5, <1>6

LEMMA ShortRow ==
    ASSUME NEW length \in Nat, NEW from \in Nat
    PROVE  LET whole == ShortDataWhole(from, length)
           IN  whole.bytes \in Nat /\ Row(Part, whole.fields, from, from + whole.bytes)
BY PartOf, Names DEF ShortDataWhole, Reading

LEMMA VwireBytesRow ==
    ASSUME NEW from \in Nat, NEW n \in Nat
    PROVE  Row(Explanation, [i \in 1..n |-> VwireByte(from, i)], from + 1, from + 1 + n)
<1> DEFINE row == [i \in 1..n |-> VwireByte(from, i)]
<1>1. ASSUME NEW i \in 1..n
      PROVE  /\ VwireByte(from, i) \in Explanation /\ Flat(VwireByte(from, i))
             /\ VwireByte(from, i).span.first = 2 * (from + i) + 1
             /\ VwireByte(from, i).span.last = 2 * (from + i + 1)
  <2>1. from + i \in Nat /\ 1 \in Nat /\ 1 # 0
    OBVIOUS
  <2>2. /\ Units(from + i, 1).first = 2 * (from + i) + 1
        /\ Units(from + i, 1).last = 2 * (from + i + 1)
    BY <2>1, UnitsForm
  <2>3. "Index" \in Name /\ "Data" \in Name
    BY Names
  <2>4. LET f == Field("Index", Units(from + i, 1))
            g == Explained("Data", Units(from + i, 1))
        IN  /\ f \in Explanation /\ f.span = Units(from + i, 1) /\ Flat(f)
            /\ g \in Explanation /\ g.span = Units(from + i, 1) /\ Flat(g)
    BY <2>1, <2>3, PartOf, ExplainedPartOf, ZenonT(60)
  <2>5. QED
    BY <2>2, <2>4 DEF VwireByte
<1>2. row \in Seq(Explanation) /\ Len(row) = n /\ \A i \in 1..n : row[i] = VwireByte(from, i)
  BY <1>1
<1> HIDE DEF row
<1>3. ASSUME NEW i \in 1..n, NEW j \in 1..n, i < j
      PROVE  row[i].span.last < row[j].span.first
  <2>1. /\ row[i].span.last = 2 * (from + i + 1)
        /\ row[j].span.first = 2 * (from + j) + 1
    BY <1>1, <1>2
  <2>2. 2 * (from + i + 1) < 2 * (from + j) + 1
    BY <1>3
  <2>3. QED
    BY <2>1, <2>2
<1>4. \A i \in 1..n : Inside(row[i].span, from + 1, from + 1 + n)
  BY <1>1, <1>2 DEF Inside
<1>5. Ordered(row)
  <2> SUFFICES ASSUME NEW i \in 1..n, NEW j \in 1..n, i < j
               PROVE  Follows(row[i], row[j])
    BY <1>2, Zenon DEF Ordered
  <2>1. row[i].span.last < row[j].span.first
    BY <1>3
  <2>2. QED
    BY <2>1, Zenon DEF Follows
<1>6. QED
  BY <1>2, <1>4, <1>5 DEF Row, row

(* Each begins where the one before it ends. *)
LEMMA VwireBytesChained ==
    ASSUME NEW from \in Nat, NEW n \in Nat
    PROVE  Chained([i \in 1..n |-> VwireByte(from, i)], from + 1)
<1> DEFINE row == [i \in 1..n |-> VwireByte(from, i)]
<1>1. ASSUME NEW i \in 1..n
      PROVE  /\ HasSpan(VwireByte(from, i).span)
             /\ VwireByte(from, i).span.first = 2 * (from + i) + 1
             /\ VwireByte(from, i).span.last = 2 * (from + i + 1)
             /\ VwireByte(from, i).name \notin Lost
  <2>1. from + i \in Nat /\ 1 \in Nat /\ 1 # 0
    OBVIOUS
  <2>2. /\ HasSpan(Units(from + i, 1))
        /\ Units(from + i, 1).first = 2 * (from + i) + 1
        /\ Units(from + i, 1).last = 2 * (from + i + 1)
    BY <2>1, UnitsForm
  <2>3. "Index" \in Name /\ "Data" \in Name /\ Units(from + i, 1) \in Span
    BY <2>1, Names, UnitsForm
  <2>4. LET f == Field("Index", Units(from + i, 1))
            g == Explained("Data", Units(from + i, 1))
        IN  /\ f.span = Units(from + i, 1) /\ f.name = "Index"
            /\ g.span = Units(from + i, 1) /\ g.name = "Data"
    BY <2>3, NewField, ExplainedForm
  <2>5. "Index" \notin Lost /\ "Data" \notin Lost
    BY DEF Lost
  <2>6. QED
    BY <2>2, <2>4, <2>5 DEF VwireByte
<1>2. Len(row) = n /\ \A i \in 1..n : row[i] = VwireByte(from, i)
  OBVIOUS
<1> HIDE DEF row
<1>3. ASSUME NEW i \in 1..n
      PROVE  \/ row[i].span.first <= 2 * (from + 1) + 1
             \/ \E j \in 1..i - 1 :
                    HasSpan(row[j].span) /\ row[i].span.first <= row[j].span.last + 1
  <2>1. CASE i = 1
    BY <1>1, <1>2, <2>1
  <2>2. CASE i # 1
    <3>1. i - 1 \in 1..n /\ i - 1 \in 1..i - 1 /\ from + (i - 1) + 1 = from + i
      BY <2>2
    <3>2. row[i - 1].span.last = 2 * (from + i) /\ HasSpan(row[i - 1].span)
      BY <1>1, <1>2, <3>1
    <3>3. row[i].span.first = 2 * (from + i) + 1
      BY <1>1, <1>2
    <3>4. row[i].span.first <= row[i - 1].span.last + 1
      BY <3>2, <3>3
    <3>5. QED
      BY <3>1, <3>2, <3>4
  <2>3. QED
    BY <2>1, <2>2
<1>4. QED
  BY <1>1, <1>2, <1>3 DEF Chained, row

LEMMA VwireForm ==
    ASSUME NEW from \in Nat, NEW reserved \in BOOLEAN, NEW groups \in Nat
    PROVE  Row(Part, <<VwirePacket(from, reserved, groups)>>, from, from + (1 + 2 * groups))
<1> DEFINE span == Units(from, 1)
           count == Field("Count", span)
           extra == Field("Reserved", span)
           head == IF reserved THEN <<count, extra>> ELSE <<count>>
           tail == [i \in 1..2 * groups |-> VwireByte(from, i)]
           packet == VwirePacket(from, reserved, groups)
           end == from + 1 + 2 * groups
<1>1. "Count" \in Name /\ "Reserved" \in Name /\ "VirtualWirePacket" \in Name
  BY Names
<1>2. /\ count \in Explanation /\ count.span = span /\ Flat(count)
      /\ extra \in Explanation /\ extra.span = span /\ Flat(extra)
  BY <1>1, PartOf, ZenonT(60)
<1>14. count.name = "Count" /\ extra.name = "Reserved"
  BY FieldName
<1>3. span \in Span /\ Inside(span, from, from + 1)
  BY UnitsForm
<1>4. packet = AddAll(Field("VirtualWirePacket", span), head \o tail)
  BY Zenon DEF VwirePacket
<1>5. 2 * groups \in Nat /\ from + 1 \in Nat /\ end \in Nat /\ from + 1 <= end /\ from <= from + 1
  OBVIOUS
<1>6. Row(Explanation, tail, from + 1, end)
  BY <1>5, VwireBytesRow
<1> HIDE DEF count, extra, span, tail
<1>7. Row(Explanation, head, from, from + 1)
  <2>1. Shared(count, extra)
    BY <1>14, SharedPairs DEF Shared
  <2>2. QED
    BY <1>2, <1>3, <2>1, SpanInOrder, TwoInRow, OneInRow
<1> HIDE DEF head, end, packet
<1>8. Row(Explanation, head \o tail, from, end)
  BY <1>5, <1>6, <1>7, PartsAreFields, RowsJoined
<1>9. Inside(span, from, end)
  BY <1>3, <1>5, InsideMore
<1>15. Chained(head, from) /\ Reaches(head, from, from + 1) /\ "Count" \notin Lost
       /\ "Reserved" \notin Lost
  <2>1. "Count" \notin Lost /\ "Reserved" \notin Lost
    BY DEF Lost
  <2>2. Len(head) \in 1..2 /\ head[1] = count
        /\ \A i \in 1..Len(head) : head[i] \in {count, extra}
    BY DEF head
  <2>3. \A i \in 1..Len(head) : head[i].span = Units(from, 1) /\ head[i].name \notin Lost
    BY <1>2, <1>14, <2>1, <2>2 DEF span
  <2>4. Tiles(head, from, from + 1)
    BY <2>2, <2>3, SameBytesTile
  <2>5. QED
    BY <2>1, <2>4 DEF Tiles
<1>16. Chained(tail, from + 1)
  BY <1>5, VwireBytesChained DEF tail
<1>17. head \in Seq(Explanation) /\ tail \in Seq(Explanation)
  BY <1>6, <1>7 DEF Row
<1>18. Chained(head \o tail, from)
  BY <1>5, <1>15, <1>16, <1>17, PartsAreFields, TilesJoined DEF Tiles
<1>19. \E i \in 1..Len(head \o tail) :
           HasSpan((head \o tail)[i].span) /\ span.last <= (head \o tail)[i].span.last
  <2>1. (head \o tail)[1] = count /\ 1 \in 1..Len(head \o tail)
    BY <1>17 DEF head
  <2>2. HasSpan(span) /\ span.last <= span.last
    <3>1. 1 \in Nat /\ 1 # 0
      OBVIOUS
    <3>2. HasSpan(Units(from, 1)) /\ Units(from, 1).last = 2 * (from + 1)
      BY <3>1, UnitsForm
    <3>3. QED
      BY <3>2 DEF span
  <2>3. QED
    BY <1>2, <2>1, <2>2
<1>10. packet \in Part /\ Inside(packet.span, from, end)
  <2>1. packet \in Whole(Explanation)
    BY <1>1, <1>3, <1>4, <1>5, <1>8, <1>9, <1>18, <1>19, PartsAreFields, MadeWhole
  <2>2. Inside(packet.span, from, end)
    BY <1>1, <1>3, <1>4, <1>5, <1>8, <1>9, PartsAreFields, Made
  <2>3. QED
    BY <2>1, <2>2 DEF Part
<1>11. Row(Part, <<packet>>, from, end)
  BY <1>10, OneInRow
<1>12. end = from + (1 + 2 * groups)
  BY DEF end
<1>13. QED
  BY <1>11, <1>12 DEF packet

(* A virtual wire packet, or what is left of one. *)
LEMMA VwireRow ==
    ASSUME NEW from \in Nat, NEW groups \in Nat
    PROVE  /\ \A reserved \in BOOLEAN :
                  LET whole == VwireWhole(from, groups, reserved)
                  IN  whole.bytes \in Nat /\ Row(Part, whole.fields, from, from + whole.bytes)
           /\ \A part \in VwirePart(from, groups) :
                  \E n \in Nat : Row(Part, part, from, from + n)
<1>1. ASSUME NEW reserved \in BOOLEAN
      PROVE  LET whole == VwireWhole(from, groups, reserved)
             IN  whole.bytes \in Nat /\ Row(Part, whole.fields, from, from + whole.bytes)
  BY VwireForm DEF VwireWhole, Reading
<1>2. ASSUME NEW part \in VwirePart(from, groups)
      PROVE  \E n \in Nat : Row(Part, part, from, from + n)
  <2>1. CASE part = << >>
    BY <2>1, EmptyRow
  <2>2. CASE \E reserved \in BOOLEAN, read \in 0..groups - 1 :
                 part = <<VwirePacket(from, reserved, read)>>
    <3>1. PICK reserved \in BOOLEAN, read \in 0..groups - 1 :
              part = <<VwirePacket(from, reserved, read)>>
      BY <2>2
    <3>2. read \in Nat /\ 1 + 2 * read \in Nat
      OBVIOUS
    <3>3. QED
      BY <3>1, <3>2, VwireForm
  <2>3. part \in {<< >>} \cup {<<VwirePacket(from, reserved, read)>> :
                                   reserved \in BOOLEAN, read \in 0..groups - 1}
    BY DEF VwirePart
  <2>4. QED
    BY <2>1, <2>2, <2>3
<1>3. QED
  BY <1>1, <1>2

LEMMA MessageCodeForm ==
    ASSUME NEW from \in Nat
    PROVE  Row(Part, <<MessageCode(from)>>, from, from + 5)
<1> DEFINE span == Units(from, 1)
           byte == Field("MessageSpecificByte", Units(from + 1, 4))
           more == [i \in 1..4 |-> byte]
           code == MessageCode(from)
           end == from + 5
<1>1. "MessageCode" \in Name /\ "MessageSpecificByte" \in Name
  BY Names
<1>2. from + 1 \in Nat /\ 4 \in Nat /\ 1 \in Nat /\ end = from + 1 + 4 /\ end \in Nat
  OBVIOUS
<1>3. /\ byte \in Explanation /\ byte.span = Units(from + 1, 4) /\ Flat(byte)
  BY <1>1, <1>2, PartOf
<1>11. byte.name = "MessageSpecificByte"
  BY FieldName
<1>4. /\ Units(from + 1, 4) \in Span /\ Inside(Units(from + 1, 4), from + 1, end)
      /\ span \in Span /\ Inside(span, from, from + 1)
  BY <1>2, UnitsForm
<1>5. Inside(Units(from + 1, 4), from, end) /\ Inside(span, from, end)
  BY <1>2, <1>4, InsideMore
<1>6. code = AddAll(Field("MessageCode", span), more)
  BY DEF MessageCode
<1> HIDE DEF byte, span
<1>7. more \in Seq(Explanation) /\ Len(more) = 4 /\ \A i \in 1..4 : more[i] = byte
  BY <1>3
<1> HIDE DEF more, code, end
<1>8. Row(Explanation, more, from, end)
  <2>1. Shared(byte, byte)
    BY <1>11, SharedPairs DEF Shared
  <2>2. QED
    BY <1>3, <1>4, <1>5, <1>7, <2>1, SpanInOrder DEF Row, Ordered, Follows
<1>9. code \in Part /\ Inside(code.span, from, end)
  <2>1. code \in Node(Explanation) /\ code.name = "MessageCode" /\ Inside(code.span, from, end)
    BY <1>1, <1>2, <1>4, <1>5, <1>6, <1>8, PartsAreFields, Made
  <2>2. "MessageCode" \in Lost
    BY DEF Lost
  <2>3. QED
    BY <2>1, <2>2, FlatIsWhole DEF Part
<1>10. QED
  BY <1>9, OneInRow DEF code, end

LEMMA JoinOneTwo == ASSUME NEW a, NEW b, NEW c PROVE <<a>> \o <<b, c>> = <<a, b, c>>
<1>1. <<a>> \in Seq({a, b, c}) /\ <<b, c>> \in Seq({a, b, c}) /\ <<a, b, c>> \in Seq({a, b, c})
  OBVIOUS
<1>2. <<a>> \o <<b, c>> \in Seq({a, b, c})
  BY <1>1
<1>3. Len(<<a>> \o <<b, c>>) = 3 /\ Len(<<a, b, c>>) = 3
  BY <1>1
<1>4. \A i \in 1..3 : (<<a>> \o <<b, c>>)[i] = <<a, b, c>>[i]
  BY <1>1
<1>5. QED
  BY <1>1, <1>2, <1>3, <1>4, SeqEqual

(* The cycle type, the tag and the length. *)
LEMMA CommonHeader ==
    ASSUME NEW from \in Nat
    PROVE  LET base == <<Explained("CycleType", Units(from, 1)),
                         Field("Tag", Units(from + 1, 1)), Field("Length", Units(from + 1, 2))>>
           IN  Row(Part, base, from, from + 3) /\ Len(base) = 3
<1> DEFINE type == Explained("CycleType", Units(from, 1))
           tag == Field("Tag", Units(from + 1, 1))
           length == Field("Length", Units(from + 1, 2))
<1>1. "CycleType" \in Name /\ "Tag" \in Name /\ "Length" \in Name
  BY Names
<1>2. from + 1 \in Nat /\ 1 \in Nat /\ 2 \in Nat /\ from + 3 = from + 1 + 2 /\ from + 3 \in Nat
      /\ 1 # 0 /\ 2 # 0
  OBVIOUS
<1>3. Row(Part, <<type>>, from, from + 1)
  BY <1>1, <1>2, ExplainedPartOf
<1>4. /\ tag \in Part /\ tag.span = Units(from + 1, 1) /\ Flat(tag)
      /\ length \in Part /\ length.span = Units(from + 1, 2) /\ Flat(length)
  BY <1>1, <1>2, PartOf
<1>12. tag.name = "Tag" /\ length.name = "Length"
  BY FieldName
<1>5. /\ Units(from + 1, 1) \in Span
      /\ Units(from + 1, 1).first = 2 * (from + 1) + 1
      /\ Units(from + 1, 1).last = 2 * (from + 1 + 1)
  BY <1>2, UnitsForm
<1>6. /\ Units(from + 1, 2) \in Span
      /\ Units(from + 1, 2).first = 2 * (from + 1) + 1
      /\ Units(from + 1, 2).last = 2 * (from + 1 + 2)
  BY <1>2, UnitsForm
<1> HIDE DEF type, tag, length
<1>7. /\ InOrder(tag.span, length.span)
      /\ Inside(tag.span, from + 1, from + 3) /\ Inside(length.span, from + 1, from + 3)
  BY <1>4, <1>5, <1>6 DEF InOrder, Inside
<1>8. Row(Part, <<tag, length>>, from + 1, from + 3)
  <2>1. Shared(tag, length)
    BY <1>12, SharedPairs DEF Shared
  <2>2. QED
    BY <1>4, <1>7, <2>1, TwoInRow
<1>9. Row(Part, <<type>> \o <<tag, length>>, from, from + 3)
  BY <1>2, <1>3, <1>8, PartsAreFields, RowsJoined
<1>10. <<type>> \o <<tag, length>> = <<type, tag, length>>
  BY JoinOneTwo
<1>11. QED
  BY <1>9, <1>10 DEF type, tag, length

LEMMA CycleHeaderRow ==
    ASSUME NEW from \in Nat, NEW kind
    PROVE  /\ LET whole == CycleHeaderWhole(from, kind)
              IN  whole.bytes \in Nat /\ Row(Part, whole.fields, from, from + whole.bytes)
           /\ \A part \in CycleHeaderPart(from, kind) :
                  \E n \in Nat : Row(Part, part, from, from + n)
<1> DEFINE base == <<Explained("CycleType", Units(from, 1)),
                     Field("Tag", Units(from + 1, 1)), Field("Length", Units(from + 1, 2))>>
           rest == CASE AddressBytes(kind) # 0 ->
                            <<Field("Address", Units(from + 3, AddressBytes(kind)))>>
                     [] HasMessageCode(kind)   -> <<MessageCode(from + 3)>>
                     [] OTHER                  -> << >>
           all == CycleHeaderFields(from, kind)
           read == SubSeq(all, 1, 3)
           bytes == HeaderBytes(kind)
           mid == from + 3
           end == from + bytes
<1>1. /\ AddressBytes(kind) \in {0, 4, 8}
      /\ AddressBytes(kind) # 0 => ~HasMessageCode(kind)
      /\ bytes = 3 + AddressBytes(kind) + IF HasMessageCode(kind) THEN 5 ELSE 0
  BY DEF AddressBytes, HasMessageCode, HeaderBytes
<1>2. bytes \in Nat /\ mid \in Nat /\ end \in Nat /\ from <= mid /\ mid <= end
      /\ AddressBytes(kind) \in Nat
  BY <1>1
<1>3. Row(Part, base, from, mid) /\ Len(base) = 3
  BY CommonHeader
<1>4. Row(Part, rest, mid, end)
  <2>1. CASE AddressBytes(kind) # 0
    <3>1. rest = <<Field("Address", Units(mid, AddressBytes(kind)))>>
      BY <1>1, <2>1
    <3>2. end = mid + AddressBytes(kind)
      BY <1>1, <2>1
    <3>3. QED
      BY <1>2, <3>1, <3>2, PartOf, Names, SMTT(30)
  <2>2. CASE AddressBytes(kind) = 0 /\ HasMessageCode(kind)
    <3>1. rest = <<MessageCode(mid)>>
      BY <2>2
    <3>2. end = mid + 5
      BY <1>1, <2>2
    <3>3. QED
      BY <1>2, <3>1, <3>2, MessageCodeForm
  <2>3. CASE AddressBytes(kind) = 0 /\ ~HasMessageCode(kind)
    <3>1. rest = << >>
      BY <2>3
    <3>2. QED
      BY <3>1, EmptyRow
  <2>4. QED
    BY <2>1, <2>2, <2>3
<1>5. all = base \o rest
  BY Zenon DEF CycleHeaderFields
<1> HIDE DEF base, rest, mid, end, bytes, all
<1>6. Row(Part, all, from, end)
  BY <1>2, <1>3, <1>4, <1>5, PartsAreFields, RowsJoined
<1>7. Len(all) >= 3 /\ read = base
  <2>1. base \in Seq(Part) /\ rest \in Seq(Part) /\ Len(base) = 3
    BY <1>3, <1>4 DEF Row
  <2>2. SubSeq(base \o rest, 1, 3) = SubSeq(base, 1, 3)
    <3>1. 1 \in 1..Len(base) /\ 3 \in 1..Len(base)
      BY <2>1
    <3>2. QED
      BY <2>1, <3>1, SubSeqOfConcat1
  <2>3. Len(base \o rest) >= 3
    <3>1. Len(base \o rest) = Len(base) + Len(rest) /\ Len(rest) \in Nat
      BY <2>1, ConcatProperties, LenProperties
    <3>2. QED
      BY <2>1, <3>1
  <2>4. QED
    BY <1>5, <2>1, <2>2, <2>3, SubSeqFull
<1>8. ASSUME NEW part \in CycleHeaderPart(from, kind)
      PROVE  \E n \in Nat : Row(Part, part, from, from + n)
  <2>1. CASE part = << >>
    BY <2>1, EmptyRow
  <2>2. CASE part = SubSeq(all, 1, 1)
    <3>0. 1 \in 0..Len(all)
      BY <1>6, <1>7 DEF Row
    <3>1. Row(Part, part, from, end)
      BY <1>6, <2>2, <3>0, RowCut
    <3>2. QED
      BY <1>2, <3>1 DEF end
  <2>3. CASE part = read
    BY <1>3, <1>7, <2>3 DEF mid
  <2>4. CASE part = read \o <<Field("MessageCode", Units(mid, 1))>>
    <3>1. Row(Part, <<Field("MessageCode", Units(mid, 1))>>, mid, mid + 1)
      BY <1>2, PartOf, Names
    <3>0. mid + 1 \in Nat /\ mid <= mid + 1
      BY <1>2
    <3>2. Row(Part, part, from, mid + 1)
      BY <1>2, <1>3, <1>7, <2>4, <3>0, <3>1, PartsAreFields, RowsJoined
    <3>3. mid + 1 = from + 4 /\ 4 \in Nat
      BY DEF mid
    <3>4. QED
      BY <3>2, <3>3
  <2>5. \/ part \in {<< >>, SubSeq(all, 1, 1)} \/ part = read
        \/ part = read \o <<Field("MessageCode", Units(mid, 1))>>
    BY DEF CycleHeaderPart, all, mid
  <2>6. QED
    BY <2>1, <2>2, <2>3, <2>4, <2>5
<1>9. CycleHeaderWhole(from, kind).bytes = bytes /\ CycleHeaderWhole(from, kind).fields = all
  BY DEF CycleHeaderWhole, Reading, bytes, all
<1>10. QED
  BY <1>2, <1>6, <1>8, <1>9 DEF end

(* Flat fields of the same bytes, or of none. *)
LEMMA FlatRow ==
    ASSUME NEW S, NEW row \in Seq(S), NEW span \in Span, NEW from, NEW to,
           Inside(span, from, to),
           \A i \in 1..Len(row) : Flat(row[i]) /\ row[i].span \in {span, NoSpan},
           \A i, j \in 1..Len(row) : i < j =>
               Shared(row[i], row[j]) \/ row[i].span = NoSpan \/ row[j].span = NoSpan
    PROVE  Row(S, row, from, to)
<1>1. \A i \in 1..Len(row) : Inside(row[i].span, from, to)
  BY NoSpanForm
<1>2. Ordered(row)
  BY NoSpanForm, SpanInOrder DEF Ordered, Follows
<1>3. QED
  BY <1>1, <1>2 DEF Row

LEMMA SmbusHeaderRow ==
    ASSUME NEW from \in Nat, NEW length, NEW count, NEW mctp
    PROVE  Row(Explanation, SmbusHeader(from, length, count, mctp), from, from + 3)
<1> DEFINE span == Units(from, 3)
           address == Field("TargetAddress", span)
           command == Field("CommandOpcode", span)
           byteCount == Field("ByteCount", span)
           wrong == Field("SmbusByteCount", NoSpan)
           short == Field("MctpHeader", span)
           first == <<address, command, byteCount>>
           row == SmbusHeader(from, length, count, mctp)
           flat(f) == f \in Explanation /\ Flat(f) /\ f.span \in {span, NoSpan}
           three == <<"TargetAddress", "CommandOpcode", "ByteCount">>
           fourth(f) == \A i \in 1..3 : {three[i], f.name} \in SharedBytes
<1>1. /\ "TargetAddress" \in Name /\ "CommandOpcode" \in Name /\ "ByteCount" \in Name
      /\ "SmbusByteCount" \in Name /\ "MctpHeader" \in Name
  BY Names
<1>2. flat(address) /\ flat(command) /\ flat(byteCount) /\ flat(short)
  <2>1. ASSUME NEW name \in Name
        PROVE  flat(Field(name, span))
    BY PartOf
  <2> HIDE DEF flat, span
  <2>2. QED
    BY <1>1, <2>1
<1>3. flat(wrong)
  BY <1>1, NewField, NoSpanForm, FlatIsWhole DEF Explanation
<1>4. span \in Span /\ Inside(span, from, from + 3)
  BY UnitsForm
<1>5. row \in {first \o <<wrong>>, first \o <<short>>, first \o << >>}
  BY DEF SmbusHeader
<1>10. /\ address.name = "TargetAddress" /\ command.name = "CommandOpcode"
       /\ byteCount.name = "ByteCount" /\ short.name = "MctpHeader" /\ wrong.span = NoSpan
  BY DEF Field
<1> HIDE DEF address, command, byteCount, wrong, short, span
<1>6. first \in Seq(Explanation) /\ Len(first) = 3 /\ \A i \in 1..3 : flat(first[i])
  BY <1>2
<1>11. \A i \in 1..3 : first[i].name = three[i]
  BY <1>10
<1>12. \A i, j \in 1..3 : i < j => Shared(first[i], first[j])
  <2>1. \A i, j \in 1..3 : i < j => {three[i], three[j]} \in SharedBytes
    BY SharedPairs
  <2> HIDE DEF first, three
  <2>2. QED
    BY <1>11, <2>1 DEF Shared
<1>13. fourth(short)
  BY <1>10, SharedPairs
<1>14. Len(first) \in Nat
  BY <1>6
<1> HIDE DEF first, row, three
<1>7. ASSUME NEW f, flat(f), f.span = NoSpan \/ fourth(f)
      PROVE  Row(Explanation, first \o <<f>>, from, from + 3)
  <2>1. <<f>> \in Seq(Explanation) /\ Len(<<f>>) = 1 /\ <<f>>[1] = f
    BY <1>7
  <2>2. /\ first \o <<f>> \in Seq(Explanation) /\ Len(first \o <<f>>) = 4
        /\ \A i \in 1..4 : (first \o <<f>>)[i] = IF i <= 3 THEN first[i] ELSE f
    <3>1. /\ first \o <<f>> \in Seq(Explanation)
          /\ Len(first \o <<f>>) = Len(first) + Len(<<f>>)
          /\ \A i \in 1..Len(first) + Len(<<f>>) :
                 (first \o <<f>>)[i] = IF i <= Len(first) THEN first[i] ELSE <<f>>[i - Len(first)]
      BY <1>6, <2>1, ConcatProperties
    <3>2. \A i \in 1..4 : ~ (i <= 3) => i - 3 = 1
      OBVIOUS
    <3>3. QED
      BY <1>6, <2>1, <3>1, <3>2
  <2>3. \A i \in 1..4 : flat((first \o <<f>>)[i])
    <3>1. \A i \in 1..4 : i <= 3 => i \in 1..3
      OBVIOUS
    <3>2. QED
      BY <1>6, <1>7, <2>2, <3>1
  <2>4. ASSUME NEW i \in 1..4, NEW j \in 1..4, i < j
        PROVE  LET all == first \o <<f>>
               IN  Shared(all[i], all[j]) \/ all[j].span = NoSpan
    <3>1. CASE j <= 3
      <4>1. i \in 1..3 /\ j \in 1..3 /\ i <= 3
        BY <2>4, <3>1
      <4>2. QED
        BY <1>12, <2>2, <2>4, <3>1, <4>1
    <3>2. CASE j = 4
      <4>1. i \in 1..3 /\ i <= 3 /\ ~ (j <= 3)
        BY <2>4, <3>2
      <4>2. (first \o <<f>>)[i] = first[i] /\ (first \o <<f>>)[j] = f
        BY <2>2, <4>1
      <4>3. QED
        BY <1>7, <1>11, <4>1, <4>2 DEF Shared
    <3>3. j <= 3 \/ j = 4
      OBVIOUS
    <3>4. QED
      BY <3>1, <3>2, <3>3, Zenon
  <2> DEFINE all == first \o <<f>>
  <2> HIDE DEF all, flat
  <2>5. QED
    BY <1>4, <2>2, <2>3, <2>4, FlatRow, ZenonT(60) DEF all, flat
<1>8. Row(Explanation, first \o << >>, from, from + 3)
  <2>1. first \o << >> = first
    BY <1>6, ConcatEmptySeq
  <2>2. QED
    BY <1>4, <1>6, <1>12, <2>1, FlatRow
<1>9. QED
  BY <1>2, <1>3, <1>5, <1>7, <1>8, <1>10, <1>13 DEF row

LEMMA SmbusBodyRow ==
    ASSUME NEW from \in Nat, NEW length \in Nat, length >= 3, NEW count \in Nat,
           NEW mctp \in BOOLEAN
    PROVE  Row(Explanation, SmbusBody(from, length, count, mctp), from + 3, from + length)
<1> DEFINE split == mctp /\ count >= 5
           begin == IF split THEN 8 ELSE 3
           bytes == count + 3 - begin
           head == IF split THEN <<MctpHeader(Units(from + 3, 5))>> ELSE << >>
           data == IF bytes # 0 THEN <<Field("Data", Units(from + begin, bytes))>> ELSE << >>
           pec == IF length = 4 + count THEN <<Field("Pec", Units(from + 3 + count, 1))>> ELSE << >>
<1>1. "Data" \in Name /\ "Pec" \in Name /\ "MctpHeader" \in Name
  BY Names
<1>2. CASE SmbusConsistent(length, count)
  <2>1. length = 3 + count \/ length = 4 + count
    BY <1>2 DEF SmbusConsistent
  <2>2. /\ begin \in {3, 8} /\ bytes \in Nat /\ from + begin + bytes = from + 3 + count
        /\ from + 3 \in Nat /\ from + begin \in Nat /\ from + 3 + count \in Nat
        /\ from + length \in Nat /\ from + 3 <= from + begin
        /\ from + begin <= from + 3 + count /\ from + 3 + count <= from + length
    BY <2>1
  <2>3. Row(Explanation, head, from + 3, from + begin)
    <3>1. CASE split
      <4>1. from + 3 + 5 = from + begin /\ from + 3 \in Nat /\ 5 \in Nat
        BY <3>1
      <4>2. Row(Explanation, <<MctpHeader(Units(from + 3, 5))>>, from + 3, from + 3 + 5)
        BY <1>1, <4>1, ExplainedPartOf DEF MctpHeader
      <4>3. QED
        BY <3>1, <4>1, <4>2
    <3>2. CASE ~split
      BY <3>2, EmptyRow
    <3>3. QED
      BY <3>1, <3>2
  <2>4. Row(Explanation, data, from + begin, from + 3 + count)
    <3>1. CASE bytes # 0
      <4>1. Row(Explanation, <<Field("Data", Units(from + begin, bytes))>>, from + begin,
                from + begin + bytes)
        <5> HIDE DEF begin, bytes
        <5>1. QED
          BY <1>1, <2>2, PartOf
      <4>2. QED
        BY <2>2, <3>1, <4>1
    <3>2. CASE bytes = 0
      BY <3>2, EmptyRow
    <3>3. QED
      BY <3>1, <3>2
  <2>5. Row(Explanation, pec, from + 3 + count, from + length)
    <3>1. CASE length = 4 + count
      <4>1. from + 3 + count + 1 = from + length /\ 1 \in Nat
        BY <3>1
      <4>2. QED
        BY <1>1, <2>2, <3>1, <4>1, PartOf
    <3>2. CASE length # 4 + count
      BY <3>2, EmptyRow
    <3>3. QED
      BY <3>1, <3>2
  <2>6. SmbusBody(from, length, count, mctp) = head \o data \o pec
    BY <1>2, Zenon DEF SmbusBody
  <2> HIDE DEF head, data, pec, begin, bytes, split
  <2>7. Row(Explanation, head \o data, from + 3, from + 3 + count)
    BY <2>2, <2>3, <2>4, PartsAreFields, RowsJoined
  <2>8. from + 3 <= from + 3 + count
    OBVIOUS
  <2>9. QED
    BY <2>2, <2>5, <2>6, <2>7, <2>8, PartsAreFields, RowsJoined
<1>3. CASE ~SmbusConsistent(length, count) /\ length > 3
  <2>1. SmbusBody(from, length, count, mctp) = <<Field("Data", Units(from + 3, length - 3))>>
    BY <1>3 DEF SmbusBody
  <2>2. from + 3 \in Nat /\ length - 3 \in Nat /\ from + 3 + (length - 3) = from + length
    BY <1>3
  <2>3. QED
    BY <1>1, <2>1, <2>2, PartOf
<1>4. CASE ~SmbusConsistent(length, count) /\ length = 3
  <2>1. SmbusBody(from, length, count, mctp) = << >>
    BY <1>4 DEF SmbusBody
  <2>2. QED
    BY <2>1, EmptyRow
<1>5. QED
  BY <1>2, <1>3, <1>4

LEMMA SmbusHeaderTiles ==
    ASSUME NEW from \in Nat, NEW length, NEW count, NEW mctp
    PROVE  LET row == SmbusHeader(from, length, count, mctp)
           IN  /\ Tiles(row, from, from + 3)
               /\ 1 \in 1..Len(row) /\ row[1].span = Units(from, 3)
<1> DEFINE span == Units(from, 3)
           address == Field("TargetAddress", span)
           command == Field("CommandOpcode", span)
           byteCount == Field("ByteCount", span)
           wrong == Field("SmbusByteCount", NoSpan)
           short == Field("MctpHeader", span)
           first == <<address, command, byteCount>>
           row == SmbusHeader(from, length, count, mctp)
           same(f) == f.span \in {span, NoSpan} /\ f.name \notin Lost
<1>1. row \in {first \o <<wrong>>, first \o <<short>>, first \o << >>}
  BY DEF SmbusHeader
<1>2. same(address) /\ same(command) /\ same(byteCount) /\ same(wrong) /\ same(short)
      /\ address.span = span
  BY DEF Field, Lost
<1> HIDE DEF address, command, byteCount, wrong, short, span, row
<1> DEFINE all == {address, command, byteCount, wrong, short}
<1>3. ASSUME NEW f \in {wrong, short}
      PROVE  /\ first \o <<f>> \in Seq(all) /\ 1 \in 1..Len(first \o <<f>>)
             /\ (first \o <<f>>)[1] = address
  BY <1>3
<1>4. first \o << >> \in Seq(all) /\ 1 \in 1..Len(first \o << >>) /\ (first \o << >>)[1] = address
  OBVIOUS
<1>5. row \in Seq(all) /\ 1 \in 1..Len(row) /\ row[1] = address
  BY <1>1, <1>3, <1>4
<1>6. \A f \in all : same(f)
  BY <1>2
<1> HIDE DEF all
<1>7. Len(row) \in Nat /\ \A i \in 1..Len(row) : same(row[i])
  BY <1>5, <1>6
<1>8. 3 \in Nat /\ 3 # 0
  OBVIOUS
<1>9. Tiles(row, from, from + 3)
  BY <1>2, <1>5, <1>7, <1>8, SameBytesTile DEF span
<1>10. QED
  BY <1>2, <1>5, <1>9 DEF row, span

LEMMA SmbusBodyChained ==
    ASSUME NEW from \in Nat, NEW length \in Nat, length >= 3, NEW count \in Nat,
           NEW mctp \in BOOLEAN
    PROVE  Chained(SmbusBody(from, length, count, mctp), from + 3)
<1> DEFINE split == mctp /\ count >= 5
           begin == IF split THEN 8 ELSE 3
           bytes == count + 3 - begin
           mctpHeader == MctpHeader(Units(from + 3, 5))
           dataField == Field("Data", Units(from + begin, bytes))
           pecField == Field("Pec", Units(from + 3 + count, 1))
           head == IF split THEN <<mctpHeader>> ELSE << >>
           data == IF bytes # 0 THEN <<dataField>> ELSE << >>
           pec == IF length = 4 + count THEN <<pecField>> ELSE << >>
           body == SmbusBody(from, length, count, mctp)
<1>1. "Data" \in Name /\ "MctpHeader" \in Name
  BY Names
<1>2. "Data" \notin Lost /\ "Pec" \notin Lost /\ "MctpHeader" \notin Lost
  BY DEF Lost
<1>3. CASE SmbusConsistent(length, count)
  <2>1. body = head \o data \o pec
    BY <1>3, Zenon DEF SmbusBody
  <2>2. Row(Explanation, body, from + 3, from + length)
    BY SmbusBodyRow
  <2>3. /\ begin \in {3, 8} /\ bytes \in Nat /\ from + begin + bytes = from + 3 + count
        /\ from + 3 \in Nat /\ from + begin \in Nat /\ from + 3 + count \in Nat
        /\ from + 3 <= from + begin /\ from + begin <= from + 3 + count
    OBVIOUS
  <2>4. Tiles(head, from + 3, from + begin)
    <3>1. CASE split
      <4>1. from + 3 + 5 = from + begin /\ from + 3 \in Nat /\ 5 \in Nat /\ 5 # 0
        BY <3>1
      <4>2. mctpHeader.span = Units(from + 3, 5) /\ mctpHeader.name \notin Lost
        <5>1. Units(from + 3, 5) \in Span
          BY <4>1, UnitsForm
        <5>2. /\ mctpHeader = Explained("MctpHeader", Units(from + 3, 5))
              /\ Explained("MctpHeader", Units(from + 3, 5)).name = "MctpHeader"
              /\ Explained("MctpHeader", Units(from + 3, 5)).span = Units(from + 3, 5)
          BY <1>1, <5>1, ExplainedForm DEF MctpHeader
        <5> HIDE DEF mctpHeader
        <5>3. QED
          BY <1>2, <5>2
      <4>3. Tiles(<<mctpHeader>>, from + 3, from + 3 + 5)
        <5> HIDE DEF mctpHeader
        <5>1. QED
          BY <4>1, <4>2, OneTiles
      <4>4. QED
        BY <3>1, <4>1, <4>3
    <3>2. CASE ~split
      BY <3>2, NothingTiles
    <3>3. QED
      BY <3>1, <3>2
  <2>5. Tiles(data, from + begin, from + 3 + count)
    <3>1. CASE bytes # 0
      <4>1. dataField.span = Units(from + begin, bytes) /\ dataField.name \notin Lost
        BY <1>2 DEF Field
      <4>2. Tiles(<<dataField>>, from + begin, from + begin + bytes)
        <5> HIDE DEF dataField, begin, bytes
        <5>1. QED
          BY <2>3, <3>1, <4>1, OneTiles
      <4>3. QED
        BY <2>3, <3>1, <4>2
    <3>2. CASE bytes = 0
      <4>1. from + begin = from + 3 + count
        BY <2>3, <3>2
      <4>2. data = << >>
        BY <3>2
      <4>3. QED
        BY <4>1, <4>2, NothingTiles
    <3>3. QED
      BY <3>1, <3>2
  <2>6. Chained(pec, from + 3 + count)
    <3>1. CASE length = 4 + count
      <4>1. pecField.span = Units(from + 3 + count, 1) /\ pecField.name \notin Lost
        BY <1>2 DEF Field
      <4>2. Tiles(<<pecField>>, from + 3 + count, from + 3 + count + 1)
        <5> HIDE DEF pecField
        <5>1. QED
          BY <2>3, <4>1, OneTiles
      <4>3. QED
        BY <3>1, <4>2 DEF Tiles
    <3>2. CASE length # 4 + count
      BY <3>2, NothingTiles DEF Tiles
    <3>3. QED
      BY <3>1, <3>2
  <2>7. head \in Seq(Explanation) /\ data \in Seq(Explanation) /\ pec \in Seq(Explanation)
    <3>1. mctpHeader \in Explanation /\ dataField \in Explanation /\ pecField \in Explanation
      BY <1>1, <2>3, PartOf, ExplainedPartOf, Names DEF MctpHeader
    <3> HIDE DEF mctpHeader, dataField, pecField
    <3>2. QED
      BY <3>1
  <2> HIDE DEF head, data, pec, begin, body
  <2>8. head \o data \in Seq(Explanation)
    BY <2>7
  <2>9. Tiles(head \o data, from + 3, from + 3 + count)
    BY <2>3, <2>4, <2>5, <2>7, PartsAreFields, TilesJoined DEF Tiles
  <2>10. Chained(head \o data \o pec, from + 3)
    BY <2>3, <2>6, <2>7, <2>8, <2>9, PartsAreFields, TilesJoined
  <2>11. QED
    BY <2>1, <2>10 DEF body
<1>4. CASE ~SmbusConsistent(length, count) /\ length > 3
  <2>1. body = <<Field("Data", Units(from + 3, length - 3))>>
    BY <1>4 DEF SmbusBody
  <2>2. from + 3 \in Nat /\ length - 3 \in Nat /\ length - 3 # 0
    BY <1>4
  <2> DEFINE rest == Field("Data", Units(from + 3, length - 3))
  <2>3. rest.span = Units(from + 3, length - 3) /\ rest.name \notin Lost
    BY <1>2 DEF Field
  <2>4. Chained(<<rest>>, from + 3)
    <3> HIDE DEF rest
    <3>1. QED
      BY <2>2, <2>3, OneTiles DEF Tiles
  <2>5. QED
    BY <2>1, <2>4
<1>5. CASE ~SmbusConsistent(length, count) /\ length = 3
  <2>1. body = << >>
    BY <1>5 DEF SmbusBody
  <2>2. QED
    BY <2>1, NothingTiles DEF Tiles
<1>6. QED
  BY <1>3, <1>4, <1>5

LEMMA SmbusForm ==
    ASSUME NEW from \in Nat, NEW length \in Nat, length >= 3, NEW count \in Nat,
           NEW mctp \in BOOLEAN,
           NEW read \in 0..Len(SmbusBody(from, length, count, mctp))
    PROVE  Row(Part, <<SmbusPacket(from, length, count, mctp, read)>>, from, from + length)
<1> DEFINE span == Units(from, 3)
           header == SmbusHeader(from, length, count, mctp)
           body == SmbusBody(from, length, count, mctp)
           cut == SubSeq(body, 1, read)
           packet == SmbusPacket(from, length, count, mctp, read)
<1>1. "SmbusPacket" \in Name
  BY Names
<1>2. span \in Span /\ Inside(span, from, from + 3)
  BY UnitsForm
<1>3. Row(Explanation, header, from, from + 3)
  BY SmbusHeaderRow
<1>4. Row(Explanation, body, from + 3, from + length)
  BY SmbusBodyRow
<1>5. packet = AddAll(Field("SmbusPacket", span), header \o cut)
  BY DEF SmbusPacket
<1>6. from + 3 \in Nat /\ from + length \in Nat /\ from <= from + 3 /\ from + 3 <= from + length
  OBVIOUS
<1>7. read \in 0..Len(body)
  OBVIOUS
<1>13. /\ Tiles(header, from, from + 3)
       /\ 1 \in 1..Len(header) /\ header[1].span = span
  BY SmbusHeaderTiles
<1>14. Chained(body, from + 3)
  BY SmbusBodyChained
<1>15. HasSpan(span) /\ span.last \in Nat
  <2>1. 3 \in Nat /\ 3 # 0
    OBVIOUS
  <2>2. HasSpan(Units(from, 3)) /\ Units(from, 3).last = 2 * (from + 3)
    BY <2>1, UnitsForm
  <2>3. QED
    BY <2>2
<1> HIDE DEF span, header, body, packet
<1>8. Row(Explanation, cut, from + 3, from + length)
  BY <1>4, <1>7, RowCut
<1>16. body \in Seq(Explanation) /\ header \in Seq(Explanation)
  BY <1>3, <1>4 DEF Row
<1>17. Chained(cut, from + 3)
  BY <1>7, <1>14, <1>16, ChainCut
<1> HIDE DEF cut
<1>18. cut \in Seq(Explanation)
  BY <1>8 DEF Row
<1>19. Chained(header \o cut, from)
  BY <1>6, <1>13, <1>16, <1>17, <1>18, PartsAreFields, TilesJoined
<1>20. \E i \in 1..Len(header \o cut) :
           HasSpan((header \o cut)[i].span) /\ span.last <= (header \o cut)[i].span.last
  <2>1. (header \o cut)[1] = header[1] /\ 1 \in 1..Len(header \o cut)
    BY <1>13, <1>16, <1>18
  <2>2. QED
    BY <1>13, <1>15, <2>1
<1>9. Row(Explanation, header \o cut, from, from + length)
  BY <1>3, <1>6, <1>8, PartsAreFields, RowsJoined
<1>10. Inside(span, from, from + length)
  BY <1>2, <1>6, InsideMore
<1>11. packet \in Part /\ Inside(packet.span, from, from + length)
  <2>1. packet \in Whole(Explanation)
    BY <1>1, <1>2, <1>5, <1>6, <1>9, <1>10, <1>19, <1>20, PartsAreFields, MadeWhole
  <2>2. Inside(packet.span, from, from + length)
    BY <1>1, <1>2, <1>5, <1>6, <1>9, <1>10, PartsAreFields, Made
  <2>3. QED
    BY <2>1, <2>2 DEF Part
<1>12. QED
  BY <1>11, OneInRow DEF packet

(* A field of no bytes can stand anywhere. *)
LEMMA NoBytes ==
    ASSUME NEW name \in Name, NEW from, NEW to
    PROVE  LET f == Field(name, NoSpan)
           IN  /\ f \in Explanation /\ f \in Part
               /\ Row(Explanation, <<f>>, from, to) /\ Row(Part, <<f>>, from, to)
<1> DEFINE f == Field(name, NoSpan)
<1>1. f \in Explanation /\ f \in Part /\ f.span = NoSpan
  BY NoSpanForm, NewField, FlatIsWhole DEF Explanation, Part
<1>2. Inside(f.span, from, to)
  BY <1>1, NoSpanForm
<1> HIDE DEF f
<1>3. Row(Explanation, <<f>>, from, to) /\ Row(Part, <<f>>, from, to)
  BY <1>1, <1>2, OneInRow
<1>4. QED
  BY <1>1, <1>3 DEF f

LEMMA PayloadRow ==
    ASSUME NEW from \in Nat, NEW kind, NEW length \in Nat, NEW count \in Nat,
           NEW mctp \in BOOLEAN
    PROVE  /\ LET whole == PayloadWhole(from, kind, length, count, mctp)
              IN  whole.bytes \in Nat /\ Row(Part, whole.fields, from, from + whole.bytes)
           /\ \A part \in PayloadPart(from, kind, length, count, mctp) :
                  \E n \in Nat : Row(Part, part, from, from + n)
<1> DEFINE body == SmbusBody(from, length, count, mctp)
           data == Field("Data", Units(from, length))
           op == Explained("Data", Units(from, length))
           none == Field("SmbusPacket", NoSpan)
           whole == PayloadWhole(from, kind, length, count, mctp)
           parts == PayloadPart(from, kind, length, count, mctp)
<1>1. "Data" \in Name /\ "SmbusPacket" \in Name
  BY Names
<1>2. Row(Part, <<data>>, from, from + length) /\ Row(Part, <<op>>, from, from + length)
  BY <1>1, PartOf, ExplainedPartOf
<1>3. \A to : Row(Part, <<none>>, from, to)
  BY <1>1, NoBytes
<1>4. Row(Part, << >>, from, from + 0)
  BY EmptyRow
<1>5. CASE ~HasPayload(kind)
  <2>1. whole.bytes = 0 /\ whole.fields = << >>
    BY <1>5 DEF PayloadWhole, Reading, HasPayload
  <2>2. parts = {<< >>}
    BY <1>5 DEF PayloadPart, HasPayload
  <2>3. QED
    BY <1>4, <2>1, <2>2
<1>6. CASE HasPayload(kind) /\ kind = "OobMessage" /\ length >= 3
  <2>1. body \in Seq(Explanation) /\ Len(body) \in Nat
    BY <1>6, SmbusBodyRow DEF Row
  <2>2. ASSUME NEW read \in 0..Len(body)
        PROVE  Row(Part, <<SmbusPacket(from, length, count, mctp, read)>>, from, from + length)
    BY <1>6, SmbusForm
  <2>3. /\ whole.bytes = length
        /\ whole.fields = <<SmbusPacket(from, length, count, mctp, Len(body))>>
    BY <1>6 DEF PayloadWhole, Reading
  <2>4. ASSUME NEW part \in parts
        PROVE  Row(Part, part, from, from + length)
    <3>1. \/ part = << >>
          \/ \E read \in 0..Len(body) - 1 :
                 part = <<SmbusPacket(from, length, count, mctp, read)>>
      BY <1>6 DEF PayloadPart
    <3>2. \A read \in 0..Len(body) - 1 : read \in 0..Len(body)
      BY <2>1
    <3>3. QED
      BY <2>2, <3>1, <3>2, EmptyRow
  <2>5. Len(body) \in 0..Len(body)
    BY <2>1
  <2>6. QED
    BY <2>2, <2>3, <2>4, <2>5
<1>7. CASE HasPayload(kind) /\ kind = "OobMessage" /\ length < 3
  <2>1. whole.bytes = length /\ whole.fields = <<none, data>>
    BY <1>7 DEF PayloadWhole, Reading
  <2>2. parts = {<<none>>}
    BY <1>7 DEF PayloadPart
  <2>3. <<none, data>> = <<none>> \o <<data>>
    BY JoinOneOne
  <2>4. from + length \in Nat /\ from <= from + length
    OBVIOUS
  <2> HIDE DEF none, data
  <2>5. Row(Part, <<none>> \o <<data>>, from, from + length)
    BY <1>2, <1>3, <2>4, PartsAreFields, RowsJoined
  <2>6. QED
    BY <1>3, <2>1, <2>2, <2>3, <2>5
<1>8. CASE HasPayload(kind) /\ kind # "OobMessage"
  <2>1. whole.bytes = length /\ whole.fields \in {<<data>>, <<op>>}
    BY <1>8 DEF PayloadWhole, Reading
  <2>2. parts = {<< >>}
    BY <1>8 DEF PayloadPart
  <2>3. QED
    BY <1>2, <1>4, <2>1, <2>2
<1>9. QED
  BY <1>5, <1>6, <1>7, <1>8

LEMMA ResetRow ==
    ASSUME NEW from \in Nat, NEW bytes \in Nat, NEW deviates \in BOOLEAN
    PROVE  Row(Part, ResetFields(from, bytes, deviates), from, from + bytes)
<1> DEFINE span == Units(from, bytes)
           plain == Field("Ignored", span)
           pattern == Field("ResetPattern", NoSpan)
           explained == AddAll(plain, <<pattern>>)
           ignored == IF deviates THEN explained ELSE plain
           reset == Field("RegisterReset", NoSpan)
           end == from + bytes
<1>1. "Ignored" \in Name /\ "ResetPattern" \in Name /\ "RegisterReset" \in Name
  BY Names
<1>2. Row(Part, <<plain>>, from, end)
  BY <1>1, PartOf
<1>3. span \in Span /\ Inside(span, from, end)
  BY UnitsForm
<1>4. Row(Explanation, <<pattern>>, from, end) /\ Row(Part, <<reset>>, end, end)
  BY <1>1, NoBytes
<1>5. end \in Nat /\ from <= end /\ end <= end
  OBVIOUS
<1>6. ResetFields(from, bytes, deviates) = <<ignored, reset>>
  BY DEF ResetFields, Add
<1> HIDE DEF span, pattern, end, reset
<1>7. explained \in Part /\ Inside(explained.span, from, end)
  <2>1. /\ explained \in Node(Explanation) /\ explained.name = "Ignored"
        /\ Inside(explained.span, from, end)
    BY <1>1, <1>3, <1>4, <1>5, PartsAreFields, Made
  <2>2. "Ignored" \in Lost
    BY DEF Lost
  <2>3. QED
    BY <2>1, <2>2, FlatIsWhole DEF Part
<1>8. Row(Part, <<ignored>>, from, end)
  BY <1>2, <1>7, OneInRow
<1> HIDE DEF ignored
<1>9. Row(Part, <<ignored>> \o <<reset>>, from, end)
  BY <1>4, <1>5, <1>8, PartsAreFields, RowsJoined
<1>10. QED
  BY <1>6, <1>9, JoinOneOne DEF end

-----------------------------------------------------------------------------
(* Phases *)

(* A phase read from the unit after from up to to. *)
Started(p, from, to) ==
    /\ p \in Phase
    /\ Row(Part, p.children, from, to)
    /\ Inside(p.span, from, to)

LEMMA NewPhase ==
    ASSUME NEW name \in Name, NEW from
    PROVE  Started(Field(name, NoSpan), from, from)
<1> DEFINE p == Field(name, NoSpan)
<1>1. p \in Phase /\ p.children = << >> /\ p.span = NoSpan
  BY NoSpanForm, NewField DEF Phase
<1> HIDE DEF p
<1>2. QED
  BY <1>1, NoSpanForm, EmptyRow DEF Started, p

LEMMA PhaseGrown ==
    ASSUME NEW p, NEW more, NEW from \in Nat, NEW mid \in Nat, NEW to \in Nat,
           from <= mid, mid <= to, Started(p, from, mid), Row(Part, more, mid, to)
    PROVE  Started(AddAll(p, more), from, to) /\ AddAll(p, more).name = p.name
<1>1. p \in Node(Part) /\ p.span \in Span
  BY NodeForm DEF Started, Phase
<1>2. Row(Part, p.children \o more, from, to)
  BY PartsAreFields, RowsJoined DEF Started
<1>3. Inside(p.span, from, to)
  BY <1>1, InsideMore DEF Started
<1>4. more \in Seq(Part)
  BY DEF Row
<1> DEFINE g == AddAll(p, more)
<1>5. /\ g \in Node(Part) /\ g.name = p.name /\ g.children = p.children \o more
      /\ Inside(g.span, from, to)
  BY <1>1, <1>2, <1>3, <1>4, PartsAreFields, Grown
<1> HIDE DEF g
<1>6. QED
  BY <1>2, <1>5 DEF Started, Phase, g

(* command.span = cmd.Span() covers what is in the phase. *)
LEMMA PhaseSpanned ==
    ASSUME NEW p, NEW from \in Nat, NEW to \in Nat, from <= to, Started(p, from, to)
    PROVE  LET g == [p EXCEPT !.span = Units(from, to - from)]
           IN  Started(g, from, to) /\ g.name = p.name
<1> DEFINE span == Units(from, to - from)
           g == [p EXCEPT !.span = span]
<1>1. p \in Node(Part) /\ p = [name |-> p.name, span |-> p.span, children |-> p.children]
      /\ p.name \in Name /\ p.children \in Seq(Part) /\ Fits(p)
  BY NodeForm DEF Started, Phase
<1>2. to - from \in Nat /\ from + (to - from) = to
  OBVIOUS
<1>3. span \in Span /\ Inside(span, from, to)
  BY <1>2, UnitsForm
<1>4. to - from # 0 => HasSpan(span) /\ span.first = 2 * from + 1 /\ span.last = 2 * to
  BY <1>2, UnitsForm, ZenonT(60)
<1> HIDE DEF span
<1>5. g \in [name : Name, span : Span, children : Seq(Part)]
      /\ g.name = p.name /\ g.span = span /\ g.children = p.children
  BY <1>1, <1>3
<1> HIDE DEF g
<1>6. ASSUME NEW i \in 1..Len(p.children), HasSpan(p.children[i].span)
      PROVE  HasSpan(span) /\ Covers(span, p.children[i].span)
  <2>1. Inside(p.children[i].span, from, to)
    BY DEF Started, Row
  <2>2. p.children[i].span \in Span
    BY <1>1, PartsAreFields DEF Fields
  <2>3. to - from # 0
    BY <1>6, <2>1, <2>2 DEF Inside, HasSpan, Span
  <2>4. QED
    BY <1>4, <1>6, <2>1, <2>2, <2>3 DEF Inside, Covers, Span
<1>7. Fits(g)
  BY <1>1, <1>5, <1>6 DEF Fits, Started, Row
<1>8. g \in Phase
  BY <1>5, <1>7 DEF Phase, Node
<1>9. QED
  BY <1>3, <1>5, <1>8 DEF Started, g, span

(* A phase takes its place behind those before it. *)
LEMMA PhaseRecorded ==
    ASSUME NEW p, NEW before, NEW from \in Nat, NEW to \in Nat, from <= to,
           Row(Phase, before, 0, from), Started(p, from, to)
    PROVE  Row(Phase, Append(before, p), 0, to)
<1>1. Row(Phase, <<p>>, from, to)
  BY OneInRow DEF Started
<1>2. Append(before, p) = before \o <<p>>
  BY DEF Row, Started
<1>3. QED
  BY <1>1, <1>2, PartsAreFields, RowsJoined

-----------------------------------------------------------------------------
(* The inductive invariant *)

(* Past the opcode it is known which it was. *)
Known ==
    /\ pc \in {"opcode", "reset", "elements", "crc", "tar", "response", "record", "emit"}
    /\ opcode \in OpcodeBytes \cup {None}
    /\ layout \in {t.layout : t \in CycleTypes} \cup {None}
    /\ channel \in {o.channel : o \in Opcodes} \cup {None}
    /\ todo \in Seq(Element)
    /\ at \in Nat /\ phaseAt \in 0..at
    /\ previousEnd \in Nat
    /\ pc \in {"reset", "elements", "crc", "tar", "response"} => opcode # None

(* The phases recorded are of the units before the one being read, and that *)
(* one is of those read since.                                              *)
Growing ==
    CASE pc \in {"opcode", "reset", "elements", "crc", "response"}
           -> Row(Phase, fields, 0, phaseAt) /\ Started(phase, phaseAt, at)
      [] pc = "tar" -> Row(Phase, fields, 0, at)
      [] OTHER -> fields \in Seq(Phase) /\ Ordered(fields)

(* Some phase, or the turn-around, covers it.                               *)
Held(span) == \E k \in 1..Len(fields) : Covers(fields[k].span, span)

(* What a field still to visit is drawn as will neither begin nor end       *)
(* before a frame drawn already.                                            *)
DrawnBefore(frame, f) ==
    HasSpan(f.span) => \/ frame.span.last < f.span.first
                       \/ Flat(f) /\ InOrder(frame.span, f.span) /\ Shared(frame, f)

(* A frame drawn later neither begins nor ends earlier, and overlaps only   *)
(* where a byte is shared.                                                  *)
DrawnInOrder(a, b) ==
    InOrder(a.span, b.span) /\ (a.span.last < b.span.first \/ Shared(a, b))

(* The fields to visit come in order, below the phases, after the frames.   *)
Emitting ==
    /\ pc # "emit" => work = << >> /\ frames = << >>
    /\ work \in Seq(Phase) /\ Ordered(work)
    /\ \A i \in 1..Len(work) : HasSpan(work[i].span) => Held(work[i].span)
    /\ frames \in Seq([name : Name, span : Span])
    /\ \A i \in 1..Len(frames) : HasSpan(frames[i].span) /\ Held(frames[i].span)
    /\ \A i \in 1..Len(frames), j \in 1..Len(work) : DrawnBefore(frames[i], work[j])
    /\ \A i, j \in 1..Len(frames) : i < j => DrawnInOrder(frames[i], frames[j])

IInv == Known /\ Growing /\ Emitting

-----------------------------------------------------------------------------
(* The initial state and the steps of the decode *)

LEMMA InitIInv == Init => IInv
<1> SUFFICES ASSUME Init PROVE IInv
  OBVIOUS
<1>1. Known
  BY DEF Init, Known
<1>2. Growing
  <2>1. "Command" \in Name
    BY Names
  <2>2. Started(phase, 0, 0)
    BY <2>1, NewPhase DEF Init
  <2>3. Row(Phase, << >>, 0, 0)
    BY EmptyRow
  <2>4. QED
    BY <2>2, <2>3 DEF Init, Growing
<1>3. Emitting
  BY DEF Init, Emitting, Ordered
<1>4. QED
  BY <1>1, <1>2, <1>3 DEF IInv

LEMMA NothingDrawn ==
    ASSUME Emitting, pc # "emit", pc' # "emit", UNCHANGED emitting
    PROVE  Emitting'
<1>1. work' = << >> /\ frames' = << >>
  BY DEF Emitting, emitting
<1>2. << >> \in Seq(Phase) /\ Ordered(<< >>) /\ << >> \in Seq([name : Name, span : Span])
  BY DEF Ordered
<1>3. QED
  BY <1>1, <1>2 DEF Emitting

InPhase == pc \in {"opcode", "reset", "elements", "crc", "response"}

(* Every way out of a phase records it, of as many units as were read.      *)
LEMMA StopKeeps ==
    ASSUME IInv, InPhase, NEW p, Stop(p), NEW to \in Nat, phaseAt <= to,
           Started(p, phaseAt, to), at' \in Nat, phaseAt <= at'
    PROVE  IInv'
<1>1. pc' = "record" /\ fields' = Append(fields, p)
      /\ UNCHANGED <<emitting, opcode, layout, channel, todo, phaseAt>>
  BY DEF Stop
<1>2. Known'
  BY <1>1 DEF IInv, Known, emitting
<1>3. Growing'
  <2>1. Row(Phase, fields, 0, phaseAt) /\ phaseAt \in Nat
    BY DEF IInv, Known, Growing, InPhase
  <2>2. Row(Phase, fields', 0, to)
    BY <1>1, <2>1, PhaseRecorded
  <2>3. QED
    BY <1>1, <2>2 DEF Growing, Row
<1>4. Emitting'
  BY <1>1, NothingDrawn DEF IInv, InPhase
<1>5. QED
  BY <1>2, <1>3, <1>4 DEF IInv

(* A step that reads on. *)
LEMMA ReadsOn ==
    ASSUME IInv, InPhase, pc' \in {"reset", "elements", "crc"},
           UNCHANGED <<emitting, phaseAt, fields>>, Started(phase', phaseAt, at')
    PROVE  Growing' /\ Emitting'
<1>1. Growing'
  BY DEF IInv, Growing, InPhase
<1>2. Emitting'
  BY NothingDrawn DEF IInv, InPhase
<1>3. QED
  BY <1>1, <1>2

(* What is known of a phase that is being read. *)
LEMMA InPhaseForm ==
    ASSUME IInv, InPhase
    PROVE  /\ Started(phase, phaseAt, at) /\ Row(Phase, fields, 0, phaseAt)
           /\ at \in Nat /\ phaseAt \in Nat /\ phaseAt <= at
           /\ pc # "opcode" => opcode # None /\ opcode \in OpcodeBytes
BY DEF IInv, Growing, Known, InPhase

(* The fields added by a step that reads n units, and by one cut short.     *)
LEMMA AddedTo ==
    ASSUME IInv, InPhase, NEW more, NEW n \in Nat, Row(Part, more, at, at + n)
    PROVE  /\ Started(AddAll(phase, more), phaseAt, at + n)
           /\ AddAll(phase, more).name = phase.name
           /\ at + n \in Nat /\ phaseAt <= at + n
<1>1. /\ Started(phase, phaseAt, at)
      /\ at \in Nat /\ phaseAt \in Nat /\ phaseAt <= at
  BY InPhaseForm
<1>2. at + n \in Nat /\ at <= at + n /\ phaseAt <= at + n
  BY <1>1
<1>3. QED
  BY <1>1, <1>2, PhaseGrown

LEMMA RunOutKeeps == ASSUME IInv, RunOut PROVE IInv'
<1>1. InPhase /\ at' = at
  BY DEF RunOut, InPhase
<1>2. Started(phase, phaseAt, at) /\ at \in Nat /\ phaseAt <= at
  BY <1>1, InPhaseForm
<1>3. CASE Stop(phase)
  BY <1>1, <1>2, <1>3, StopKeeps
<1>4. CASE Stop(Add(phase, Field("WAIT_STATE", NoSpan)))
  <2>1. Row(Part, <<Field("WAIT_STATE", NoSpan)>>, at, at + 0)
    BY NoBytes, Names
  <2>2. Started(Add(phase, Field("WAIT_STATE", NoSpan)), phaseAt, at + 0) /\ at + 0 \in Nat
        /\ phaseAt <= at + 0
    BY <1>1, <2>1, AddedTo DEF Add
  <2>3. QED
    BY <1>1, <1>2, <1>4, <2>2, StopKeeps
<1>5. QED
  BY <1>3, <1>4 DEF RunOut

LEMMA TurnAroundRunsOutKeeps == ASSUME IInv, TurnAroundRunsOut PROVE IInv'
<1>1. pc = "tar" /\ pc' = "record" /\ UNCHANGED <<emitting, reading, fields>>
  BY DEF TurnAroundRunsOut
<1>2. Known'
  BY <1>1 DEF IInv, Known, emitting, reading
<1>3. Growing'
  BY <1>1 DEF IInv, Growing, Row
<1>4. Emitting'
  BY <1>1, NothingDrawn DEF IInv
<1>5. QED
  BY <1>2, <1>3, <1>4 DEF IInv

(* The opcode's own field, and that of a short command's length.            *)
LEMMA OpcodeRows ==
    ASSUME NEW from \in Nat
    PROVE  LET opcodeField == Field("Opcode", Units(from, 1))
               length == Field("RequestLength", Units(from, 1))
               reserved == Field("RequestLength", NoSpan)
           IN  /\ Row(Part, <<opcodeField>>, from, from + 1)
               /\ Row(Part, <<opcodeField, length>>, from, from + 1)
               /\ Row(Part, <<opcodeField, reserved>>, from, from + 1)
<1> DEFINE span == Units(from, 1)
           opcodeField == Field("Opcode", span)
           length == Field("RequestLength", span)
           reserved == Field("RequestLength", NoSpan)
<1>1. "Opcode" \in Name /\ "RequestLength" \in Name
  BY Names
<1>2. /\ opcodeField \in Part /\ opcodeField.span = span /\ Flat(opcodeField)
      /\ length \in Part /\ length.span = span /\ Flat(length)
  BY <1>1, PartOf
<1>3. reserved \in Part /\ reserved.span = NoSpan /\ Flat(reserved)
  BY <1>1, NoSpanForm, NewField, FlatIsWhole DEF Part
<1>11. /\ opcodeField.name = "Opcode"
       /\ length.name = "RequestLength" /\ reserved.name = "RequestLength"
  BY FieldName
<1>4. span \in Span /\ Inside(span, from, from + 1)
  BY UnitsForm
<1> HIDE DEF span, opcodeField, length, reserved
<1>5. Row(Part, <<opcodeField>>, from, from + 1)
  BY <1>2, <1>4, OneInRow
<1>10. Shared(opcodeField, length) /\ Shared(opcodeField, reserved)
  BY <1>11, SharedPairs DEF Shared
<1>6. Row(Part, <<opcodeField, length>>, from, from + 1)
  BY <1>2, <1>4, <1>10, SpanInOrder, TwoInRow
<1>7. InOrder(span, NoSpan) /\ Inside(NoSpan, from, from + 1)
  BY NoSpanForm DEF InOrder
<1>8. Row(Part, <<opcodeField, reserved>>, from, from + 1)
  BY <1>2, <1>3, <1>4, <1>7, <1>10, TwoInRow
<1>9. QED
  BY <1>5, <1>6, <1>8 DEF span, opcodeField, length, reserved

(* The elements of packets are elements. *)
LEMMA ElementSequences ==
    /\ \A name : CommandElements(name) \in Seq(Element)
    /\ \A name, accepted, modifier :
           AppendedElements(modifier) \o PresentElements(ResponseElements(name), accepted = TRUE)
               \in Seq(Element)
<1> DEFINE E == Element
<1>1. \A a, b, c \in E : /\ << >> \in Seq(E) /\ <<a>> \in Seq(E)
                         /\ <<a, b>> \in Seq(E) /\ <<a, b, c>> \in Seq(E)
  OBVIOUS
<1>2. /\ "Addr16" \in E /\ "Data32" \in E /\ "Status16" \in E /\ "VwirePacket" \in E
      /\ "CycleHeader" \in E /\ "Payload" \in E /\ "IoAddr16" \in E /\ "MemAddr32" \in E
      /\ "ShortData" \in E
  BY DEF Element
<1> HIDE DEF E
<1>3. \A name : CommandElements(name) \in Seq(E)
  BY <1>1, <1>2, Zenon DEF CommandElements
<1>4. \A name : ResponseElements(name) \in Seq(E)
  BY <1>1, <1>2, Zenon DEF ResponseElements
<1>5. \A modifier : AppendedElements(modifier) \in Seq(E)
  BY <1>1, <1>2, Zenon DEF AppendedElements
<1>6. \A name : PresentElements(ResponseElements(name), TRUE) \in Seq(E)
  BY <1>4, PresentWhenAccepted
<1>7. \A name : PresentElements(ResponseElements(name), FALSE) \in Seq(E)
  <2>1. \A name : PresentElements(ResponseElements(name), FALSE)
                      \in {<<"Data32", "Status16">>, <<"VwirePacket", "Status16">>, << >>,
                           <<"Status16">>}
    BY PresentWhenRefused
  <2>2. QED
    BY <1>1, <1>2, <2>1
<1>8. \A name, accepted, modifier :
          AppendedElements(modifier) \o PresentElements(ResponseElements(name), accepted = TRUE)
              \in Seq(E)
  <2> SUFFICES ASSUME NEW name, NEW accepted, NEW modifier
               PROVE  AppendedElements(modifier)
                          \o PresentElements(ResponseElements(name), accepted = TRUE) \in Seq(E)
    OBVIOUS
  <2>1. PresentElements(ResponseElements(name), accepted = TRUE) \in Seq(E)
    <3>1. CASE accepted = TRUE
      BY <1>6, <3>1
    <3>2. CASE accepted # TRUE
      BY <1>7, <3>2
    <3>3. QED
      BY <3>1, <3>2
  <2>2. QED
    BY <1>5, <2>1, ConcatProperties
<1>9. QED
  BY <1>3, <1>8 DEF E

(* What the constants are. *)
LEMMA InputForms ==
    /\ \A byte \in OpcodeBytes : byte \in Byte
    /\ \A length \in PayloadLengths : length \in Nat
    /\ \A count \in SmbusCounts : count \in Nat
    /\ \A groups \in GroupCounts : groups \in Nat
BY FrameAssumption, SMTT(30) DEF Byte

LEMMA ReadUndefinedOpcodeKeeps ==
    ASSUME IInv, NEW byte \in OpcodeBytes, ReadUndefinedOpcode(byte)
    PROVE  IInv'
<1> DEFINE more == <<Field("Opcode", NoSpan)>>
<1>1. InPhase /\ at' = at + 1 /\ Stop(AddAll(phase, more))
  BY DEF ReadUndefinedOpcode, InPhase, Add
<1>2. Row(Part, more, at, at + 1)
  BY NoBytes, Names
<1> HIDE DEF more
<1>3. Started(AddAll(phase, more), phaseAt, at + 1) /\ at + 1 \in Nat /\ phaseAt <= at + 1
  BY <1>1, <1>2, AddedTo
<1>4. QED
  BY <1>1, <1>3, StopKeeps

LEMMA ReadReservedLengthKeeps ==
    ASSUME IInv, NEW byte \in OpcodeBytes, ReadReservedLength(byte)
    PROVE  IInv'
<1> DEFINE more == <<OpcodeField, Field("RequestLength", NoSpan)>>
<1>1. InPhase /\ at' = at + 1 /\ Stop(AddAll(phase, more))
  BY DEF ReadReservedLength, InPhase
<1>2. Row(Part, more, at, at + 1)
  BY <1>1, InPhaseForm, OpcodeRows DEF OpcodeField
<1> HIDE DEF more
<1>3. Started(AddAll(phase, more), phaseAt, at + 1) /\ at + 1 \in Nat /\ phaseAt <= at + 1
  BY <1>1, <1>2, AddedTo
<1>4. QED
  BY <1>1, <1>3, StopKeeps

LEMMA ReadOpcodeKeeps ==
    ASSUME IInv, NEW byte \in OpcodeBytes, ReadOpcode(byte)
    PROVE  IInv'
<1> DEFINE o == LookupOpcode(byte)
           length == IF o.short THEN <<Field("RequestLength", Units(at, 1))>> ELSE << >>
           more == <<OpcodeField>> \o length
<1>1. /\ InPhase /\ KnownOpcode(byte)
      /\ phase' = AddAll(phase, more)
      /\ pc' \in {"reset", "elements"}
      /\ todo' = CommandElements(o.name) /\ channel' = o.channel
      /\ opcode' = byte /\ at' = at + 1
      /\ UNCHANGED <<emitting, layout, phaseAt, fields>>
  BY DEF ReadOpcode, InPhase
<1>2. Row(Part, more, at, at + 1)
  <2>1. CASE o.short
    <3>1. more = <<OpcodeField, Field("RequestLength", Units(at, 1))>>
      BY <2>1, JoinOneOne
    <3>2. QED
      BY <1>1, <3>1, InPhaseForm, OpcodeRows DEF OpcodeField
  <2>2. CASE ~o.short
    <3>1. more = <<OpcodeField>>
      BY <2>2
    <3>2. QED
      BY <1>1, <3>1, InPhaseForm, OpcodeRows DEF OpcodeField
  <2>3. QED
    BY <2>1, <2>2
<1>3. byte \in Byte
  BY InputForms
<1>4. o \in Opcodes
  BY <1>1, <1>3, LookedUpOpcode
<1>5. todo' \in Seq(Element)
  BY <1>1, ElementSequences
<1> HIDE DEF more, o
<1>6. Started(phase', phaseAt, at') /\ at' \in Nat /\ phaseAt <= at' /\ phaseAt \in Nat
  BY <1>1, <1>2, AddedTo, InPhaseForm
<1>7. Growing' /\ Emitting'
  BY <1>1, <1>6, ReadsOn
<1>8. Known'
  <2>1. channel' \in {oo.channel : oo \in Opcodes}
    BY <1>1, <1>4
  <2>2. byte # None
    BY <1>3, FrameAssumption
  <2>3. QED
    BY <1>1, <1>5, <1>6, <2>1, <2>2 DEF IInv, Known, emitting
<1>9. QED
  BY <1>7, <1>8 DEF IInv

LEMMA ReadResetRemainderKeeps ==
    ASSUME IInv, NEW mode \in IoMode, NEW bytes \in 0..MaxResetBytes, NEW high \in BOOLEAN,
           ReadResetRemainder(mode, bytes, high)
    PROVE  IInv'
<1> DEFINE deviates == (bytes + 1) * ClocksPerByte(mode) # 16 \/ ~high
           more == ResetFields(at, bytes, deviates)
           read == AddAll(phase, more)
<1>1. InPhase /\ at' = at + bytes /\ Stop(Spanned(read, at + bytes))
  BY DEF ReadResetRemainder, InPhase
<1>2. bytes \in Nat
  BY FrameAssumption
<1>3. deviates \in BOOLEAN
  OBVIOUS
<1> HIDE DEF deviates
<1>4. Row(Part, more, at, at + bytes)
  BY <1>1, <1>2, <1>3, InPhaseForm, ResetRow
<1> HIDE DEF more
<1>5. Started(read, phaseAt, at + bytes) /\ at + bytes \in Nat /\ phaseAt <= at + bytes
      /\ phaseAt \in Nat
  BY <1>1, <1>2, <1>4, AddedTo, InPhaseForm
<1> HIDE DEF read
<1>6. Started(Spanned(read, at + bytes), phaseAt, at + bytes)
  BY <1>5, PhaseSpanned DEF Spanned
<1>7. QED
  BY <1>1, <1>5, <1>6, StopKeeps

-----------------------------------------------------------------------------
(* The elements of a packet *)

(* An element read whole, or what is left of one.                           *)
LEMMA ReadElementKeeps ==
    ASSUME IInv, NEW e, NEW whole, ReadElement(e, whole), whole.bytes \in Nat,
           Row(Part, whole.fields, at, at + whole.bytes),
           layout' \in {t.layout : t \in CycleTypes} \cup {None}
    PROVE  IInv'
<1>1. /\ InPhase /\ pc = "elements" /\ todo # << >>
      /\ phase' = AddAll(phase, whole.fields)
      /\ at' = at + whole.bytes
      /\ todo' = Tail(todo)
      /\ UNCHANGED <<emitting, pc, opcode, channel, phaseAt, fields>>
  BY DEF ReadElement, InPhase
<1>2. Started(phase', phaseAt, at') /\ at' \in Nat /\ phaseAt <= at' /\ phaseAt \in Nat
  BY <1>1, AddedTo, InPhaseForm
<1>3. Growing' /\ Emitting'
  BY <1>1, <1>2, ReadsOn
<1>4. Known'
  BY <1>1, <1>2 DEF IInv, Known, emitting
<1>5. QED
  BY <1>3, <1>4 DEF IInv

LEMMA CutElementKeeps ==
    ASSUME IInv, NEW e, NEW part, CutElement(e, part),
           \E n \in Nat : Row(Part, part, at, at + n)
    PROVE  IInv'
<1>1. InPhase /\ at' = at /\ Stop(AddAll(phase, part))
  BY DEF CutElement, InPhase
<1>2. PICK n \in Nat : Row(Part, part, at, at + n)
  OBVIOUS
<1>3. Started(AddAll(phase, part), phaseAt, at + n) /\ at + n \in Nat /\ phaseAt <= at + n
      /\ at \in Nat /\ phaseAt <= at
  BY <1>1, <1>2, AddedTo, InPhaseForm
<1>4. QED
  BY <1>1, <1>3, StopKeeps

(* Cut short before any field of the element was added. *)
LEMMA NothingAdded == \E n \in Nat : Row(Part, << >>, at, at + n)
<1>1. Row(Part, << >>, at, at + 0) /\ 0 \in Nat
  BY EmptyRow
<1>2. QED
  BY <1>1

LEMMA ReadFixedKeeps ==
    ASSUME IInv, NEW e \in Element, ReadFixed(e)
    PROVE  IInv'
<1>1. InPhase
  BY DEF ReadFixed, ReadElement, CutElement, InPhase
<1>2. CASE ReadElement(e, FixedWhole(at, e)) /\ UNCHANGED layout
  <2>1. LET whole == FixedWhole(at, e)
        IN  whole.bytes \in Nat /\ Row(Part, whole.fields, at, at + whole.bytes)
    BY <1>1, InPhaseForm, FixedRow
  <2>2. layout' \in {t.layout : t \in CycleTypes} \cup {None}
    BY <1>2 DEF IInv, Known
  <2>3. QED
    BY <1>2, <2>1, <2>2, ReadElementKeeps
<1>3. CASE CutElement(e, << >>)
  BY <1>3, NothingAdded, CutElementKeeps
<1>4. QED
  BY <1>2, <1>3 DEF ReadFixed

LEMMA ReadShortDataKeeps == ASSUME IInv, ReadShortData PROVE IInv'
<1> DEFINE length == ShortRequestLength(opcode)
           whole == ShortDataWhole(at, length)
<1>1. InPhase /\ pc = "elements"
  BY DEF ReadShortData, ReadElement, CutElement, InPhase
<1>2. CASE ReadElement("ShortData", whole) /\ UNCHANGED layout
  <2>1. opcode \in Byte
    BY <1>1, InPhaseForm, InputForms
  <2>2. length \in Nat
    BY <2>1, ShortLengths
  <2> HIDE DEF length
  <2>3. whole.bytes \in Nat /\ Row(Part, whole.fields, at, at + whole.bytes)
    BY <1>1, <2>2, InPhaseForm, ShortRow
  <2>4. layout' \in {t.layout : t \in CycleTypes} \cup {None}
    BY <1>2 DEF IInv, Known
  <2> HIDE DEF whole
  <2>5. QED
    BY <1>2, <2>3, <2>4, ReadElementKeeps
<1>3. CASE CutElement("ShortData", << >>)
  BY <1>3, NothingAdded, CutElementKeeps
<1>4. QED
  BY <1>2, <1>3 DEF ReadShortData

LEMMA ReadVwirePacketKeeps == ASSUME IInv, ReadVwirePacket PROVE IInv'
<1>1. InPhase
  BY DEF ReadVwirePacket, ReadElement, CutElement, InPhase
<1>2. PICK groups \in GroupCounts :
          \/ /\ \E reserved \in BOOLEAN :
                    ReadElement("VwirePacket", VwireWhole(at, groups, reserved))
             /\ UNCHANGED layout
          \/ \E part \in VwirePart(at, groups) : CutElement("VwirePacket", part)
  BY DEF ReadVwirePacket
<1>3. groups \in Nat /\ at \in Nat
  BY <1>1, InPhaseForm, InputForms
<1>4. CASE /\ \E reserved \in BOOLEAN :
                  ReadElement("VwirePacket", VwireWhole(at, groups, reserved))
           /\ UNCHANGED layout
  <2>1. PICK reserved \in BOOLEAN : ReadElement("VwirePacket", VwireWhole(at, groups, reserved))
    BY <1>4
  <2>2. LET whole == VwireWhole(at, groups, reserved)
        IN  whole.bytes \in Nat /\ Row(Part, whole.fields, at, at + whole.bytes)
    BY <1>3, VwireRow
  <2>3. layout' \in {t.layout : t \in CycleTypes} \cup {None}
    BY <1>4 DEF IInv, Known
  <2>4. QED
    BY <2>1, <2>2, <2>3, ReadElementKeeps
<1>5. CASE \E part \in VwirePart(at, groups) : CutElement("VwirePacket", part)
  <2>1. PICK part \in VwirePart(at, groups) : CutElement("VwirePacket", part)
    BY <1>5
  <2>2. \E n \in Nat : Row(Part, part, at, at + n)
    BY <1>3, VwireRow
  <2>3. QED
    BY <2>1, <2>2, CutElementKeeps
<1>6. QED
  BY <1>2, <1>4, <1>5

LEMMA ReadCycleHeaderKeeps ==
    ASSUME IInv, NEW type \in CycleTypes, ReadCycleHeader(type)
    PROVE  IInv'
<1> DEFINE kind == type.layout
<1>1. InPhase
  BY DEF ReadCycleHeader, ReadElement, CutElement, InPhase
<1>2. at \in Nat
  BY <1>1, InPhaseForm
<1>3. CASE ReadElement("CycleHeader", CycleHeaderWhole(at, kind)) /\ layout' = kind
  <2>1. layout' \in {t.layout : t \in CycleTypes} \cup {None}
    BY <1>3
  <2> HIDE DEF kind
  <2>2. LET whole == CycleHeaderWhole(at, kind)
        IN  whole.bytes \in Nat /\ Row(Part, whole.fields, at, at + whole.bytes)
    BY <1>2, CycleHeaderRow
  <2>3. QED
    BY <1>3, <2>1, <2>2, ReadElementKeeps
<1>4. CASE \E part \in CycleHeaderPart(at, kind) : CutElement("CycleHeader", part)
  <2> HIDE DEF kind
  <2>1. PICK part \in CycleHeaderPart(at, kind) : CutElement("CycleHeader", part)
    BY <1>4
  <2>2. \E n \in Nat : Row(Part, part, at, at + n)
    BY <1>2, CycleHeaderRow
  <2>3. QED
    BY <2>1, <2>2, CutElementKeeps
<1>5. QED
  BY <1>3, <1>4 DEF ReadCycleHeader

LEMMA UnknownCycleTypeKeeps == ASSUME IInv, UnknownCycleType PROVE IInv'
<1> DEFINE part == <<Field("CycleType", NoSpan)>>
<1>1. Row(Part, part, at, at + 0) /\ 0 \in Nat
  BY NoBytes, Names
<1>2. CutElement("CycleHeader", part)
  BY DEF UnknownCycleType
<1> HIDE DEF part
<1>3. QED
  BY <1>1, <1>2, CutElementKeeps

LEMMA ReadPayloadKeeps ==
    ASSUME IInv, NEW length \in PayloadLengths, NEW count \in SmbusCounts, NEW mctp \in BOOLEAN,
           ReadPayload(length, count, mctp)
    PROVE  IInv'
<1> DEFINE whole == PayloadWhole(at, layout, length, count, mctp)
           parts == PayloadPart(at, layout, length, count, mctp)
<1>1. InPhase
  BY DEF ReadPayload, ReadElement, CutElement, InPhase
<1>2. at \in Nat /\ length \in Nat /\ count \in Nat
  BY <1>1, InPhaseForm, InputForms
<1>3. /\ whole.bytes \in Nat /\ Row(Part, whole.fields, at, at + whole.bytes)
      /\ \A part \in parts : \E n \in Nat : Row(Part, part, at, at + n)
  BY <1>2, PayloadRow
<1>4. \/ ReadElement("Payload", whole) /\ UNCHANGED layout
      \/ \E part \in parts : CutElement("Payload", part)
  BY DEF ReadPayload
<1> HIDE DEF whole, parts
<1>5. CASE ReadElement("Payload", whole) /\ UNCHANGED layout
  <2>1. layout' \in {t.layout : t \in CycleTypes} \cup {None}
    BY <1>5 DEF IInv, Known
  <2>2. QED
    BY <1>3, <1>5, <2>1, ReadElementKeeps
<1>6. CASE \E part \in parts : CutElement("Payload", part)
  BY <1>3, <1>6, CutElementKeeps
<1>7. QED
  BY <1>4, <1>5, <1>6

LEMMA EndElementsKeeps == ASSUME IInv, EndElements PROVE IInv'
<1>1. InPhase /\ pc = "elements" /\ pc' = "crc" /\ UNCHANGED <<emitting, reading, fields>>
  BY DEF EndElements, InPhase
<1>2. Started(phase', phaseAt, at')
  BY <1>1, InPhaseForm DEF reading
<1>3. Growing' /\ Emitting'
  BY <1>1, <1>2, ReadsOn DEF reading
<1>4. Known'
  BY <1>1 DEF IInv, Known, reading, emitting
<1>5. QED
  BY <1>3, <1>4 DEF IInv

-----------------------------------------------------------------------------
(* The CRC, the turn-around and the response *)

LEMMA ReadCrcKeeps == ASSUME IInv, ReadCrc PROVE IInv'
<1> DEFINE more == <<Field("CRC", Units(at, 1))>>
           read == AddAll(phase, more)
           crc == Spanned(read, at + 1)
<1>1. /\ InPhase /\ pc = "crc" /\ at' = at + 1
      /\ fields' = Append(fields, crc)
      /\ pc' \in {"tar", "record"}
      /\ UNCHANGED <<emitting, opcode, layout, channel, todo, phaseAt>>
  BY DEF ReadCrc, InPhase, Add
<1>2. at \in Nat /\ phaseAt \in Nat /\ Row(Phase, fields, 0, phaseAt) /\ opcode # None
  BY <1>1, InPhaseForm
<1>3. Row(Part, more, at, at + 1)
  BY <1>2, PartOf, Names
<1> HIDE DEF more
<1>4. Started(read, phaseAt, at + 1) /\ at + 1 \in Nat /\ phaseAt <= at + 1
  BY <1>1, <1>3, AddedTo
<1> HIDE DEF read
<1>5. Started(crc, phaseAt, at + 1)
  BY <1>2, <1>4, PhaseSpanned DEF Spanned
<1> HIDE DEF crc
<1>6. Row(Phase, fields', 0, at')
  BY <1>1, <1>2, <1>4, <1>5, PhaseRecorded
<1>7. Growing'
  BY <1>1, <1>6 DEF Growing, Row
<1>8. Known'
  BY <1>1, <1>2, <1>4 DEF IInv, Known, emitting
<1>9. Emitting'
  BY <1>1, NothingDrawn DEF IInv
<1>10. QED
  BY <1>7, <1>8, <1>9 DEF IInv

LEMMA TurnAroundKeeps == ASSUME IInv, TurnAround PROVE IInv'
<1> DEFINE tar == Field("TAR", Units(at, 1))
<1>1. /\ pc = "tar" /\ pc' = "response" /\ at' = at + 1 /\ phaseAt' = at + 1
      /\ fields' = Append(fields, tar)
      /\ phase' = Field("Response", NoSpan)
      /\ UNCHANGED <<emitting, opcode, layout, channel, todo>>
  BY DEF TurnAround
<1>2. at \in Nat /\ Row(Phase, fields, 0, at) /\ at + 1 \in Nat /\ at <= at + 1
  BY <1>1 DEF IInv, Known, Growing
<1>3. "TAR" \in Name /\ "Response" \in Name
  BY Names
<1>4. tar \in Phase /\ Inside(tar.span, at, at + 1)
  <2>1. Units(at, 1) \in Span /\ Inside(Units(at, 1), at, at + 1)
    BY <1>2, UnitsForm
  <2>2. QED
    BY <1>3, <2>1, NewField DEF Phase
<1> HIDE DEF tar
<1>5. Row(Phase, fields', 0, at + 1)
  <2>1. Row(Phase, <<tar>>, at, at + 1)
    BY <1>4, OneInRow
  <2>2. Append(fields, tar) = fields \o <<tar>>
    BY <1>2, <1>4 DEF Row
  <2>3. QED
    BY <1>1, <1>2, <2>1, <2>2, PartsAreFields, RowsJoined
<1>6. Started(phase', at + 1, at + 1)
  BY <1>1, <1>3, NewPhase
<1>7. Growing'
  BY <1>1, <1>5, <1>6 DEF Growing
<1>8. Known'
  BY <1>1, <1>2 DEF IInv, Known, emitting
<1>9. Emitting'
  BY <1>1, NothingDrawn DEF IInv
<1>10. QED
  BY <1>7, <1>8, <1>9 DEF IInv

(* The wait states and what follows them. *)
LEMMA AfterWaiting ==
    ASSUME IInv, pc = "response", NEW waits \in 0..MaxWaits, NEW f,
           Row(Part, <<f>>, at + waits, at + waits + 1)
    PROVE  /\ Started(Add(Waited(waits), f), phaseAt, at + waits + 1)
           /\ at + waits + 1 \in Nat /\ phaseAt <= at + waits + 1
<1>1. InPhase
  BY DEF InPhase
<1>2. waits \in Nat
  BY FrameAssumption
<1>3. at \in Nat /\ phaseAt \in Nat /\ phaseAt <= at /\ Started(phase, phaseAt, at)
  BY <1>1, InPhaseForm
<1>4. Row(Part, <<Field("WAIT_STATE", NoSpan)>>, at, at + waits) /\ Row(Part, << >>, at, at + waits)
  BY NoBytes, Names, EmptyRow
<1>5. at + waits \in Nat /\ at <= at + waits /\ at + waits + 1 \in Nat /\ phaseAt <= at + waits
      /\ phaseAt <= at + waits + 1 /\ at + waits <= at + waits + 1
      /\ at + waits + 1 = at + (waits + 1)
  BY <1>2, <1>3
<1>6. Started(Waited(waits), phaseAt, at + waits)
  <2>1. CASE waits = 0
    <3>1. Waited(waits) = phase /\ at + waits = at
      BY <1>3, <2>1 DEF Waited
    <3>2. QED
      BY <1>3, <3>1
  <2>2. CASE waits # 0
    <3>1. Waited(waits) = AddAll(phase, <<Field("WAIT_STATE", NoSpan)>>)
      BY <2>2 DEF Waited, Add
    <3>2. QED
      BY <1>3, <1>4, <1>5, <3>1, PhaseGrown
  <2>3. QED
    BY <2>1, <2>2
<1>7. Started(AddAll(Waited(waits), <<f>>), phaseAt, at + waits + 1)
  BY <1>3, <1>5, <1>6, PhaseGrown
<1>8. QED
  BY <1>5, <1>7 DEF Add

LEMMA ReadLastResponseKeeps ==
    ASSUME IInv, NEW byte \in ResponseBytes, NEW waits \in 0..MaxWaits,
           ReadLastResponse(byte, waits)
    PROVE  IInv'
<1> DEFINE undefined == Field("Response", NoSpan)
           none == Field("Response", Units(at + waits, 1))
<1>1. InPhase /\ pc = "response" /\ at' = at + waits + 1
  BY DEF ReadLastResponse, InPhase
<1>2. PICK f \in {undefined, none} : Stop(Add(Waited(waits), f))
  BY DEF ReadLastResponse
<1>3. at + waits \in Nat
  BY <1>1, InPhaseForm, FrameAssumption
<1>4. "Response" \in Name
  BY Names
<1>5. Row(Part, <<undefined>>, at + waits, at + waits + 1)
  BY <1>4, NoBytes
<1>6. Row(Part, <<none>>, at + waits, at + waits + 1)
  BY <1>3, <1>4, PartOf
<1> HIDE DEF undefined, none
<1>7. Row(Part, <<f>>, at + waits, at + waits + 1)
  BY <1>5, <1>6
<1>8. /\ Started(Add(Waited(waits), f), phaseAt, at + waits + 1)
      /\ at + waits + 1 \in Nat /\ phaseAt <= at + waits + 1
  BY <1>1, <1>7, AfterWaiting
<1>9. QED
  BY <1>1, <1>2, <1>8, StopKeeps

LEMMA AppendedChannels ==
    ASSUME NEW known \in {o.channel : o \in Opcodes} \cup {None}, NEW modifier
    PROVE  AppendedChannel(modifier, known) \in {o.channel : o \in Opcodes} \cup {None}
<1>1. /\ Opcode("PUT_PC", 0, "Peripheral", FALSE) \in Opcodes
      /\ Opcode("PUT_VWIRE", 4, "VirtualWire", FALSE) \in Opcodes
      /\ Opcode("GET_FLASH_C", 11, "Flash", FALSE) \in Opcodes
  BY DEF Opcodes
<1>2. /\ Opcode("PUT_PC", 0, "Peripheral", FALSE).channel = "Peripheral"
      /\ Opcode("PUT_VWIRE", 4, "VirtualWire", FALSE).channel = "VirtualWire"
      /\ Opcode("GET_FLASH_C", 11, "Flash", FALSE).channel = "Flash"
  BY DEF Opcode
<1>3. {"Peripheral", "VirtualWire", "Flash"} \subseteq {o.channel : o \in Opcodes}
  BY <1>1, <1>2, Zenon
<1>4. QED
  BY <1>3, Zenon DEF AppendedChannel

LEMMA ReadResponseKeeps ==
    ASSUME IInv, NEW byte \in ResponseBytes, NEW waits \in 0..MaxWaits,
           ReadResponse(byte, waits)
    PROVE  IInv'
<1> DEFINE name == LookupOpcode(opcode).name
           accepted == LookupResponse(byte) = "ACCEPT"
           modifier == IF name = "GET_STATUS" /\ accepted THEN ResponseModifier(byte) ELSE 0
           f == Explained("Response", Units(at + waits, 1))
<1>1. /\ InPhase /\ pc = "response"
      /\ phase' = Add(Waited(waits), f)
      /\ at' = at + waits + 1
      /\ todo' = AppendedElements(modifier) \o PresentElements(ResponseElements(name), accepted)
      /\ channel' = AppendedChannel(modifier, channel)
      /\ pc' = "elements"
      /\ UNCHANGED <<emitting, opcode, layout, phaseAt, fields>>
  BY DEF ReadResponse, InPhase
<1>2. at + waits \in Nat /\ phaseAt \in Nat /\ opcode # None
  <2> HIDE DEF f, name, accepted, modifier
  <2>1. waits \in Nat
    BY FrameAssumption
  <2>2. QED
    BY <1>1, <2>1, InPhaseForm
<1>3. Row(Part, <<f>>, at + waits, at + waits + 1)
  BY <1>2, ExplainedPartOf, Names
<1>4. todo' \in Seq(Element)
  <2>1. accepted = (accepted = TRUE)
    OBVIOUS
  <2> HIDE DEF name, accepted, modifier
  <2>2. QED
    BY <1>1, <2>1, ElementSequences
<1>5. channel' \in {o.channel : o \in Opcodes} \cup {None}
  <2>1. channel \in {o.channel : o \in Opcodes} \cup {None}
    BY DEF IInv, Known
  <2> HIDE DEF modifier
  <2>2. QED
    BY <1>1, <2>1, AppendedChannels, Zenon
<1> HIDE DEF f, name, accepted, modifier
<1>6. Started(phase', phaseAt, at') /\ at' \in Nat /\ phaseAt <= at'
  BY <1>1, <1>3, AfterWaiting
<1>7. Growing' /\ Emitting'
  BY <1>1, <1>6, ReadsOn
<1>8. Known'
  BY <1>1, <1>2, <1>4, <1>5, <1>6 DEF IInv, Known, emitting
<1>9. QED
  BY <1>7, <1>8 DEF IInv

(* The consequence of a reset or of a write is a field of no bytes.         *)
LEMMA SessionForm ==
    LET session == AddAll(Field("Session", NoSpan), <<Field("IoMode", NoSpan)>>)
    IN  session \in Phase /\ ~HasSpan(session.span)
<1> DEFINE more == <<Field("IoMode", NoSpan)>>
           session == AddAll(Field("Session", NoSpan), more)
<1>1. "Session" \in Name /\ "IoMode" \in Name
  BY Names
<1>2. Row(Part, more, 0, 0) /\ NoSpan \in Span /\ Inside(NoSpan, 0, 0) /\ 0 \in Nat
  BY <1>1, NoBytes, NoSpanForm
<1> HIDE DEF more
<1>3. session \in Node(Part) /\ Inside(session.span, 0, 0)
  BY <1>1, <1>2, PartsAreFields, Made
<1> HIDE DEF session
<1>4. session.span \in Span
  BY <1>3, NodeForm
<1>5. ~HasSpan(session.span)
  BY <1>3, <1>4 DEF Inside, HasSpan, Span
<1>6. QED
  BY <1>3, <1>5 DEF Phase, session, more

LEMMA RecordSessionUpdateKeeps ==
    ASSUME IInv, NEW changes \in BOOLEAN, RecordSessionUpdate(changes)
    PROVE  IInv'
<1> DEFINE session == AddAll(Field("Session", NoSpan), <<Field("IoMode", NoSpan)>>)
<1>1. /\ pc = "record" /\ pc' = "emit"
      /\ fields' \in {Append(fields, session), fields}
      /\ work' = fields' /\ previousEnd' = 0
      /\ UNCHANGED <<reading, frames>>
  BY DEF RecordSessionUpdate
<1>2. session \in Phase /\ ~HasSpan(session.span)
  BY SessionForm
<1>3. fields \in Seq(Phase) /\ Ordered(fields) /\ frames = << >>
  BY <1>1 DEF IInv, Growing, Emitting
<1> HIDE DEF session
<1>4. fields' \in Seq(Phase) /\ Ordered(fields')
  <2>1. CASE fields' = fields
    BY <1>3, <2>1
  <2>2. CASE fields' = Append(fields, session)
    <3>1. /\ fields' \in Seq(Phase) /\ Len(fields') = Len(fields) + 1 /\ Len(fields) \in Nat
          /\ fields'[Len(fields')] = session
          /\ \A i \in 1..Len(fields) : fields'[i] = fields[i]
      BY <1>2, <1>3, <2>2
    <3>2. ASSUME NEW i \in 1..Len(fields'), NEW j \in 1..Len(fields'), i < j
          PROVE  Follows(fields'[i], fields'[j])
      <4>1. CASE j = Len(fields')
        BY <1>2, <3>1, <4>1 DEF Follows
      <4>2. CASE j # Len(fields')
        <5>1. i \in 1..Len(fields) /\ j \in 1..Len(fields)
          BY <3>1, <3>2, <4>2
        <5>2. QED
          BY <1>3, <3>1, <3>2, <5>1 DEF Ordered
      <4>3. QED
        BY <4>1, <4>2
    <3>3. QED
      BY <3>1, <3>2 DEF Ordered
  <2>3. QED
    BY <1>1, <2>1, <2>2
<1>5. Growing'
  BY <1>1, <1>4 DEF Growing
<1>6. Known'
  BY <1>1 DEF IInv, Known, reading
<1>7. Emitting'
  <2>1. \A i \in 1..Len(work') : \E k \in 1..Len(fields') :
            Covers(fields'[k].span, work'[i].span)
    <3>1. \A i \in 1..Len(fields') : fields'[i].span \in Span
      BY <1>4, PartsAreFields DEF Fields
    <3>2. QED
      BY <1>1, <3>1 DEF Covers, Span
  <2>2. frames' = << >> /\ << >> \in Seq([name : Name, span : Span])
    BY <1>1, <1>3
  <2>3. QED
    BY <1>1, <1>4, <2>1, <2>2 DEF Emitting, Held
<1>8. QED
  BY <1>5, <1>6, <1>7 DEF IInv

-----------------------------------------------------------------------------
(* The walk *)

(* The field to visit next, and those after it. *)
LEMMA HeadForm ==
    ASSUME IInv, pc = "emit", work # << >>
    PROVE  LET f == Head(work)
               rest == Tail(work)
           IN  /\ f \in Phase /\ f.span \in Span /\ rest \in Seq(Phase) /\ Ordered(rest)
               /\ HasSpan(f.span) => Held(f.span)
               /\ \A i \in 1..Len(frames) : DrawnBefore(frames[i], f)
               /\ \A j \in 1..Len(rest) :
                      /\ Follows(f, rest[j]) /\ rest[j] \in Phase /\ rest[j].span \in Span
                      /\ HasSpan(rest[j].span) => Held(rest[j].span)
                      /\ \A i \in 1..Len(frames) : DrawnBefore(frames[i], rest[j])
<1> DEFINE f == Head(work)
           rest == Tail(work)
<1>1. /\ work \in Seq(Phase) /\ Ordered(work)
      /\ \A i \in 1..Len(work) : HasSpan(work[i].span) => Held(work[i].span)
      /\ \A i \in 1..Len(frames), j \in 1..Len(work) : DrawnBefore(frames[i], work[j])
  BY DEF IInv, Emitting
<1>2. /\ f = work[1] /\ rest \in Seq(Phase) /\ 1 \in 1..Len(work)
      /\ \A j \in 1..Len(rest) : rest[j] = work[j + 1] /\ j + 1 \in 1..Len(work) /\ 1 < j + 1
  BY <1>1
<1>3. \A i \in 1..Len(work) : work[i] \in Phase /\ work[i].span \in Span
  BY <1>1, PartsAreFields DEF Fields
<1>4. Ordered(rest)
  <2>1. \A i, j \in 1..Len(rest) : i < j => i + 1 < j + 1
    OBVIOUS
  <2> HIDE DEF rest
  <2>2. QED
    BY <1>1, <1>2, <2>1 DEF Ordered
<1> HIDE DEF f, rest
<1>5. \A j \in 1..Len(rest) : Follows(f, rest[j])
  BY <1>1, <1>2 DEF Ordered
<1>6. QED
  BY <1>1, <1>2, <1>3, <1>4, <1>5 DEF f, rest

(* What the fields before the walk were read into stays as it is. *)
LEMMA WalkKeeps ==
    ASSUME IInv, pc = "emit", UNCHANGED <<pc, reading, fields>>, previousEnd' \in Nat
    PROVE  /\ Known' /\ Growing'
           /\ fields \in Seq(Phase) /\ \A k \in 1..Len(fields) : fields[k].span \in Span
<1>1. fields \in Seq(Phase) /\ Ordered(fields)
  BY DEF IInv, Growing
<1>2. Growing'
  BY <1>1 DEF Growing
<1>3. Known'
  BY DEF IInv, Known, reading
<1>4. QED
  BY <1>1, <1>2, <1>3, PartsAreFields DEF Fields

LEMMA FrameSpans ==
    ASSUME IInv
    PROVE  \A i \in 1..Len(frames) : frames[i].span \in Span
<1> DEFINE Drawn == [name : Name, span : Span]
<1>1. frames \in Seq(Drawn)
  BY DEF IInv, Emitting
<1>2. \A frame \in Drawn : frame.span \in Span
  OBVIOUS
<1> HIDE DEF Drawn
<1>3. \A i \in 1..Len(frames) : frames[i] \in Drawn
  BY <1>1
<1>4. QED
  BY <1>2, <1>3

LEMMA CoversThrough ==
    ASSUME NEW a \in Span, NEW b \in Span, NEW c \in Span, Covers(a, b), Covers(b, c)
    PROVE  Covers(a, c)
BY DEF Covers, Span

LEMMA CoveredBefore ==
    ASSUME NEW a \in Span, NEW b \in Span, NEW c \in Span, Covers(b, a), b.last < c.first
    PROVE  a.last < c.first
BY DEF Covers, Span

LEMMA BeforeCovered ==
    ASSUME NEW a \in Span, NEW b \in Span, NEW c \in Span, Covers(c, b), a.last < c.first
    PROVE  a.last < b.first
BY DEF Covers, Span

LEMMA BeforeInOrder ==
    ASSUME NEW a \in Span, NEW b \in Span, a.last < b.first
    PROVE  InOrder(a, b)
BY DEF InOrder, Span

LEMMA DescendKeeps == ASSUME IInv, Descend PROVE IInv'
<1> DEFINE f == Head(work)
           rest == Tail(work)
           kids == f.children
<1>1. /\ pc = "emit" /\ work # << >> /\ ~Flat(f)
      /\ work' = kids \o rest
      /\ UNCHANGED <<pc, reading, fields, previousEnd, frames>>
  BY DEF Descend, Flat
<1>2. /\ f \in Phase /\ f.span \in Span /\ rest \in Seq(Phase) /\ Ordered(rest)
      /\ HasSpan(f.span) => Held(f.span)
      /\ \A i \in 1..Len(frames) : DrawnBefore(frames[i], f)
      /\ \A j \in 1..Len(rest) :
             /\ Follows(f, rest[j]) /\ rest[j] \in Phase /\ rest[j].span \in Span
             /\ HasSpan(rest[j].span) => Held(rest[j].span)
             /\ \A i \in 1..Len(frames) : DrawnBefore(frames[i], rest[j])
  BY <1>1, HeadForm
<1> HIDE DEF f, rest
<1>3. previousEnd \in Nat /\ frames \in Seq([name : Name, span : Span])
  BY DEF IInv, Known, Emitting
<1>4. /\ Known' /\ Growing'
      /\ fields \in Seq(Phase) /\ \A k \in 1..Len(fields) : fields[k].span \in Span
  BY <1>1, <1>3, WalkKeeps
<1>5. /\ kids \in Seq(Phase) /\ Ordered(kids)
      /\ \A i \in 1..Len(kids) :
             /\ kids[i] \in Phase /\ kids[i].span \in Span
             /\ HasSpan(kids[i].span) => HasSpan(f.span) /\ Covers(f.span, kids[i].span)
  <2>1. kids \in Seq(Part) /\ Fits(f)
    BY <1>2, NodeForm DEF Phase
  <2>2. kids \in Seq(Phase)
    BY <2>1, Levels, SeqMonotonic
  <2>3. QED
    BY <1>1, <2>1, <2>2, PartsAreFields DEF Fits, Fields
<1> HIDE DEF kids
<1>6. \A i \in 1..Len(kids), j \in 1..Len(rest) : Follows(kids[i], rest[j])
  <2> SUFFICES ASSUME NEW i \in 1..Len(kids), NEW j \in 1..Len(rest),
                      HasSpan(kids[i].span), HasSpan(rest[j].span)
               PROVE  kids[i].span.last < rest[j].span.first
    BY DEF Follows
  <2>1. HasSpan(f.span) /\ Covers(f.span, kids[i].span) /\ Follows(f, rest[j])
    BY <1>2, <1>5
  <2>2. f.span.last < rest[j].span.first
    BY <1>1, <2>1 DEF Follows
  <2>3. kids[i].span \in Span /\ rest[j].span \in Span
    BY <1>2, <1>5
  <2>4. QED
    BY <1>2, <2>1, <2>2, <2>3, CoveredBefore
<1>7. \A i \in 1..Len(kids) : HasSpan(kids[i].span) => Held(kids[i].span)
  <2> SUFFICES ASSUME NEW i \in 1..Len(kids), HasSpan(kids[i].span)
               PROVE  Held(kids[i].span)
    OBVIOUS
  <2>1. HasSpan(f.span) /\ Covers(f.span, kids[i].span) /\ kids[i].span \in Span
    BY <1>5
  <2>2. PICK k \in 1..Len(fields) : Covers(fields[k].span, f.span)
    BY <1>2, <2>1 DEF Held
  <2>3. fields[k].span \in Span
    BY <1>4
  <2>4. Covers(fields[k].span, kids[i].span)
    BY <1>2, <2>1, <2>2, <2>3, CoversThrough
  <2>5. QED
    BY <2>4 DEF Held
<1>8. \A i \in 1..Len(frames), j \in 1..Len(kids) : DrawnBefore(frames[i], kids[j])
  <2> SUFFICES ASSUME NEW i \in 1..Len(frames), NEW j \in 1..Len(kids), HasSpan(kids[j].span)
               PROVE  frames[i].span.last < kids[j].span.first
    BY DEF DrawnBefore
  <2>1. HasSpan(f.span) /\ Covers(f.span, kids[j].span) /\ kids[j].span \in Span
    BY <1>5
  <2>2. frames[i].span.last < f.span.first
    BY <1>1, <1>2, <2>1 DEF DrawnBefore
  <2>3. frames[i].span \in Span /\ f.span \in Span
    BY <1>2, FrameSpans
  <2>4. QED
    BY <2>1, <2>2, <2>3, BeforeCovered
<1>9. /\ work' \in Seq(Phase) /\ Len(work') = Len(kids) + Len(rest)
      /\ Len(kids) \in Nat /\ Len(rest) \in Nat
      /\ \A i \in 1..Len(work') :
             \/ i \in 1..Len(kids) /\ work'[i] = kids[i]
             \/ i - Len(kids) \in 1..Len(rest) /\ work'[i] = rest[i - Len(kids)]
                /\ i > Len(kids)
  BY <1>1, <1>2, <1>5
<1>10. Ordered(work')
  <2> SUFFICES ASSUME NEW i \in 1..Len(work'), NEW j \in 1..Len(work'), i < j
               PROVE  Follows(work'[i], work'[j])
    BY DEF Ordered
  <2>1. CASE j \in 1..Len(kids) /\ work'[j] = kids[j]
    <3>1. i \in 1..Len(kids) /\ work'[i] = kids[i]
      BY <1>9, <2>1
    <3>2. QED
      BY <1>5, <2>1, <3>1 DEF Ordered
  <2>2. CASE j - Len(kids) \in 1..Len(rest) /\ work'[j] = rest[j - Len(kids)] /\ j > Len(kids)
    <3>1. CASE i \in 1..Len(kids) /\ work'[i] = kids[i]
      BY <1>6, <2>2, <3>1
    <3>2. CASE i - Len(kids) \in 1..Len(rest) /\ work'[i] = rest[i - Len(kids)]
      <4>1. i - Len(kids) < j - Len(kids)
        BY <1>9
      <4>2. QED
        BY <1>2, <2>2, <3>2, <4>1 DEF Ordered
    <3>3. QED
      BY <1>9, <3>1, <3>2
  <2>3. QED
    BY <1>9, <2>1, <2>2
<1>11. \A i \in 1..Len(work') : HasSpan(work'[i].span) => Held(work'[i].span)
  BY <1>2, <1>7, <1>9
<1>12. \A i \in 1..Len(frames), j \in 1..Len(work') : DrawnBefore(frames[i], work'[j])
  BY <1>2, <1>8, <1>9
<1>13. Emitting'
  BY <1>1, <1>9, <1>10, <1>11, <1>12 DEF IInv, Emitting, Held
<1>14. QED
  BY <1>4, <1>13 DEF IInv

LEMMA SkipKeeps == ASSUME IInv, Skip PROVE IInv'
<1> DEFINE rest == Tail(work)
<1>1. /\ pc = "emit" /\ work # << >> /\ work' = rest
      /\ UNCHANGED <<pc, reading, fields, previousEnd, frames>>
  BY DEF Skip
<1>2. /\ rest \in Seq(Phase) /\ Ordered(rest)
      /\ \A j \in 1..Len(rest) :
             /\ HasSpan(rest[j].span) => Held(rest[j].span)
             /\ \A i \in 1..Len(frames) : DrawnBefore(frames[i], rest[j])
  BY <1>1, HeadForm
<1> HIDE DEF rest
<1>3. Known' /\ Growing'
  BY <1>1, WalkKeeps DEF IInv, Known
<1>4. Emitting'
  BY <1>1, <1>2 DEF IInv, Emitting, Held
<1>5. QED
  BY <1>3, <1>4 DEF IInv

LEMMA AddFrameKeeps == ASSUME IInv, AddFrame PROVE IInv'
<1> DEFINE f == Head(work)
           rest == Tail(work)
           frame == [name |-> f.name, span |-> f.span]
<1>1. /\ pc = "emit" /\ work # << >> /\ Flat(f) /\ HasSpan(f.span)
      /\ frames' = Append(frames, frame)
      /\ previousEnd' = f.span.last
      /\ work' = rest
      /\ UNCHANGED <<pc, reading, fields>>
  BY DEF AddFrame, Flat, Emittable, HasSpan
<1>2. /\ f \in Phase /\ f.span \in Span /\ rest \in Seq(Phase) /\ Ordered(rest)
      /\ HasSpan(f.span) => Held(f.span)
      /\ \A i \in 1..Len(frames) : DrawnBefore(frames[i], f)
      /\ \A j \in 1..Len(rest) :
             /\ Follows(f, rest[j]) /\ rest[j] \in Phase /\ rest[j].span \in Span
             /\ HasSpan(rest[j].span) => Held(rest[j].span)
             /\ \A i \in 1..Len(frames) : DrawnBefore(frames[i], rest[j])
  BY <1>1, HeadForm
<1> HIDE DEF f, rest
<1>3. previousEnd' \in Nat
  BY <1>1, <1>2 DEF Span
<1>4. Known' /\ Growing'
  BY <1>1, <1>3, WalkKeeps
<1>5. /\ frames \in Seq([name : Name, span : Span])
      /\ \A i \in 1..Len(frames) :
             HasSpan(frames[i].span) /\ Held(frames[i].span) /\ frames[i].span \in Span
      /\ \A i, j \in 1..Len(frames) : i < j => DrawnInOrder(frames[i], frames[j])
  BY FrameSpans DEF IInv, Emitting
<1>6. frame \in [name : Name, span : Span] /\ frame.span = f.span /\ frame.name = f.name
  BY <1>2, NodeForm DEF Phase
<1> HIDE DEF frame
<1>7. /\ frames' \in Seq([name : Name, span : Span])
      /\ Len(frames') = Len(frames) + 1 /\ Len(frames) \in Nat
      /\ \A i \in 1..Len(frames') :
             \/ i \in 1..Len(frames) /\ frames'[i] = frames[i]
             \/ i = Len(frames) + 1 /\ frames'[i] = frame
  BY <1>1, <1>5, <1>6
<1>8. \A i \in 1..Len(frames') : HasSpan(frames'[i].span) /\ Held(frames'[i].span)
  BY <1>1, <1>2, <1>5, <1>6, <1>7
<1>9. \A i \in 1..Len(frames) : DrawnInOrder(frames[i], frame)
  <2> SUFFICES ASSUME NEW i \in 1..Len(frames)
               PROVE  DrawnInOrder(frames[i], f)
    BY <1>6 DEF DrawnInOrder, Shared
  <2>1. \/ frames[i].span.last < f.span.first
        \/ InOrder(frames[i].span, f.span) /\ Shared(frames[i], f)
    BY <1>1, <1>2 DEF DrawnBefore
  <2>2. QED
    BY <1>2, <1>5, <2>1, BeforeInOrder DEF DrawnInOrder
<1>10. \A i, j \in 1..Len(frames') : i < j => DrawnInOrder(frames'[i], frames'[j])
  BY <1>5, <1>7, <1>9
<1>11. \A j \in 1..Len(rest) : DrawnBefore(frame, rest[j])
  BY <1>1, <1>2, <1>6 DEF DrawnBefore, Follows, Shared
<1>12. \A i \in 1..Len(frames'), j \in 1..Len(rest) : DrawnBefore(frames'[i], rest[j])
  BY <1>2, <1>7, <1>11
<1>13. Emitting'
  BY <1>1, <1>2, <1>7, <1>8, <1>10, <1>12 DEF Emitting, Held
<1>14. QED
  BY <1>4, <1>13 DEF IInv

LEMMA CommitKeeps == ASSUME IInv, Commit PROVE IInv'
<1>1. Known'
  BY DEF IInv, Known, Commit
<1>2. Growing'
  <2>1. Started(Field("Command", NoSpan), 0, 0)
    BY NewPhase, Names
  <2>2. Row(Phase, << >>, 0, 0)
    BY EmptyRow
  <2>3. QED
    BY <2>1, <2>2 DEF Commit, Growing
<1>3. Emitting'
  <2>1. work' = << >> /\ frames' = << >>
    BY DEF Commit
  <2>2. << >> \in Seq(Phase) /\ Ordered(<< >>) /\ << >> \in Seq([name : Name, span : Span])
    BY DEF Ordered
  <2>3. QED
    BY <2>1, <2>2 DEF Emitting
<1>4. QED
  BY <1>1, <1>2, <1>3 DEF IInv

-----------------------------------------------------------------------------
(* Theorems *)

LEMMA StutterKeeps == ASSUME IInv, UNCHANGED vars PROVE IInv'
<1>1. UNCHANGED <<pc, opcode, layout, channel, todo, at, phase, phaseAt, fields, work,
                  previousEnd, frames>>
  BY DEF vars
<1>2. Known' /\ Growing'
  BY <1>1 DEF IInv, Known, Growing
<1>3. Emitting'
  BY <1>1 DEF IInv, Emitting, Held
<1>4. QED
  BY <1>2, <1>3 DEF IInv

LEMMA NextIInv == IInv /\ [Next]_vars => IInv'
<1> SUFFICES ASSUME IInv, [Next]_vars PROVE IInv'
  OBVIOUS
<1>1. CASE RunOut
  BY <1>1, RunOutKeeps
<1>2. CASE CommandStep
  BY <1>2, ReadUndefinedOpcodeKeeps, ReadReservedLengthKeeps, ReadOpcodeKeeps,
     ReadResetRemainderKeeps DEF CommandStep
<1>3. CASE ElementStep
  <2>1. \A e \in {"Addr16", "Data32", "Status16", "IoAddr16", "MemAddr32"} : e \in Element
    BY DEF Element
  <2>2. QED
    BY <1>3, <2>1, ReadFixedKeeps, ReadShortDataKeeps, ReadVwirePacketKeeps, ReadCycleHeaderKeeps,
       UnknownCycleTypeKeeps, ReadPayloadKeeps, EndElementsKeeps DEF ElementStep
<1>4. CASE ReadCrc
  BY <1>4, ReadCrcKeeps
<1>5. CASE ResponseStep
  BY <1>5, TurnAroundKeeps, TurnAroundRunsOutKeeps, ReadLastResponseKeeps, ReadResponseKeeps
     DEF ResponseStep
<1>6. CASE \E changes \in BOOLEAN : RecordSessionUpdate(changes)
  BY <1>6, RecordSessionUpdateKeeps
<1>7. CASE Walk
  BY <1>7, DescendKeeps, SkipKeeps, AddFrameKeeps DEF Walk
<1>8. CASE Commit
  BY <1>8, CommitKeeps
<1>9. CASE UNCHANGED vars
  BY <1>9, StutterKeeps
<1>10. QED
  BY <1>1, <1>2, <1>3, <1>4, <1>5, <1>6, <1>7, <1>8, <1>9 DEF Next, Decode

(* Whatever packets come and wherever they are cut short, the phase being   *)
(* read is of the bytes read since it began, the phases recorded come one   *)
(* after another, and what EmitField has still to visit comes after what it *)
(* has drawn (LinkDecoder::DecodeTransaction, Field::Add, EmitField).       *)
THEOREM Invariance == Spec => []IInv
BY InitIInv, NextIInv, PTL DEF Spec

(* The fields below phases: parts, what explains them, and what explains    *)
(* that, all of them fields that cover their children.                      *)
LEMMA TreeForm == ASSUME IInv PROVE Tree \subseteq Phase
<1>1. fields \in Seq(Phase)
  BY DEF IInv, Growing, Row
<1>2. Range(fields) \subseteq Phase
  BY <1>1 DEF Range
<1>3. ASSUME NEW S, NEW T, S \subseteq Node(T)
      PROVE  Below(S) \subseteq T
  <2> SUFFICES ASSUME NEW f \in S, NEW child \in Range(f.children)
               PROVE  child \in T
    BY DEF Below
  <2>1. f.children \in Seq(T)
    BY <1>3, NodeForm
  <2>2. QED
    BY <2>1 DEF Range
<1>4. Below(Range(fields)) \subseteq Part
  BY <1>2, <1>3 DEF Phase
<1>5. Below(Below(Range(fields))) \subseteq Explanation
  BY <1>3, <1>4 DEF Part, Whole
<1>6. Below(Below(Below(Range(fields)))) \subseteq Cell
  BY <1>3, <1>5 DEF Explanation, Whole
<1>7. QED
  BY <1>2, <1>4, <1>5, <1>6, Levels DEF Tree

LEMMA IInvTypeOK == IInv => TypeOK
<1> SUFFICES ASSUME IInv PROVE TypeOK
  OBVIOUS
<1>1. \A f \in Range(fields) : f.span \in Span
  <2>1. fields \in Seq(Phase)
    BY DEF IInv, Growing, Row
  <2>2. QED
    BY <2>1, PartsAreFields DEF Range, Fields
<1>2. \A f \in Range(work) : f.span \in Span
  <2>1. work \in Seq(Phase)
    BY DEF IInv, Emitting
  <2>2. QED
    BY <2>1, PartsAreFields DEF Range, Fields
<1>3. \A f \in Range(frames) : f.span \in Span
  <2>1. DOMAIN frames = 1..Len(frames)
    BY DEF IInv, Emitting
  <2>2. QED
    BY <2>1, FrameSpans DEF Range
<1>4. \A f \in Range(fields) \cup Range(work) \cup Range(frames) : f.span.last >= f.span.first
  BY <1>1, <1>2, <1>3 DEF Span
<1>5. QED
  BY <1>4 DEF TypeOK, IInv, Known

(* The decode and the walk stay in the states they are made of, and no span *)
(* ends before it begins.                                                   *)
THEOREM TypeCorrect == Spec => []TypeOK
BY Invariance, IInvTypeOK, PTL

LEMMA IInvSpanContainment == IInv => SpanContainment
<1> SUFFICES ASSUME IInv, NEW f \in Tree, NEW child \in Range(f.children),
                    HasSpan(child.span)
             PROVE  Covers(f.span, child.span)
  BY DEF SpanContainment
<1>1. f \in Node(Part)
  BY TreeForm DEF Phase
<1>2. f.children \in Seq(Part) /\ Fits(f)
  BY <1>1, NodeForm
<1>3. PICK i \in 1..Len(f.children) : child = f.children[i]
  BY <1>2 DEF Range
<1>4. QED
  BY <1>2, <1>3 DEF Fits

(* Every field the decoder makes, of a packet whole or cut short, covers    *)
(* every field below it that has bytes (Field::Add, and command.span =      *)
(* cmd.Span() at the end of a phase).                                       *)
THEOREM SpansContain == Spec => []SpanContainment
BY Invariance, IInvSpanContainment, PTL

LEMMA IInvFramesInOrder == IInv => FramesInOrder
<1> SUFFICES ASSUME IInv, Walked PROVE FramesInOrder
  BY DEF FramesInOrder
<1>1. /\ DOMAIN frames = 1..Len(frames) /\ Len(frames) \in Nat
      /\ \A i \in 1..Len(frames) : HasSpan(frames[i].span) /\ Held(frames[i].span)
      /\ \A i, j \in 1..Len(frames) : i < j => InOrder(frames[i].span, frames[j].span)
  BY DEF IInv, Emitting, DrawnInOrder
<1>2. DOMAIN fields = 1..Len(fields)
  <2>1. fields \in Seq(Phase)
    BY DEF IInv, Growing, Row
  <2>2. QED
    BY <2>1
<1>3. ASSUME NEW frame \in Range(frames)
      PROVE  HasSpan(frame.span) /\ \E f \in Range(fields) : Covers(f.span, frame.span)
  <2>1. PICK i \in 1..Len(frames) : frame = frames[i]
    BY <1>1 DEF Range
  <2>2. HasSpan(frame.span) /\ \E k \in 1..Len(fields) : Covers(fields[k].span, frame.span)
    BY <1>1, <2>1 DEF Held
  <2>3. QED
    BY <1>2, <2>2 DEF Range
<1>4. ASSUME NEW i \in 2..Len(frames)
      PROVE  /\ frames[i - 1].span.first <= frames[i].span.first
             /\ frames[i - 1].span.last <= frames[i].span.last
  <2>1. i \in 1..Len(frames) /\ i - 1 \in 1..Len(frames) /\ i - 1 < i
    BY <1>1
  <2>2. InOrder(frames[i - 1].span, frames[i].span)
    BY <1>1, <2>1
  <2>3. QED
    BY <1>1, <2>1, <2>2 DEF InOrder
<1>5. QED
  BY <1>3, <1>4 DEF FramesInOrder

(* Every frame is of real samples of one phase or of the turn-around, and   *)
(* none begins or ends before the one drawn before it, which the viewer     *)
(* needs of the frames of a channel (EmitField, EspiAnalyzer.cpp).          *)
THEOREM FramesOrdered == Spec => []FramesInOrder
BY Invariance, IInvFramesInOrder, PTL

LEMMA IInvOverlapsAreShared == IInv => OverlapsAreShared
<1> SUFFICES ASSUME IInv, NEW i \in DOMAIN frames, NEW j \in DOMAIN frames, i < j, Overlap(i, j)
             PROVE  {frames[i].name, frames[j].name} \in SharedBytes
  BY DEF OverlapsAreShared
<1>1. i \in 1..Len(frames) /\ j \in 1..Len(frames)
  BY DEF IInv, Emitting
<1>2. DrawnInOrder(frames[i], frames[j])
  BY <1>1 DEF IInv, Emitting
<1>3. frames[i].span \in Span /\ frames[j].span \in Span
  BY <1>1, FrameSpans
<1>4. QED
  BY <1>2, <1>3 DEF DrawnInOrder, Overlap, Shared, Span

(* Frames overlap only where one byte was read into several fields, which   *)
(* is as far as EmitField's assertion goes (EspiAnalyzer.cpp).              *)
THEOREM OverlapsShared == Spec => []OverlapsAreShared
BY Invariance, IInvOverlapsAreShared, PTL

-----------------------------------------------------------------------------
(* Every sample of every field *)

(* Whether visiting a field draws a sample: the field's own if it is drawn, *)
(* and else its children's; fields have at most three levels below them.    *)
DrawsCells(f, sample) ==
    IF Flat(f) THEN Under(f, sample) ELSE \E i \in 1..Len(f.children) : Under(f.children[i], sample)

DrawsExplanations(f, sample) ==
    IF Flat(f) THEN Under(f, sample)
    ELSE \E i \in 1..Len(f.children) : DrawsCells(f.children[i], sample)

Draws(f, sample) ==
    IF Flat(f) THEN Under(f, sample)
    ELSE \E i \in 1..Len(f.children) : DrawsExplanations(f.children[i], sample)

Drawn(sample) ==
    \E i \in 1..Len(frames) :
        frames[i].span.first <= sample /\ sample <= frames[i].span.last

(* What is drawn of a transaction or has still to be. *)
Owed ==
    pc = "emit" =>
        \A f \in Below(Tree), sample \in Nat :
            Kept(f, sample) => Drawn(sample) \/ \E i \in 1..Len(work) : Draws(work[i], sample)

LEMMA UnderParent ==
    ASSUME NEW S, Fields(S), NEW f \in Node(S), NEW i \in 1..Len(f.children), NEW sample \in Nat,
           Under(f.children[i], sample)
    PROVE  Under(f, sample)
<1>1. f.span \in Span /\ f.children[i].span \in Span
  BY NodeForm DEF Fields
<1>2. HasSpan(f.span) /\ Covers(f.span, f.children[i].span)
  BY NodeForm DEF Fits, Under
<1>3. QED
  BY <1>1, <1>2 DEF Under, Covers, Span

(* Of an explanation, a part, a phase: its own samples if they are kept,    *)
(* and those of the fields below it, are drawn.                             *)
LEMMA ExplanationDrawn ==
    ASSUME NEW f \in Explanation, NEW sample \in Nat
    PROVE  /\ Kept(f, sample) => DrawsCells(f, sample)
           /\ \A i \in 1..Len(f.children) : Under(f.children[i], sample) => DrawsCells(f, sample)
           /\ DrawsCells(f, sample) => Under(f, sample)
<1>1. f \in Node(Cell) /\ Tiled(f)
  BY DEF Explanation, Whole
<1>2. \A i \in 1..Len(f.children) : Under(f.children[i], sample) => Under(f, sample)
  BY <1>1, PartsAreFields, UnderParent
<1>3. Kept(f, sample) => DrawsCells(f, sample)
  BY <1>1 DEF Tiled, Kept, DrawsCells
<1>4. QED
  BY <1>2, <1>3 DEF DrawsCells

LEMMA PartDrawn ==
    ASSUME NEW f \in Part, NEW sample \in Nat
    PROVE  /\ Kept(f, sample) => DrawsExplanations(f, sample)
           /\ \A i \in 1..Len(f.children) :
                  DrawsCells(f.children[i], sample) => DrawsExplanations(f, sample)
           /\ DrawsExplanations(f, sample) => Under(f, sample)
<1>1. f \in Node(Explanation) /\ Tiled(f) /\ f.children \in Seq(Explanation)
  BY NodeForm DEF Part, Whole
<1>2. \A i \in 1..Len(f.children) :
          /\ Kept(f.children[i], sample) => DrawsCells(f.children[i], sample)
          /\ DrawsCells(f.children[i], sample) => Under(f, sample)
  BY <1>1, PartsAreFields, UnderParent, ExplanationDrawn
<1>3. Kept(f, sample) => DrawsExplanations(f, sample)
  BY <1>1, <1>2 DEF Tiled, Kept, DrawsExplanations
<1>4. QED
  BY <1>2, <1>3 DEF DrawsExplanations

LEMMA PhaseDrawn ==
    ASSUME NEW f \in Phase, NEW sample \in Nat, NEW i \in 1..Len(f.children),
           DrawsExplanations(f.children[i], sample)
    PROVE  Draws(f, sample)
<1>1. f \in Node(Part) /\ f.children \in Seq(Part)
  BY NodeForm DEF Phase
<1>2. Under(f, sample)
  BY <1>1, PartsAreFields, UnderParent, PartDrawn
<1>3. QED
  BY <1>2 DEF Draws

(* A field one level further down is drawn no differently. *)
LEMMA DrawnAsPart == ASSUME NEW f \in Part, NEW sample \in Nat
                     PROVE  Draws(f, sample) <=> DrawsExplanations(f, sample)
<1>1. \A c \in Cell : DrawsCells(c, sample) <=> Under(c, sample)
  BY CellsAreFlat DEF DrawsCells
<1>2. ASSUME NEW e \in Explanation
      PROVE  DrawsExplanations(e, sample) <=> DrawsCells(e, sample)
  <2>1. e.children \in Seq(Cell)
    BY NodeForm DEF Explanation, Whole
  <2>2. QED
    BY <1>1, <2>1 DEF DrawsExplanations, DrawsCells
<1>3. f.children \in Seq(Explanation)
  BY NodeForm DEF Part, Whole
<1>4. QED
  BY <1>2, <1>3, SMTT(30) DEF Draws, DrawsExplanations

(* The tree of any phases. *)
TreeOf(all) == LET phases == Range(all)
               IN  UNION {phases, Below(phases), Below(Below(phases)), Below(Below(Below(phases)))}

LEMMA BelowOf ==
    ASSUME NEW S, NEW T, S \subseteq Node(T), NEW g \in Below(S)
    PROVE  g \in T /\ \E h \in S : \E i \in 1..Len(h.children) : g = h.children[i]
<1>1. PICK h \in S : g \in Range(h.children)
  BY DEF Below
<1>2. h.children \in Seq(T)
  BY NodeForm
<1>3. \E i \in 1..Len(h.children) : g = h.children[i]
  BY <1>1, <1>2, SMTT(30) DEF Range
<1>4. QED
  BY <1>2, <1>3

(* A field below the phases is in one of them, within its parts or within   *)
(* what explains these.                                                     *)
LEMMA BelowForm ==
    ASSUME NEW all \in Seq(Phase), NEW f \in Below(TreeOf(all))
    PROVE  /\ f \in Part
           /\ \E k \in 1..Len(all) : \E i \in 1..Len(all[k].children) :
                  LET p == all[k].children[i]
                  IN  \/ f = p
                      \/ \E j \in 1..Len(p.children) :
                             \/ f = p.children[j]
                             \/ \E m \in 1..Len(p.children[j].children) :
                                    f = p.children[j].children[m]
<1> DEFINE phases == Range(all)
           parts == Below(phases)
           explanations == Below(parts)
           cells == Below(explanations)
<1>1. phases \subseteq Node(Part) /\ \A g \in phases : \E k \in 1..Len(all) : g = all[k]
  BY DEF Range, Phase
<1>2. TreeOf(all) = phases \cup parts \cup explanations \cup cells
  BY DEF TreeOf
<1>3. f \in parts \cup explanations \cup cells \cup Below(cells)
  BY <1>2 DEF Below
<1> HIDE DEF phases
<1>4. \A g \in parts : g \in Part /\ \E k \in 1..Len(all) :
                           \E i \in 1..Len(all[k].children) : g = all[k].children[i]
  <2> SUFFICES ASSUME NEW g \in parts
               PROVE  g \in Part /\ \E k \in 1..Len(all) :
                          \E i \in 1..Len(all[k].children) : g = all[k].children[i]
    OBVIOUS
  <2>1. g \in Part /\ \E h \in phases : \E i \in 1..Len(h.children) : g = h.children[i]
    BY <1>1, BelowOf
  <2>2. QED
    BY <1>1, <2>1
<1>5. parts \subseteq Node(Explanation)
  BY <1>4 DEF Part, Whole
<1> HIDE DEF parts
<1>6. \A g \in explanations :
          g \in Explanation /\ \E h \in parts : \E i \in 1..Len(h.children) : g = h.children[i]
  BY <1>5, BelowOf, ZenonT(60)
<1>7. explanations \subseteq Node(Cell)
  BY <1>6 DEF Explanation, Whole
<1> HIDE DEF explanations
<1>8. \A g \in cells :
          g \in Cell /\ \E h \in explanations : \E i \in 1..Len(h.children) : g = h.children[i]
  BY <1>7, BelowOf, SMTT(30)
<1>9. cells \subseteq Node({})
  BY <1>8 DEF Cell
<1> HIDE DEF cells
<1>10. f \notin Below(cells)
  <2>1. f \in Below(cells) => f \in {}
    BY <1>9, BelowOf
  <2>2. QED
    BY <2>1
<1>11. CASE f \in parts
  BY <1>4, <1>11
<1>12. CASE f \in explanations
  <2>1. PICK p \in parts : \E j \in 1..Len(p.children) : f = p.children[j]
    BY <1>6, <1>12
  <2>2. PICK k \in 1..Len(all) : \E i \in 1..Len(all[k].children) : p = all[k].children[i]
    BY <1>4, <2>1
  <2>3. PICK i \in 1..Len(all[k].children) : p = all[k].children[i]
    BY <2>2
  <2>4. QED
    BY <1>6, <1>12, <2>1, <2>3, Levels
<1>13. CASE f \in cells
  <2>1. PICK e \in explanations : \E m \in 1..Len(e.children) : f = e.children[m]
    BY <1>8, <1>13
  <2>2. PICK p \in parts : \E j \in 1..Len(p.children) : e = p.children[j]
    BY <1>6, <2>1
  <2>3. PICK k \in 1..Len(all) : \E i \in 1..Len(all[k].children) : p = all[k].children[i]
    BY <1>4, <2>2
  <2>4. PICK i \in 1..Len(all[k].children) : p = all[k].children[i]
    BY <2>3
  <2>5. f \in Part
    BY <1>8, <1>13, Levels
  <2>6. QED
    BY <2>1, <2>2, <2>4, <2>5, ZenonT(60)
<1>14. QED
  BY <1>3, <1>10, <1>11, <1>12, <1>13

(* The walk begins with all the phases. *)
LEMMA PhasesDrawn ==
    ASSUME NEW all \in Seq(Phase), NEW f \in Below(TreeOf(all)), NEW sample \in Nat, Kept(f, sample)
    PROVE  \E k \in 1..Len(all) : Draws(all[k], sample)
<1>1. PICK k \in 1..Len(all) : \E i \in 1..Len(all[k].children) :
          LET p == all[k].children[i]
          IN  \/ f = p
              \/ \E j \in 1..Len(p.children) :
                     \/ f = p.children[j]
                     \/ \E m \in 1..Len(p.children[j].children) : f = p.children[j].children[m]
  BY BelowForm
<1> DEFINE w == all[k]
<1>2. w \in Phase /\ w.children \in Seq(Part)
  BY NodeForm, SMTT(30) DEF Phase
<1>3. PICK i \in 1..Len(w.children) :
          \/ f = w.children[i]
          \/ \E j \in 1..Len(w.children[i].children) :
                 \/ f = w.children[i].children[j]
                 \/ \E m \in 1..Len(w.children[i].children[j].children) :
                        f = w.children[i].children[j].children[m]
  BY <1>1
<1> DEFINE p == w.children[i]
<1>4. p \in Part /\ p.children \in Seq(Explanation)
  BY <1>2, NodeForm, SMTT(30) DEF Part, Whole
<1>5. DrawsExplanations(p, sample)
  <2>1. CASE f = p
    BY <1>4, <2>1, PartDrawn
  <2>2. CASE \E j \in 1..Len(p.children) :
                 \/ f = p.children[j]
                 \/ \E m \in 1..Len(p.children[j].children) : f = p.children[j].children[m]
    <3> HIDE DEF p
    <3>1. PICK j \in 1..Len(p.children) :
              \/ f = p.children[j]
              \/ \E m \in 1..Len(p.children[j].children) : f = p.children[j].children[m]
      BY <2>2
    <3>2. p.children[j] \in Explanation
      BY <1>4
    <3>3. Under(f, sample)
      BY DEF Kept
    <3>4. DrawsCells(p.children[j], sample)
      BY <3>1, <3>2, <3>3, ExplanationDrawn
    <3>5. QED
      BY <1>4, <3>4, PartDrawn
  <2>3. QED
    BY <1>3, <2>1, <2>2
<1> HIDE DEF w
<1>6. Draws(w, sample)
  BY <1>2, <1>5, PhaseDrawn
<1>7. QED
  BY <1>6 DEF w

(* What is still to be drawn of the work, but for its head. *)
LEMMA DrawsRest ==
    ASSUME IInv, pc = "emit", work # << >>, NEW sample \in Nat,
           NEW k \in 1..Len(work), Draws(work[k], sample)
    PROVE  \/ Draws(Head(work), sample)
           \/ \E i \in 1..Len(Tail(work)) : Draws(Tail(work)[i], sample)
<1>1. work \in Seq(Phase)
  BY DEF IInv, Emitting
<1>2. CASE k = 1
  BY <1>1, <1>2
<1>3. CASE k # 1
  <2>1. k - 1 \in 1..Len(Tail(work)) /\ Tail(work)[k - 1] = work[k]
    BY <1>1, <1>3
  <2>2. QED
    BY <2>1
<1>4. QED
  BY <1>2, <1>3

(* Visiting the children of a field that is not drawn draws no less. *)
LEMMA DescendOwed == ASSUME IInv, Owed, Descend PROVE Owed'
<1> DEFINE f == Head(work)
           rest == Tail(work)
<1>1. /\ pc = "emit" /\ work # << >> /\ ~Flat(f) /\ work' = f.children \o rest
      /\ UNCHANGED <<pc, fields, frames>>
  BY DEF Descend, Flat
<1>2. f \in Phase /\ f.children \in Seq(Part) /\ rest \in Seq(Phase)
  <2>1. f \in Phase /\ rest \in Seq(Phase)
    BY <1>1, HeadForm
  <2> HIDE DEF f, rest
  <2>2. QED
    BY <2>1, NodeForm DEF Phase
<1>3. f.children \in Seq(Phase)
  BY <1>2, Levels, SeqMonotonic
<1> HIDE DEF f, rest
<1>4. /\ \A i \in 1..Len(f.children) :
             i \in 1..Len(work') /\ work'[i] = f.children[i] /\ f.children[i] \in Part
      /\ \A i \in 1..Len(rest) :
             Len(f.children) + i \in 1..Len(work') /\ work'[Len(f.children) + i] = rest[i]
  BY <1>1, <1>2, <1>3
<1> SUFFICES ASSUME NEW g \in Below(Tree), NEW sample \in Nat, Kept(g, sample), ~Drawn(sample)
             PROVE  \E i \in 1..Len(work') : Draws(work'[i], sample)
  BY <1>1, Zenon DEF Owed, Tree, Below, Drawn
<1>5. PICK k \in 1..Len(work) : Draws(work[k], sample)
  BY <1>1 DEF Owed
<1>6. Draws(f, sample) \/ \E i \in 1..Len(rest) : Draws(rest[i], sample)
  BY <1>1, <1>5, DrawsRest DEF f, rest
<1>7. CASE Draws(f, sample)
  <2>1. PICK i \in 1..Len(f.children) : DrawsExplanations(f.children[i], sample)
    BY <1>1, <1>7 DEF Draws
  <2>2. Draws(f.children[i], sample)
    BY <1>4, <2>1, DrawnAsPart
  <2>3. QED
    BY <1>4, <2>2
<1>8. CASE \E i \in 1..Len(rest) : Draws(rest[i], sample)
  BY <1>4, <1>8
<1>9. QED
  BY <1>6, <1>7, <1>8

(* A field that is skipped has no samples, one that is drawn has a frame.   *)
LEMMA SkipOwed == ASSUME IInv, Owed, Skip PROVE Owed'
<1> DEFINE f == Head(work)
           rest == Tail(work)
<1>1. /\ pc = "emit" /\ work # << >> /\ Flat(f) /\ ~HasSpan(f.span) /\ work' = rest
      /\ UNCHANGED <<pc, fields, frames>>
  BY DEF Skip, Flat, Emittable, HasSpan
<1> HIDE DEF f, rest
<1> SUFFICES ASSUME NEW g \in Below(Tree), NEW sample \in Nat, Kept(g, sample), ~Drawn(sample)
             PROVE  \E i \in 1..Len(rest) : Draws(rest[i], sample)
  BY <1>1, Zenon DEF Owed, Tree, Below, Drawn
<1>2. PICK k \in 1..Len(work) : Draws(work[k], sample)
  BY <1>1 DEF Owed
<1>3. Draws(f, sample) \/ \E i \in 1..Len(rest) : Draws(rest[i], sample)
  BY <1>1, <1>2, DrawsRest DEF f, rest
<1>4. ~Draws(f, sample)
  BY <1>1 DEF Draws, Under
<1>5. QED
  BY <1>3, <1>4

LEMMA AddFrameOwed == ASSUME IInv, Owed, AddFrame PROVE Owed'
<1> DEFINE f == Head(work)
           rest == Tail(work)
           frame == [name |-> f.name, span |-> f.span]
<1>1. /\ pc = "emit" /\ work # << >> /\ Flat(f) /\ work' = rest
      /\ frames' = Append(frames, frame)
      /\ UNCHANGED <<pc, fields>>
  BY DEF AddFrame, Flat
<1>2. frame.span = f.span /\ frame \in [name : Name, span : Span]
  <2>1. f \in Phase
    BY <1>1, HeadForm
  <2> HIDE DEF f
  <2>2. QED
    BY <2>1, NodeForm DEF Phase
<1>3. frames \in Seq([name : Name, span : Span])
  BY DEF IInv, Emitting
<1> HIDE DEF f, rest, frame
<1>4. /\ \A i \in 1..Len(frames) : i \in 1..Len(frames') /\ frames'[i] = frames[i]
      /\ Len(frames) + 1 \in 1..Len(frames') /\ frames'[Len(frames) + 1] = frame
  BY <1>1, <1>2, <1>3
<1> SUFFICES ASSUME NEW g \in Below(Tree), NEW sample \in Nat, Kept(g, sample)
             PROVE  Drawn(sample)' \/ \E i \in 1..Len(rest) : Draws(rest[i], sample)
  BY <1>1, Zenon DEF Owed, Tree, Below
<1>5. CASE Drawn(sample)
  BY <1>4, <1>5 DEF Drawn
<1>6. CASE \E k \in 1..Len(work) : Draws(work[k], sample)
  <2>1. PICK k \in 1..Len(work) : Draws(work[k], sample)
    BY <1>6
  <2>2. Draws(f, sample) \/ \E i \in 1..Len(rest) : Draws(rest[i], sample)
    BY <1>1, <2>1, DrawsRest DEF f, rest
  <2>3. CASE Draws(f, sample)
    <3>1. f.span.first <= sample /\ sample <= f.span.last
      BY <1>1, <2>3 DEF Draws, Under
    <3>2. Drawn(sample)'
      BY <1>2, <1>4, <3>1 DEF Drawn
    <3>3. QED
      BY <3>2
  <2>4. QED
    BY <2>2, <2>3
<1>7. QED
  BY <1>1, <1>5, <1>6 DEF Owed

LEMMA RecordOwed ==
    ASSUME IInv', NEW changes \in BOOLEAN, RecordSessionUpdate(changes)
    PROVE  Owed'
<1>1. work' = fields' /\ fields' \in Seq(Phase)
  BY DEF RecordSessionUpdate, IInv, Growing, Row
<1>2. (Tree)' = TreeOf(fields')
  BY DEF Tree, TreeOf
<1>3. QED
  BY <1>1, <1>2, PhasesDrawn DEF Owed

LEMMA NextOwed == IInv /\ IInv' /\ Owed /\ [Next]_vars => Owed'
<1> SUFFICES ASSUME IInv, IInv', Owed, [Next]_vars
             PROVE  Owed'
  OBVIOUS
<1>1. CASE RunOut
  BY <1>1 DEF RunOut, Stop, Owed
<1>2. CASE CommandStep
  BY <1>2 DEF CommandStep, ReadUndefinedOpcode, ReadReservedLength, ReadOpcode,
              ReadResetRemainder, Stop, Owed
<1>3. CASE ElementStep
  <2>1. pc = "elements" /\ pc' \in {"elements", "record", "crc"}
    BY <1>3 DEF ElementStep, ReadFixed, ReadShortData, ReadVwirePacket, ReadCycleHeader,
                UnknownCycleType, ReadPayload, EndElements, ReadElement, CutElement, Stop
  <2>2. QED
    BY <2>1 DEF Owed
<1>4. CASE ReadCrc
  BY <1>4 DEF ReadCrc, Owed
<1>5. CASE ResponseStep
  BY <1>5 DEF ResponseStep, TurnAround, TurnAroundRunsOut, ReadLastResponse, ReadResponse,
              Stop, Owed
<1>6. CASE \E changes \in BOOLEAN : RecordSessionUpdate(changes)
  BY <1>6, RecordOwed
<1>7. CASE Walk
  BY <1>7, DescendOwed, SkipOwed, AddFrameOwed DEF Walk
<1>8. CASE Commit
  BY <1>8 DEF Commit, Owed
<1>9. CASE UNCHANGED vars
  BY <1>9, Zenon DEF vars, Owed, Tree, Below, Drawn
<1>10. QED
  BY <1>1, <1>2, <1>3, <1>4, <1>5, <1>6, <1>7, <1>8, <1>9 DEF Next, Decode

LEMMA OwedShown == IInv /\ Owed => EveryFieldShown
<1> SUFFICES ASSUME IInv, Owed, Walked, NEW f \in Below(Tree), HasSpan(f.span),
                    f.name \notin Lost, NEW sample \in f.span.first..f.span.last
             PROVE  \E i \in DOMAIN frames :
                        frames[i].span.first <= sample /\ sample <= frames[i].span.last
  BY DEF EveryFieldShown, Shown
<1>1. fields \in Seq(Phase) /\ frames \in Seq([name : Name, span : Span])
  BY DEF IInv, Growing, Row, Emitting
<1>2. f \in Part
  BY <1>1, BelowForm DEF Tree, TreeOf
<1>3. f.span \in Span
  BY <1>2, PartsAreFields DEF Fields
<1>4. sample \in Nat /\ Kept(f, sample)
  BY <1>3 DEF Kept, Under, Span
<1>5. Drawn(sample)
  <2>1. Len(work) = 0
    BY DEF Walked
  <2>2. QED
    BY <1>4, <2>1 DEF Walked, Owed
<1>6. QED
  BY <1>1, <1>5 DEF Drawn

(* Of the fields below the phases every sample of every field is under some *)
(* frame, of packets whole or cut short, but for the two kinds of field     *)
(* whose own bytes are lost: EmitField descends only into fields that their *)
(* children tile.                                                           *)
THEOREM FieldsShown == Spec => []EveryFieldShown
<1>1. Init => Owed
  BY DEF Init, Owed
<1>2. QED
  BY <1>1, NextOwed, OwedShown, Invariance, PTL DEF Spec
=============================================================================
