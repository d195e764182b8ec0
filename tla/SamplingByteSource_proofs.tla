---------------------- MODULE SamplingByteSource_proofs ----------------------
(***************************************************************************)
(* Proofs that the byte source reads inside the right chip select, samples *)
(* every clock edge of it, hands out spans in order and never moves a      *)
(* cursor back, for captures of any length.                                *)
(***************************************************************************)
EXTENDS SamplingByteSource, FiniteSetTheorems, TLAPS

-----------------------------------------------------------------------------
(* The inductive invariant. *)

(* The cursor stands on the assertion armed on, the clock's inside it. *)
OnChipSelect ==
    /\ assertAt \in 1..Len(capture)
    /\ csAt = assertAt
    /\ Falling("cs", assertAt)
    /\ NextEdge("cs", assertAt, deassertAt)
    /\ clkAt < deassertAt

(* No assertion has been passed over since the one armed on last. *)
NonePassed(to) == \A at \in assertAt + 1..to : ~Falling("cs", at)

(* Where the cursors stand at each place of the code. *)
Position ==
    /\ pc = "idle" => OnChipSelect \/ (assertAt = 0 /\ csAt = 1 /\ clkAt = 1)
    /\ pc = "skipped" => /\ High("cs", csAt) /\ clkAt <= csAt
                         /\ assertAt < csAt /\ NonePassed(csAt)
    /\ pc = "asserted" => /\ Falling("cs", csAt) /\ clkAt <= csAt
                          /\ assertAt < csAt /\ NonePassed(csAt - 1)
    /\ InTransaction => OnChipSelect /\ assertAt <= clkAt

(* The cursors of the lanes follow the clock's. *)
LanesFollow == ioAt <= clkAt

(* While the clock is low its cursor is on the launch edge, if it has met   *)
(* one in this chip select.                                                 *)
Launched ==
    InTransaction /\ launchAt > assertAt /\ ~High("clk", clkAt) => launchAt = clkAt

(* The last unit ended on a rising edge the clock's cursor has passed; the  *)
(* one being read began after it.                                           *)
UnitsInOrder ==
    /\ done.last <= clkAt
    /\ done.last # 0 => High("clk", done.last)
    /\ pc = "clocking" /\ unit.first # 0 =>
           done.last < unit.first /\ assertAt < unit.first /\ unit.first <= clkAt

IInv == /\ TypeOK
        /\ Position
        /\ LanesFollow
        /\ Launched
        /\ UnitsInOrder
        /\ EveryEdgeSampled

-----------------------------------------------------------------------------
(* Edges. *)

(* Levels are Booleans. *)
LEMMA HighType ==
    ASSUME TypeOK, NEW line \in Line, NEW at \in 1..Len(capture)
    PROVE  High(line, at) \in BOOLEAN
BY DEF TypeOK, High, Sample

(* What GetSampleOfNextEdge finds is an edge, to the other level, and there *)
(* is none before it.                                                       *)
LEMMA NextEdgeIsNext ==
    ASSUME TypeOK, NEW line \in Line, NEW from \in 1..Len(capture),
           NEW at, NextEdge(line, from, at)
    PROVE  /\ at \in 2..Len(capture) /\ from < at
           /\ Edge(line, at)
           /\ High(line, at) <=> ~High(line, from)
           /\ \A between \in from + 1..at - 1 : ~Edge(line, between)
<1>1. Len(capture) \in Nat
  BY DEF TypeOK
<1>2. at \in 2..Len(capture) /\ from < at
  BY <1>1 DEF NextEdge
<1>3. High(line, from) \in BOOLEAN /\ High(line, at) \in BOOLEAN
  BY <1>1, <1>2, HighType
<1>4. High(line, at - 1) = High(line, from)
  BY <1>1, <1>2 DEF NextEdge
<1>5. \A between \in from + 1..at - 1 : High(line, between - 1) = High(line, from)
  BY <1>1, <1>2 DEF NextEdge
<1>6. QED
  BY <1>1, <1>2, <1>3, <1>4, <1>5 DEF NextEdge, Edge

(* A cursor has one next edge. *)
LEMMA NextEdgeUnique ==
    ASSUME TypeOK, NEW line \in Line, NEW from \in 1..Len(capture),
           NEW a, NextEdge(line, from, a), NEW b, NextEdge(line, from, b)
    PROVE  a = b
<1>1. Len(capture) \in Nat
  BY DEF TypeOK
<1>2. ~(a < b)
  BY <1>1 DEF NextEdge
<1>3. ~(b < a)
  BY <1>1 DEF NextEdge
<1>4. QED
  BY <1>1, <1>2, <1>3 DEF NextEdge

(* More captured changes nothing of what has been. *)
LEMMA CaptureKeeps ==
    ASSUME TypeOK, NEW sample \in Sample, Capture(sample)
    PROVE  /\ capture' \in Seq(Sample)
           /\ Len(capture) \in Nat /\ Len(capture') = Len(capture) + 1
           /\ Len(capture') \in 1..MaxSamples
           /\ \A line, at : at \in 1..Len(capture) => High(line, at)' = High(line, at)
BY MaxSamplesAssumption DEF TypeOK, Capture, High

-----------------------------------------------------------------------------
(* One lemma per action. *)

(* A capture may open at any levels; nothing has been read of it. *)
LEMMA InitInv == Init => IInv
<1> SUFFICES ASSUME Init PROVE IInv
  OBVIOUS
<1>1. PICK s \in Sample : capture = <<s>>
  BY DEF Init
<1>2. capture \in Seq(Sample) /\ Len(capture) = 1
  BY <1>1
<1>3. TypeOK
  <2>1. NoSpan \in Span
    BY DEF NoSpan, Span
  <2>2. Len(capture) \in 1..MaxSamples
    BY <1>2, MaxSamplesAssumption
  <2>3. csAt \in 1..Len(capture) /\ clkAt \in 1..Len(capture) /\ ioAt \in 1..Len(capture)
    BY <1>2 DEF Init
  <2>4. /\ assertAt \in Nat /\ deassertAt \in Nat /\ launchAt \in Nat /\ armed \in BOOLEAN
        /\ pc \in {"idle", "skipped", "asserted", "ready", "clocking"}
        /\ sampled \subseteq 1..Len(capture) /\ ended \in BOOLEAN
    BY DEF Init
  <2>5. unit \in Span /\ done \in Span
    BY <2>1 DEF Init
  <2>6. QED
    BY <1>2, <2>2, <2>3, <2>4, <2>5 DEF TypeOK
<1>4. QED
  BY <1>2, <1>3 DEF Init, IInv, Position, LanesFollow, Launched, UnitsInOrder,
                    EveryEdgeSampled, InTransaction, NoSpan

(* What is captured after a cursor has no say in what the cursor has seen. *)
LEMMA CaptureInv == ASSUME IInv, NEW sample \in Sample, Capture(sample) PROVE IInv'
<1>1. /\ TypeOK
      /\ capture' \in Seq(Sample)
      /\ Len(capture) \in Nat /\ Len(capture') = Len(capture) + 1
      /\ Len(capture') \in 1..MaxSamples
      /\ \A line, at : at \in 1..Len(capture) => High(line, at)' = High(line, at)
  BY CaptureKeeps DEF IInv
<1>2. UNCHANGED <<ended, csAt, assertAt, deassertAt, ioAt, unit, done, sampled, clkAt,
                  launchAt, armed, pc>>
  BY DEF Capture, chipSelect, sampling
<1>3. TypeOK'
  BY <1>1, <1>2 DEF TypeOK
<1>4. \A line, at : at \in 1..Len(capture) =>
          /\ Edge(line, at)' <=> Edge(line, at)
          /\ Falling(line, at)' <=> Falling(line, at)
          /\ Rising(line, at)' <=> Rising(line, at)
  BY <1>1 DEF Edge, Falling, Rising
<1>5. \A line, at : \A from \in 1..Len(capture) :
          NextEdge(line, from, at) => NextEdge(line, from, at)'
  BY <1>1 DEF NextEdge
<1>6. OnChipSelect => OnChipSelect'
  BY <1>1, <1>2, <1>4, <1>5 DEF OnChipSelect
<1>7. Position'
  BY <1>1, <1>2, <1>4, <1>6 DEF IInv, TypeOK, Position, NonePassed, InTransaction
<1>8. LanesFollow' /\ Launched' /\ UnitsInOrder'
  BY <1>1, <1>2 DEF IInv, TypeOK, LanesFollow, Launched, UnitsInOrder, InTransaction, Span
<1>9. EveryEdgeSampled'
  BY <1>1, <1>2, <1>4 DEF IInv, TypeOK, EveryEdgeSampled, InTransaction
<1>10. QED
  BY <1>3, <1>7, <1>8, <1>9 DEF IInv

(* The end of the capture changes nothing of what is in it. *)
LEMMA EndCaptureInv == ASSUME IInv, EndCapture PROVE IInv'
<1>1. /\ ended' = TRUE
      /\ UNCHANGED <<capture, csAt, assertAt, deassertAt, ioAt, unit, done, sampled, clkAt,
                     launchAt, armed, pc>>
  BY DEF EndCapture, chipSelect, sampling
<1>2. QED
  BY <1>1 DEF IInv, TypeOK, Position, OnChipSelect, NonePassed, LanesFollow, Launched,
              UnitsInOrder, EveryEdgeSampled, InTransaction, NextEdge, High, Rising, Falling, Edge

(* An assertion the worker comes back inside of is the one armed on last,  *)
(* or the capture's first, and ends at the edge stepped over.              *)
LEMMA SkipDeassertionInv == ASSUME IInv, SkipDeassertion PROVE IInv'
<1>1. PICK at \in 1..Len(capture) : NextEdge("cs", csAt, at) /\ csAt' = at
  BY DEF SkipDeassertion
<1>2. /\ pc = "idle" /\ pc' = "skipped" /\ ~High("cs", csAt)
      /\ UNCHANGED <<capture, ended, assertAt, deassertAt, ioAt, unit, done, sampled, clkAt, launchAt,
                     armed>>
  BY DEF SkipDeassertion, sampling
<1>3. /\ TypeOK /\ Len(capture) \in Nat /\ csAt \in 1..Len(capture) /\ clkAt \in 1..Len(capture)
      /\ assertAt \in Nat
  BY DEF IInv, TypeOK
<1>4. /\ at \in 2..Len(capture) /\ csAt < at
      /\ High("cs", at)
      /\ \A between \in csAt + 1..at - 1 : ~Edge("cs", between)
  BY <1>1, <1>2, <1>3, NextEdgeIsNext DEF Line
<1>5. clkAt <= at /\ assertAt < at /\ NonePassed(at)
  <2>1. CASE OnChipSelect
    <3>1. at = deassertAt
      BY <1>1, <1>3, <2>1, NextEdgeUnique DEF OnChipSelect, Line
    <3>2. QED
      BY <1>3, <1>4, <2>1, <3>1 DEF OnChipSelect, NonePassed, Falling
  <2>2. CASE assertAt = 0 /\ csAt = 1 /\ clkAt = 1
    BY <1>3, <1>4, <2>2 DEF NonePassed, Falling, Edge
  <2>3. QED
    BY <1>2, <2>1, <2>2 DEF IInv, Position
<1>6. TypeOK'
  BY <1>1, <1>2 DEF IInv, TypeOK
<1>7. Position'
  BY <1>1, <1>2, <1>4, <1>5 DEF Position, NonePassed, High, Falling, Edge, InTransaction
<1>8. LanesFollow' /\ Launched' /\ UnitsInOrder' /\ EveryEdgeSampled'
  BY <1>2 DEF IInv, LanesFollow, Launched, UnitsInOrder, EveryEdgeSampled, InTransaction, High
<1>9. QED
  BY <1>6, <1>7, <1>8 DEF IInv

(* From a high level the next edge of the chip select is an assertion. *)
LEMMA AdvanceToAssertionInv == ASSUME IInv, AdvanceToAssertion PROVE IInv'
<1>1. PICK at \in 1..Len(capture) : NextEdge("cs", csAt, at) /\ csAt' = at
  BY DEF AdvanceToAssertion
<1>2. /\ pc = "skipped" \/ (pc = "idle" /\ High("cs", csAt))
      /\ pc' = "asserted"
      /\ UNCHANGED <<capture, ended, assertAt, deassertAt, ioAt, unit, done, sampled, clkAt, launchAt,
                     armed>>
  BY DEF AdvanceToAssertion, sampling
<1>3. /\ TypeOK /\ Len(capture) \in Nat /\ csAt \in 1..Len(capture) /\ clkAt \in 1..Len(capture)
      /\ assertAt \in Nat
  BY DEF IInv, TypeOK
<1>4. High("cs", csAt) /\ clkAt <= csAt /\ assertAt <= csAt /\ NonePassed(csAt)
  <2>1. CASE pc = "skipped"
    <3>1. High("cs", csAt) /\ clkAt <= csAt /\ assertAt < csAt /\ NonePassed(csAt)
      BY <2>1 DEF IInv, Position
    <3>2. QED
      BY <1>3, <3>1
  <2>2. CASE pc = "idle" /\ High("cs", csAt)
    <3>1. assertAt = 0 /\ csAt = 1 /\ clkAt = 1
      BY <2>2 DEF IInv, Position, OnChipSelect, Falling
    <3>2. NonePassed(csAt)
      BY <3>1 DEF NonePassed, Falling, Edge
    <3>3. QED
      BY <2>2, <3>1, <3>2
  <2>3. QED
    BY <1>2, <2>1, <2>2
<1>5. /\ at \in 2..Len(capture) /\ csAt < at
      /\ Falling("cs", at)
      /\ \A between \in csAt + 1..at - 1 : ~Edge("cs", between)
  BY <1>1, <1>3, <1>4, NextEdgeIsNext DEF Line, Falling
<1>6. NonePassed(at - 1)
  BY <1>3, <1>4, <1>5 DEF NonePassed, Falling
<1>7. TypeOK'
  BY <1>1, <1>2 DEF IInv, TypeOK
<1>8. Position'
  BY <1>1, <1>2, <1>3, <1>4, <1>5, <1>6
     DEF Position, NonePassed, High, Falling, Edge, InTransaction
<1>9. LanesFollow' /\ Launched' /\ UnitsInOrder' /\ EveryEdgeSampled'
  BY <1>2 DEF IInv, LanesFollow, Launched, UnitsInOrder, EveryEdgeSampled, InTransaction, High
<1>10. QED
  BY <1>7, <1>8, <1>9 DEF IInv

(* The deassertion is the assertion's own, and the clock starts over at it. *)
LEMMA ArmInv == ASSUME IInv, Arm PROVE IInv'
<1>1. PICK at \in 1..Len(capture) : NextEdge("cs", csAt, at) /\ deassertAt' = at
  BY DEF Arm
<1>2. /\ pc = "asserted" /\ pc' = "ready"
      /\ assertAt' = csAt /\ clkAt' = csAt /\ launchAt' = 0 /\ armed' = TRUE /\ sampled' = {}
      /\ UNCHANGED <<capture, ended, csAt, ioAt, unit, done>>
  BY DEF Arm
<1>3. /\ TypeOK /\ Len(capture) \in Nat /\ csAt \in 1..Len(capture) /\ clkAt \in 1..Len(capture)
      /\ ioAt \in 1..Len(capture) /\ done.last \in Nat
  BY DEF IInv, TypeOK, Span
<1>4. Falling("cs", csAt) /\ clkAt <= csAt
  BY <1>2 DEF IInv, Position
<1>5. csAt < at
  BY <1>1, <1>3 DEF NextEdge
<1>6. TypeOK'
  BY <1>1, <1>2, <1>3 DEF IInv, TypeOK
<1>7. Position'
  BY <1>1, <1>2, <1>3, <1>4, <1>5
     DEF Position, OnChipSelect, InTransaction, NextEdge, High, Falling, Edge
<1>8. LanesFollow' /\ Launched' /\ UnitsInOrder'
  BY <1>2, <1>3, <1>4 DEF IInv, LanesFollow, Launched, UnitsInOrder, High
<1>9. EveryEdgeSampled'
  BY <1>2, <1>3 DEF EveryEdgeSampled
<1>10. QED
  BY <1>6, <1>7, <1>8, <1>9 DEF IInv

(* A unit starts without an edge. *)
LEMMA StartUnitInv == ASSUME IInv, StartUnit PROVE IInv'
<1>1. /\ pc = "ready" /\ pc' = "clocking" /\ unit' = NoSpan
      /\ UNCHANGED <<capture, ended, csAt, assertAt, deassertAt, clkAt, ioAt, launchAt, armed, done,
                     sampled>>
  BY DEF StartUnit, chipSelect
<1>2. TypeOK'
  BY <1>1 DEF IInv, TypeOK, NoSpan, Span
<1>3. Position'
  BY <1>1 DEF IInv, Position, OnChipSelect, InTransaction, NextEdge, High, Falling, Edge
<1>4. LanesFollow' /\ Launched' /\ UnitsInOrder' /\ EveryEdgeSampled'
  BY <1>1 DEF IInv, LanesFollow, Launched, UnitsInOrder, EveryEdgeSampled, InTransaction, High,
              Rising, Edge, NoSpan
<1>5. QED
  BY <1>2, <1>3, <1>4 DEF IInv

(* Giving up a transaction leaves the cursors inside its chip select. *)
LEMMA LeaveInv == ASSUME IInv, Leave PROVE IInv'
<1>1. /\ pc = "ready" /\ pc' = "idle"
      /\ UNCHANGED <<capture, ended, csAt, assertAt, deassertAt, clkAt, ioAt, launchAt, armed, unit, done,
                     sampled>>
  BY DEF Leave, chipSelect, sampling
<1>2. TypeOK'
  BY <1>1 DEF IInv, TypeOK
<1>3. Position'
  BY <1>1 DEF IInv, Position, OnChipSelect, InTransaction, NextEdge, High, Falling, Edge
<1>4. LanesFollow' /\ Launched' /\ UnitsInOrder' /\ EveryEdgeSampled'
  BY <1>1 DEF IInv, LanesFollow, Launched, UnitsInOrder, EveryEdgeSampled, InTransaction, High
<1>5. QED
  BY <1>2, <1>3, <1>4 DEF IInv

-----------------------------------------------------------------------------
(* The clock's next edge, from inside a chip select the source is armed on. *)
LEMMA ClockEdge ==
    ASSUME IInv, pc = "clocking", NEW at \in 1..Len(capture), NextEdge("clk", clkAt, at)
    PROVE  /\ TypeOK /\ Len(capture) \in Nat /\ clkAt \in 1..Len(capture)
           /\ ioAt \in 1..Len(capture) /\ done.last \in Nat /\ unit.first \in Nat
           /\ assertAt \in Nat /\ deassertAt \in Nat /\ launchAt \in Nat
           /\ OnChipSelect /\ assertAt <= clkAt /\ clkAt < at /\ at \in 2..Len(capture)
           /\ Edge("clk", at)
           /\ High("clk", at) <=> ~High("clk", clkAt)
           /\ \A between \in clkAt + 1..at - 1 : ~Edge("clk", between)
<1>1. /\ TypeOK /\ Len(capture) \in Nat /\ clkAt \in 1..Len(capture)
      /\ ioAt \in 1..Len(capture) /\ done.last \in Nat /\ unit.first \in Nat
      /\ assertAt \in Nat /\ deassertAt \in Nat /\ launchAt \in Nat
  BY DEF IInv, TypeOK, Span
<1>2. OnChipSelect /\ assertAt <= clkAt
  BY DEF IInv, Position, InTransaction
<1>3. QED
  BY <1>1, <1>2, NextEdgeIsNext DEF Line

(* A falling edge is remembered and not sampled. *)
LEMMA FallingEdgeInv ==
    ASSUME IInv, NEW at \in 1..Len(capture), FallingEdge(at) PROVE IInv'
<1>1. /\ pc = "clocking" /\ NextEdge("clk", clkAt, at) /\ ~High("clk", at) /\ at < deassertAt
      /\ clkAt' = at /\ launchAt' = at
      /\ UNCHANGED <<capture, ended, csAt, assertAt, deassertAt, ioAt, unit, done, sampled, armed, pc>>
  BY DEF FallingEdge, chipSelect, sampling
<1>2. /\ Len(capture) \in Nat /\ clkAt \in 1..Len(capture)
      /\ ioAt \in 1..Len(capture) /\ done.last \in Nat /\ unit.first \in Nat
      /\ assertAt \in Nat /\ OnChipSelect /\ assertAt <= clkAt /\ clkAt < at
      /\ at \in 2..Len(capture) /\ \A between \in clkAt + 1..at - 1 : ~Edge("clk", between)
  BY <1>1, ClockEdge
<1>3. TypeOK'
  BY <1>1, <1>2 DEF IInv, TypeOK
<1>4. Position'
  BY <1>1, <1>2 DEF Position, OnChipSelect, InTransaction, NextEdge, High, Falling, Edge
<1>5. LanesFollow' /\ Launched'
  BY <1>1, <1>2 DEF IInv, LanesFollow, Launched, InTransaction
<1>6. UnitsInOrder'
  BY <1>1, <1>2 DEF IInv, UnitsInOrder, High
<1>7. EveryEdgeSampled'
  <2> SUFFICES ASSUME armed
               PROVE  sampled = {e \in 1..Len(capture) :
                          Rising("clk", e) /\ assertAt < e /\ e <= at /\ e < deassertAt}
    BY <1>1 DEF EveryEdgeSampled, InTransaction, Rising, Edge, High
  <2>1. sampled = {e \in 1..Len(capture) :
                      Rising("clk", e) /\ assertAt < e /\ e <= clkAt /\ e < deassertAt}
    BY <1>1 DEF IInv, EveryEdgeSampled, InTransaction
  <2>2. \A e \in 1..Len(capture) : Rising("clk", e) => (e <= at <=> e <= clkAt)
    BY <1>1, <1>2 DEF Rising
  <2>3. QED
    BY <2>1, <2>2
<1>8. QED
  BY <1>3, <1>4, <1>5, <1>6, <1>7 DEF IInv

(* A unit begins after the unit before it ended: its launch edge is where   *)
(* the clock's cursor stands, and that one did not end on a falling edge.   *)
LEMMA LaunchAfterDone ==
    ASSUME IInv, pc = "clocking", NEW at \in 1..Len(capture), NextEdge("clk", clkAt, at),
           High("clk", at)
    PROVE  /\ LaunchOf(at) \in Nat
           /\ done.last < LaunchOf(at) /\ assertAt < LaunchOf(at) /\ LaunchOf(at) <= at
<1>1. /\ Len(capture) \in Nat /\ clkAt \in 1..Len(capture) /\ done.last \in Nat
      /\ assertAt \in Nat /\ launchAt \in Nat /\ assertAt <= clkAt /\ clkAt < at
      /\ ~High("clk", clkAt)
  BY ClockEdge
<1>2. done.last <= clkAt /\ done.last # clkAt
  BY <1>1 DEF IInv, UnitsInOrder
<1>3. CASE launchAt > assertAt /\ launchAt < at
  <2>1. launchAt = clkAt
    BY <1>1, <1>3 DEF IInv, Launched, InTransaction
  <2>2. QED
    BY <1>1, <1>2, <1>3, <2>1 DEF LaunchOf
<1>4. CASE ~(launchAt > assertAt /\ launchAt < at)
  BY <1>1, <1>2, <1>4 DEF LaunchOf
<1>5. QED
  BY <1>3, <1>4

(* A rising edge is sampled, and may complete a unit. *)
LEMMA RisingEdgeInv ==
    ASSUME IInv, NEW at \in 1..Len(capture), NEW lanes \in BOOLEAN, NEW last \in BOOLEAN,
           RisingEdge(at, lanes, last)
    PROVE  IInv'
<1> DEFINE span == [first |-> IF unit.first = 0 THEN LaunchOf(at) ELSE unit.first, last |-> at]
<1>1. /\ pc = "clocking" /\ NextEdge("clk", clkAt, at) /\ High("clk", at) /\ at < deassertAt
      /\ clkAt' = at /\ ioAt' = (IF lanes THEN at ELSE ioAt) /\ sampled' = sampled \cup {at}
      /\ unit' = (IF last THEN NoSpan ELSE span) /\ done' = (IF last THEN span ELSE done)
      /\ pc' = (IF last THEN "ready" ELSE "clocking")
      /\ UNCHANGED <<capture, ended, csAt, assertAt, deassertAt, launchAt, armed>>
  BY DEF RisingEdge, chipSelect
<1>2. /\ Len(capture) \in Nat /\ clkAt \in 1..Len(capture)
      /\ ioAt \in 1..Len(capture) /\ done.last \in Nat /\ unit.first \in Nat
      /\ assertAt \in Nat /\ deassertAt \in Nat /\ OnChipSelect /\ assertAt <= clkAt /\ clkAt < at
      /\ at \in 2..Len(capture) /\ Edge("clk", at)
      /\ \A between \in clkAt + 1..at - 1 : ~Edge("clk", between)
  BY <1>1, ClockEdge
<1>3. /\ LaunchOf(at) \in Nat
      /\ done.last < LaunchOf(at) /\ assertAt < LaunchOf(at) /\ LaunchOf(at) <= at
  BY <1>1, LaunchAfterDone
<1>4. /\ span \in Span /\ NoSpan \in Span
      /\ done.last < span.first /\ assertAt < span.first /\ span.first <= at
  BY <1>1, <1>2, <1>3 DEF Span, NoSpan, IInv, UnitsInOrder
<1>5. TypeOK'
  <2>1. unit' \in Span /\ done' \in Span
    BY <1>1, <1>4 DEF IInv, TypeOK
  <2>2. ioAt' \in 1..Len(capture) /\ sampled' \subseteq 1..Len(capture)
    BY <1>1, <1>2 DEF IInv, TypeOK
  <2>3. QED
    BY <1>1, <2>1, <2>2 DEF IInv, TypeOK
<1>6. Position'
  BY <1>1, <1>2 DEF Position, OnChipSelect, InTransaction, NextEdge, High, Falling, Edge
<1>7. LanesFollow' /\ Launched'
  BY <1>1, <1>2 DEF IInv, LanesFollow, Launched, High
<1>8. UnitsInOrder'
  <2>1. CASE last
    BY <1>1, <1>2, <1>4, <2>1 DEF UnitsInOrder, High
  <2>2. CASE ~last
    BY <1>1, <1>2, <1>4, <2>2 DEF IInv, UnitsInOrder, High
  <2>3. QED
    BY <2>1, <2>2
<1>9. EveryEdgeSampled'
  <2> SUFFICES ASSUME armed
               PROVE  sampled \cup {at} = {e \in 1..Len(capture) :
                          Rising("clk", e) /\ assertAt < e /\ e <= at /\ e < deassertAt}
    BY <1>1 DEF EveryEdgeSampled, InTransaction, Rising, Edge, High
  <2>1. sampled = {e \in 1..Len(capture) :
                      Rising("clk", e) /\ assertAt < e /\ e <= clkAt /\ e < deassertAt}
    BY <1>1 DEF IInv, EveryEdgeSampled, InTransaction
  <2>2. \A e \in 1..Len(capture) : Rising("clk", e) => (e <= at <=> e <= clkAt \/ e = at)
    BY <1>1, <1>2 DEF Rising
  <2>3. Rising("clk", at) /\ assertAt < at /\ at < deassertAt
    BY <1>1, <1>2 DEF Rising
  <2>4. QED
    BY <2>1, <2>2, <2>3
<1>10. QED
  BY <1>5, <1>6, <1>7, <1>8, <1>9 DEF IInv

(* A lane that is not there ends the transaction with the edge consumed. *)
LEMMA MissingLaneInv ==
    ASSUME IInv, NEW at \in 1..Len(capture), MissingLane(at) PROVE IInv'
<1>1. /\ pc = "clocking" /\ NextEdge("clk", clkAt, at) /\ High("clk", at) /\ at < deassertAt
      /\ clkAt' = at /\ armed' = FALSE /\ unit' = NoSpan /\ pc' = "ready"
      /\ UNCHANGED <<capture, ended, csAt, assertAt, deassertAt, launchAt, ioAt, done, sampled>>
  BY DEF MissingLane, chipSelect
<1>2. /\ Len(capture) \in Nat /\ clkAt \in 1..Len(capture)
      /\ ioAt \in 1..Len(capture) /\ done.last \in Nat
      /\ assertAt \in Nat /\ OnChipSelect /\ assertAt <= clkAt /\ clkAt < at
  BY <1>1, ClockEdge
<1>3. TypeOK'
  BY <1>1 DEF IInv, TypeOK, NoSpan, Span
<1>4. Position'
  BY <1>1, <1>2 DEF Position, OnChipSelect, InTransaction, NextEdge, High, Falling, Edge
<1>5. LanesFollow' /\ Launched' /\ UnitsInOrder' /\ EveryEdgeSampled'
  BY <1>1, <1>2 DEF IInv, LanesFollow, Launched, UnitsInOrder, EveryEdgeSampled, High
<1>6. QED
  BY <1>3, <1>4, <1>5 DEF IInv

(* The deassertion ends the transaction with the clock's cursor before it. *)
LEMMA BoundaryInv ==
    ASSUME IInv, NEW at \in 1..Len(capture), Boundary(at) PROVE IInv'
<1>1. /\ pc = "clocking" /\ armed' = FALSE /\ unit' = NoSpan /\ pc' = "ready"
      /\ UNCHANGED <<capture, ended, csAt, assertAt, deassertAt, clkAt, launchAt, ioAt, done, sampled>>
  BY DEF Boundary, chipSelect
<1>2. TypeOK'
  BY <1>1 DEF IInv, TypeOK, NoSpan, Span
<1>3. Position'
  BY <1>1 DEF IInv, Position, OnChipSelect, InTransaction, NextEdge, High, Falling, Edge
<1>4. LanesFollow' /\ Launched' /\ UnitsInOrder' /\ EveryEdgeSampled'
  BY <1>1 DEF IInv, LanesFollow, Launched, UnitsInOrder, EveryEdgeSampled, InTransaction, High
<1>5. QED
  BY <1>2, <1>3, <1>4 DEF IInv

-----------------------------------------------------------------------------
(* The theorems. *)

(* Every step keeps the invariant. *)
LEMMA StepInv == IInv /\ [Next]_vars => IInv'
<1>1. ASSUME IInv, UNCHANGED vars PROVE IInv'
  BY <1>1, SMTT(30) DEF IInv, TypeOK, Position, OnChipSelect, NonePassed, LanesFollow, Launched,
              UnitsInOrder, EveryEdgeSampled, InTransaction, NextEdge, High, Rising, Falling, Edge,
              vars, chipSelect, sampling
<1>2. ASSUME IInv, ClockStep PROVE IInv'
  BY <1>2, FallingEdgeInv, RisingEdgeInv, MissingLaneInv, BoundaryInv DEF ClockStep
<1>3. QED
  BY <1>1, <1>2, CaptureInv, EndCaptureInv, SkipDeassertionInv, AdvanceToAssertionInv, ArmInv,
     StartUnitInv, LeaveInv DEF Next, Worker

(* The invariant holds of every execution. *)
THEOREM Invariance == Spec => []IInv
BY InitInv, StepInv, PTL DEF Spec

(* Every variable keeps its type, and every cursor stays inside the capture. *)
THEOREM TypeCorrect == Spec => []TypeOK
<1>1. IInv => TypeOK
  BY DEF IInv
<1>2. QED
  BY <1>1, Invariance, PTL

(* SamplingByteSource.cpp:16-24: the source is never armed on the middle of *)
(* a packet, however long the capture and wherever it opens.                *)
THEOREM AlwaysArmedOnAssertion == Spec => []ArmedOnAssertion
<1>1. IInv => ArmedOnAssertion
  BY DEF IInv, Position, OnChipSelect, ArmedOnAssertion
<1>2. QED
  BY <1>1, Invariance, PTL

(* SamplingByteSource.h: every rising edge of the clock inside the chip     *)
(* select is sampled once, as far as the source has read, and no other is.  *)
THEOREM NoEdgeMissed == Spec => []EveryEdgeSampled
<1>1. IInv => EveryEdgeSampled
  BY DEF IInv
<1>2. QED
  BY <1>1, Invariance, PTL

(* SamplingByteSource.h (mLaunchEdge): spans are handed out in order, each  *)
(* inside its chip select.                                                  *)
THEOREM SpansAreInOrder == Spec => SpansInOrder
<1>1. IInv /\ [Next]_vars =>
          [done' # done => /\ done.last < done'.first
                           /\ done'.first <= done'.last
                           /\ assertAt < done'.first /\ done'.last < deassertAt]_vars
  <2> SUFFICES ASSUME IInv, Next, done' # done
               PROVE  /\ done.last < done'.first
                      /\ done'.first <= done'.last
                      /\ assertAt < done'.first /\ done'.last < deassertAt
    BY DEF vars, sampling
  <2>1. PICK at \in 1..Len(capture), lanes \in BOOLEAN, last \in BOOLEAN :
            RisingEdge(at, lanes, last)
    BY DEF Next, Worker, Capture, EndCapture, SkipDeassertion, AdvanceToAssertion, Arm,
           StartUnit, Leave, ClockStep, FallingEdge, MissingLane, Boundary, sampling
  <2>2. /\ pc = "clocking" /\ NextEdge("clk", clkAt, at) /\ High("clk", at) /\ at < deassertAt
        /\ done' = [first |-> IF unit.first = 0 THEN LaunchOf(at) ELSE unit.first, last |-> at]
    BY <2>1 DEF RisingEdge
  <2>3. clkAt \in Nat /\ at \in Nat /\ clkAt < at /\ unit.first \in Nat
    BY <2>2, ClockEdge
  <2>4. /\ LaunchOf(at) \in Nat
        /\ done.last < LaunchOf(at) /\ assertAt < LaunchOf(at) /\ LaunchOf(at) <= at
    BY <2>2, LaunchAfterDone
  <2>5. unit.first # 0 => done.last < unit.first /\ assertAt < unit.first /\ unit.first <= clkAt
    BY <2>2 DEF IInv, UnitsInOrder
  <2>6. QED
    BY <2>2, <2>3, <2>4, <2>5
<1>2. QED
  BY <1>1, Invariance, PTL DEF Spec, SpansInOrder

(* No SDK cursor is ever asked to go back. *)
THEOREM CursorsNeverGoBack == Spec => CursorsOnlyAdvance
<1>1. IInv /\ [Next]_vars => [csAt' >= csAt /\ clkAt' >= clkAt /\ ioAt' >= ioAt]_vars
  <2> SUFFICES ASSUME IInv, Next PROVE csAt' >= csAt /\ clkAt' >= clkAt /\ ioAt' >= ioAt
    BY DEF vars
  <2>1. csAt \in Nat /\ clkAt \in Nat /\ ioAt \in Nat /\ Len(capture) \in Nat
    BY DEF IInv, TypeOK
  <2>2. CASE \/ \E sample \in Sample : Capture(sample)
             \/ EndCapture \/ SkipDeassertion \/ AdvanceToAssertion
    BY <2>1, <2>2 DEF Capture, EndCapture, SkipDeassertion, AdvanceToAssertion, NextEdge,
                      chipSelect, sampling
  <2>3. CASE Arm
    BY <2>1, <2>3 DEF Arm, IInv, Position
  <2>4. CASE StartUnit \/ Leave
    BY <2>1, <2>4 DEF StartUnit, Leave, chipSelect, sampling
  <2>5. CASE ClockStep
    BY <2>1, <2>5 DEF ClockStep, FallingEdge, RisingEdge, MissingLane, Boundary, NextEdge,
                      IInv, LanesFollow, chipSelect, sampling
  <2>6. QED
    BY <2>2, <2>3, <2>4, <2>5 DEF Next, Worker
<1>2. QED
  BY <1>1, Invariance, PTL DEF Spec, CursorsOnlyAdvance

(* EspiAnalyzer.cpp:230-240: chip selects are taken in order, and none is   *)
(* left out.                                                                *)
THEOREM EveryAssertionTaken == Spec => NoAssertionMissed
<1>1. IInv /\ [Next]_vars =>
          [assertAt' # assertAt =>
               \A at \in assertAt + 1..assertAt' - 1 : ~Falling("cs", at)]_vars
  <2> SUFFICES ASSUME IInv, Next, assertAt' # assertAt
               PROVE  \A at \in assertAt + 1..assertAt' - 1 : ~Falling("cs", at)
    BY DEF vars, chipSelect
  <2>1. Arm
    BY DEF Next, Worker, Capture, EndCapture, SkipDeassertion, AdvanceToAssertion, StartUnit,
           Leave, ClockStep, FallingEdge, RisingEdge, MissingLane, Boundary, chipSelect
  <2>2. QED
    BY <2>1 DEF Arm, IInv, Position, NonePassed
<1>2. QED
  BY <1>1, Invariance, PTL DEF Spec, NoAssertionMissed

-----------------------------------------------------------------------------
(* The byte source keeps the contract ChipSelects states. *)

(* The chip selects captured whole after the one taken last. *)
Waiting == {at \in assertAt + 1..Len(capture) : Whole(at)}

(* There are finitely many. *)
LEMMA WaitingFinite ==
    ASSUME TypeOK PROVE IsFiniteSet(Waiting) /\ Cardinality(Waiting) \in Nat
<1>1. assertAt + 1 \in Int /\ Len(capture) \in Int
  BY DEF TypeOK
<1>2. IsFiniteSet(assertAt + 1..Len(capture))
  BY <1>1, FS_Interval
<1>3. Waiting \subseteq assertAt + 1..Len(capture)
  BY DEF Waiting
<1>4. QED
  BY <1>2, <1>3, FS_Subset, FS_CardinalityType

(* Only the last assertion of a capture can be without its deassertion. *)
LEMMA OnlyLastUnfinished ==
    ASSUME TypeOK, NEW a, Falling("cs", a), ~Whole(a), NEW b, Falling("cs", b), ~Whole(b)
    PROVE  a = b
<1>1. Len(capture) \in Nat /\ a \in 2..Len(capture) /\ b \in 2..Len(capture)
  BY DEF TypeOK, Falling, Edge
<1>2. /\ ~High("cs", a) /\ ~High("cs", b)
      /\ High("cs", a - 1) \in BOOLEAN /\ High("cs", b - 1) \in BOOLEAN
      /\ High("cs", a) \in BOOLEAN /\ High("cs", b) \in BOOLEAN
  BY <1>1, HighType DEF Falling, Line
<1>3. High("cs", a - 1) /\ High("cs", b - 1)
  BY <1>2 DEF Falling, Edge
<1>4. ~(a < b)
  <2> SUFFICES ASSUME a < b PROVE FALSE
    OBVIOUS
  <2>1. b - 1 \in a + 1..Len(capture)
    BY <1>1, <1>2, <1>3
  <2>2. QED
    BY <1>3, <2>1 DEF Whole
<1>5. ~(b < a)
  <2> SUFFICES ASSUME b < a PROVE FALSE
    OBVIOUS
  <2>1. a - 1 \in b + 1..Len(capture)
    BY <1>1, <1>2, <1>3
  <2>2. QED
    BY <1>3, <2>1 DEF Whole
<1>6. QED
  BY <1>1, <1>4, <1>5

(* One more sample ends one chip select or none. *)
LEMMA CaptureCompletes ==
    ASSUME IInv, NEW sample \in Sample, Capture(sample)
    PROVE  Cardinality(Waiting') \in {Cardinality(Waiting), Cardinality(Waiting) + 1}
<1> DEFINE n == Len(capture) + 1
           Ended(at) == Falling("cs", at) /\ ~Whole(at) /\ High("cs", Len(capture))'
<1>1. /\ TypeOK
      /\ Len(capture) \in Nat /\ Len(capture') = n /\ assertAt \in Nat
      /\ \A line, at : at \in 1..Len(capture) => High(line, at)' = High(line, at)
      /\ assertAt' = assertAt
  BY CaptureKeeps DEF IInv, TypeOK, Capture, chipSelect
<1>2. \A at \in 1..Len(capture) : Falling("cs", at)' <=> Falling("cs", at)
  BY <1>1 DEF Falling, Edge
<1>3. ~Whole(Len(capture))'
  BY <1>1 DEF Whole
<1>4. \A at \in 1..Len(capture) : Whole(at)' <=> Whole(at) \/ Ended(at)
  <2> TAKE at \in 1..Len(capture)
  <2>1. at + 1..Len(capture') = (at + 1..Len(capture)) \cup {n}
    BY <1>1
  <2>2. \A end \in at + 1..Len(capture) : High("cs", end)' = High("cs", end)
    BY <1>1
  <2>3. Whole(at)' <=> Falling("cs", at)' /\ \E end \in at + 1..Len(capture') : High("cs", end)'
    BY DEF Whole
  <2>4. (\E end \in at + 1..Len(capture') : High("cs", end)')
            <=> (\E end \in at + 1..Len(capture) : High("cs", end)) \/ High("cs", Len(capture))'
    BY <1>1, <2>1, <2>2
  <2>5. Whole(at) <=> Falling("cs", at) /\ \E end \in at + 1..Len(capture) : High("cs", end)
    BY DEF Whole
  <2>6. QED
    BY <1>2, <2>3, <2>4, <2>5
<1>5. Waiting' = Waiting \cup {at \in assertAt + 1..Len(capture) : Ended(at)}
  <2>1. Waiting' = {at \in assertAt + 1..Len(capture') : Whole(at)'}
    BY <1>1 DEF Waiting
  <2>2. /\ assertAt + 1..Len(capture') \subseteq (assertAt + 1..Len(capture)) \cup {n}
        /\ assertAt + 1..Len(capture) \subseteq assertAt + 1..Len(capture')
        /\ assertAt + 1..Len(capture) \subseteq 1..Len(capture)
    BY <1>1
  <2>3. Waiting' = {at \in assertAt + 1..Len(capture) : Whole(at)'}
    BY <1>1, <1>3, <2>1, <2>2
  <2>4. QED
    BY <1>4, <2>2, <2>3 DEF Waiting
<1>6. CASE \E a \in assertAt + 1..Len(capture) : Ended(a)
  <2>1. PICK a \in assertAt + 1..Len(capture) : Ended(a)
    BY <1>6
  <2>2. {at \in assertAt + 1..Len(capture) : Ended(at)} = {a}
    BY <1>1, <2>1, OnlyLastUnfinished
  <2>3. a \notin Waiting
    BY <2>1 DEF Waiting
  <2>4. QED
    BY <1>1, <1>5, <2>2, <2>3, WaitingFinite, FS_AddElement
<1>7. CASE ~\E a \in assertAt + 1..Len(capture) : Ended(a)
  BY <1>5, <1>7
<1>8. QED
  BY <1>6, <1>7

(* Arming takes the first that waits. *)
LEMMA ArmTakes ==
    ASSUME IInv, Arm
    PROVE  /\ Cardinality(Waiting) > 0
           /\ Cardinality(Waiting') = Cardinality(Waiting) - 1
<1>1. PICK at \in 1..Len(capture) : NextEdge("cs", csAt, at)
  BY DEF Arm
<1>2. /\ TypeOK /\ Len(capture) \in Nat /\ assertAt \in Nat /\ csAt \in 1..Len(capture)
      /\ pc = "asserted" /\ capture' = capture /\ assertAt' = csAt
  BY DEF IInv, TypeOK, Arm
<1>3. Falling("cs", csAt) /\ assertAt < csAt /\ NonePassed(csAt - 1)
  BY <1>2 DEF IInv, Position
<1>4. Whole(csAt)
  <2>1. /\ at \in 2..Len(capture) /\ csAt < at
        /\ High("cs", at) <=> ~High("cs", csAt)
    BY <1>1, <1>2, NextEdgeIsNext DEF Line
  <2>2. at \in csAt + 1..Len(capture) /\ High("cs", at)
    BY <1>2, <1>3, <2>1 DEF Falling
  <2>3. QED
    BY <1>3, <2>2 DEF Whole
<1>5. Waiting' = {e \in csAt + 1..Len(capture) : Whole(e)}
  BY <1>2 DEF Waiting, Whole, Falling, Edge, High
<1>6. Waiting' = Waiting \ {csAt}
  <2>1. \A e \in assertAt + 1..csAt - 1 : ~Whole(e)
    BY <1>3 DEF NonePassed, Whole
  <2>2. QED
    BY <1>2, <1>3, <1>5, <2>1 DEF Waiting
<1>7. csAt \in Waiting
  BY <1>2, <1>3, <1>4 DEF Waiting
<1>8. /\ IsFiniteSet(Waiting) /\ Cardinality(Waiting) \in Nat
      /\ Cardinality(Waiting \ {csAt}) = Cardinality(Waiting) - 1
  BY <1>2, <1>7, WaitingFinite, FS_RemoveElement
<1>9. Cardinality(Waiting) # 0
  BY <1>7, <1>8, FS_EmptySet
<1>10. QED
  BY <1>6, <1>8, <1>9

(* Every step is a step of the contract or does not concern it. *)
LEMMA StepServes == IInv /\ [Next]_vars => [ChipSelect!Next]_(ChipSelect!vars)
<1> SUFFICES ASSUME IInv, [Next]_vars PROVE [ChipSelect!Next]_(ChipSelect!vars)
  OBVIOUS
<1> DEFINE waiting == Cardinality(Waiting)
<1>1. /\ ChipSelect!Complete <=> waiting' = waiting + 1 /\ InTransaction' = InTransaction
      /\ ChipSelect!Take <=> /\ ~InTransaction /\ waiting > 0
                             /\ waiting' = waiting - 1 /\ InTransaction' = TRUE
      /\ ChipSelect!Release <=> InTransaction /\ InTransaction' = FALSE /\ waiting' = waiting
      /\ UNCHANGED ChipSelect!vars <=> waiting' = waiting /\ InTransaction' = InTransaction
  BY DEF ChipSelect!Complete, ChipSelect!Take, ChipSelect!Release, ChipSelect!vars, Waiting
<1>2. waiting \in Nat
  BY WaitingFinite DEF IInv
<1>3. CASE \E sample \in Sample : Capture(sample)
  <2>1. waiting' \in {waiting, waiting + 1} /\ InTransaction' = InTransaction
    BY <1>3, CaptureCompletes DEF Capture, InTransaction
  <2>2. QED
    BY <1>1, <2>1 DEF ChipSelect!Next
<1>4. CASE Arm
  <2>1. waiting > 0 /\ waiting' = waiting - 1
    BY <1>4, ArmTakes
  <2>2. ~InTransaction /\ InTransaction' = TRUE
    BY <1>4 DEF Arm, InTransaction
  <2>3. QED
    BY <1>1, <2>1, <2>2 DEF ChipSelect!Next
<1>5. CASE \/ EndCapture \/ SkipDeassertion \/ AdvanceToAssertion \/ StartUnit \/ ClockStep
           \/ Leave \/ UNCHANGED vars
  <2>1. UNCHANGED <<capture, assertAt>>
    BY <1>5 DEF EndCapture, SkipDeassertion, AdvanceToAssertion, StartUnit, ClockStep, Leave,
                FallingEdge, RisingEdge, MissingLane, Boundary, vars, chipSelect
  <2>2. waiting' = waiting
    BY <2>1 DEF Waiting, Whole, Falling, Edge, High
  <2>3. \/ InTransaction' = InTransaction
        \/ InTransaction /\ InTransaction' = FALSE
    BY <1>5 DEF EndCapture, SkipDeassertion, AdvanceToAssertion, StartUnit, ClockStep, Leave,
                FallingEdge, RisingEdge, MissingLane, Boundary, vars, InTransaction
  <2>4. QED
    BY <1>1, <2>2, <2>3 DEF ChipSelect!Next
<1>6. QED
  BY <1>3, <1>4, <1>5 DEF Next, Worker

(* SamplingByteSource.h (SyncToNextAssertion), LinkDecoder.h: chip selects  *)
(* captured whole are taken one at a time, in turn and once each, for       *)
(* captures of any length.                                                  *)
THEOREM KeepsTheContract == Spec => ImplementsChipSelects
<1>1. Init => ChipSelect!Init
  <2> SUFFICES ASSUME Init PROVE ChipSelect!Init
    OBVIOUS
  <2>1. Len(capture) = 1 /\ assertAt = 0 /\ pc = "idle"
    BY DEF Init
  <2>2. Waiting = {}
    BY <2>1 DEF Waiting, Whole, Falling, Edge
  <2>3. Cardinality(Waiting) = 0
    BY <2>2, FS_EmptySet
  <2>4. QED
    BY <2>1, <2>3 DEF ChipSelect!Init, Waiting, InTransaction
<1>2. QED
  BY <1>1, Invariance, StepServes, PTL DEF Spec, ImplementsChipSelects, ChipSelect!Spec
=============================================================================
