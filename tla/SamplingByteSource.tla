------------------------- MODULE SamplingByteSource -------------------------
(***************************************************************************)
(* The bottom layer: bytes and turn-around windows cut out of a logic      *)
(* capture by walking its chip select and clock.                           *)
(*                                                                         *)
(* The capture grows while it is read. It is the sequence of samples at    *)
(* which the chip select or the clock changes (both may change in one); a  *)
(* position is the number of a sample. Each SDK channel is a cursor that   *)
(* only moves forward and blocks at the end of what has been captured, so  *)
(* a step that looks for an edge is enabled only once the edge is there,   *)
(* and never if the capture ends first: the SDK ends the worker's thread   *)
(* inside the wait, or leaves it there.                                    *)
(* Lane levels are not modelled, when they are sampled is. A UNIT is a     *)
(* byte or a turn-around window: some clocks in a row, how many depending  *)
(* on the mode; any number here.                                           *)
(***************************************************************************)
EXTENDS Naturals, Sequences, FiniteSets

CONSTANT MaxSamples   \* where a bounded run stops the capture

ASSUME MaxSamplesAssumption == MaxSamples \in Nat \ {0}

VARIABLES
    capture,    \* levels of the chip select and the clock, sample by sample
    ended,      \* the capture is over
    csAt,       \* the cursor of each channel
    clkAt,
    ioAt,       \* the furthest of the lane channels' cursors
    assertAt,   \* mAssertSample
    deassertAt, \* mDeassertSample
    launchAt,   \* mLaunchEdge
    armed,      \* mArmed
    pc,         \* which call is under way, and how far
    unit,       \* span of the unit being read; first is 0 until an edge is sampled
    done,       \* history: span of the last unit completed
    sampled     \* history: the edges sampled in this transaction

chipSelect == <<csAt, assertAt, deassertAt>>
sampling   == <<ioAt, unit, done, sampled>>
vars == <<capture, ended, csAt, clkAt, ioAt, assertAt, deassertAt, launchAt, armed, pc, unit,
          done, sampled>>

Line   == {"cs", "clk"}
Sample == [Line -> BOOLEAN]
Span   == [first : Nat, last : Nat]

NoSpan == [first |-> 0, last |-> 0]

High(line, at) == capture[at][line]

Edge(line, at) == at \in 2..Len(capture) /\ High(line, at) # High(line, at - 1)

Rising(line, at)  == Edge(line, at) /\ High(line, at)
Falling(line, at) == Edge(line, at) /\ ~High(line, at)

(* GetSampleOfNextEdge of a cursor, and where AdvanceToNextEdge takes it:   *)
(* the first sample whose level is not the cursor's.                        *)
NextEdge(line, from, at) ==
    /\ at \in from + 1..Len(capture)
    /\ High(line, at) # High(line, from)
    /\ \A between \in from + 1..at - 1 : High(line, between) = High(line, from)

-----------------------------------------------------------------------------
(* The capture (external): the bus does what it likes. *)

Capture(sample) ==
    /\ ~ended
    /\ Len(capture) < MaxSamples
    /\ sample # capture[Len(capture)]
    /\ capture' = Append(capture, sample)
    /\ UNCHANGED <<ended, chipSelect, sampling, clkAt, launchAt, armed, pc>>

EndCapture ==
    /\ ~ended
    /\ ended' = TRUE
    /\ UNCHANGED <<capture, chipSelect, sampling, clkAt, launchAt, armed, pc>>

-----------------------------------------------------------------------------
(* SyncToNextAssertion, one action per edge it waits for. *)

(* Plausible bugs: the cursor one sample past the edge, and the skip done   *)
(* whatever the level.                                                      *)
SkipPastDeassertion ==
    /\ pc = "idle"
    /\ ~High("cs", csAt)
    /\ \E at \in 1..Len(capture) : NextEdge("cs", csAt, at) /\ csAt' = at + 1
    /\ pc' = "skipped"
    /\ UNCHANGED <<capture, ended, sampling, assertAt, deassertAt, clkAt, launchAt, armed>>

SkipAlways ==
    /\ pc = "idle"
    /\ \E at \in 1..Len(capture) : NextEdge("cs", csAt, at) /\ csAt' = at
    /\ pc' = "skipped"
    /\ UNCHANGED <<capture, ended, sampling, assertAt, deassertAt, clkAt, launchAt, armed>>

(* Inside an assertion, the capture's first or the last transaction's: step *)
(* over its deassertion.                                                    *)
SkipDeassertion ==
    /\ pc = "idle"
    /\ ~High("cs", csAt)
    /\ \E at \in 1..Len(capture) : NextEdge("cs", csAt, at) /\ csAt' = at
    /\ pc' = "skipped"
    /\ UNCHANGED <<capture, ended, sampling, assertAt, deassertAt, clkAt, launchAt, armed>>

AdvanceToAssertion ==
    /\ \/ pc = "skipped"
       \/ pc = "idle" /\ High("cs", csAt)
    /\ \E at \in 1..Len(capture) : NextEdge("cs", csAt, at) /\ csAt' = at
    /\ pc' = "asserted"
    /\ UNCHANGED <<capture, ended, sampling, assertAt, deassertAt, clkAt, launchAt, armed>>

(* A plausible bug: the clock's cursor left where the last transaction did. *)
ArmWithoutClock ==
    /\ pc = "asserted"
    /\ \E at \in 1..Len(capture) : NextEdge("cs", csAt, at) /\ deassertAt' = at
    /\ assertAt' = csAt
    /\ launchAt' = 0
    /\ armed' = TRUE
    /\ sampled' = {}
    /\ pc' = "ready"
    /\ UNCHANGED <<capture, ended, csAt, clkAt, ioAt, unit, done>>

(* A plausible bug: armed before the deassertion has been captured.         *)
ArmEarly ==
    /\ pc = "asserted"
    /\ deassertAt' = Len(capture) + 1
    /\ assertAt' = csAt
    /\ clkAt' = csAt
    /\ launchAt' = 0
    /\ armed' = TRUE
    /\ sampled' = {}
    /\ pc' = "ready"
    /\ UNCHANGED <<capture, ended, csAt, ioAt, unit, done>>

(* The deassertion is looked up, not advanced to. *)
Arm ==
    /\ pc = "asserted"
    /\ \E at \in 1..Len(capture) : NextEdge("cs", csAt, at) /\ deassertAt' = at
    /\ assertAt' = csAt
    /\ clkAt' = csAt
    /\ launchAt' = 0
    /\ armed' = TRUE
    /\ sampled' = {}
    /\ pc' = "ready"
    /\ UNCHANGED <<capture, ended, csAt, ioAt, unit, done>>

-----------------------------------------------------------------------------
(* ReadByte and TurnAround, one action per edge NextSamplingEdge meets. *)

StartUnit ==
    /\ pc = "ready"
    /\ armed
    /\ unit' = NoSpan
    /\ pc' = "clocking"
    /\ UNCHANGED <<capture, ended, chipSelect, clkAt, ioAt, launchAt, armed, done, sampled>>

(* A plausible bug: the boundary checked where data is sampled only.        *)
FallingEdgeUnchecked(at) ==
    /\ pc = "clocking"
    /\ NextEdge("clk", clkAt, at) /\ ~High("clk", at)
    /\ clkAt' = at
    /\ launchAt' = at
    /\ UNCHANGED <<capture, ended, chipSelect, sampling, armed, pc>>

(* Where the data about to be sampled was launched. *)
FallingEdge(at) ==
    /\ pc = "clocking"
    /\ NextEdge("clk", clkAt, at) /\ ~High("clk", at)
    /\ at < deassertAt
    /\ clkAt' = at
    /\ launchAt' = at
    /\ UNCHANGED <<capture, ended, chipSelect, sampling, armed, pc>>

(* A plausible bug: the falling edge taken when there has been none. *)
LaunchUnchecked(edge) == launchAt

LaunchOf(edge) == IF launchAt > assertAt /\ launchAt < edge THEN launchAt ELSE edge

(* The lanes are sampled, except in a turn-around; this clock may be the    *)
(* unit's last.                                                             *)
RisingEdge(at, lanes, last) ==
    /\ pc = "clocking"
    /\ NextEdge("clk", clkAt, at) /\ High("clk", at)
    /\ at < deassertAt
    /\ clkAt' = at
    /\ ioAt' = IF lanes THEN at ELSE ioAt
    /\ sampled' = sampled \cup {at}
    /\ LET span == [first |-> IF unit.first = 0 THEN LaunchOf(at) ELSE unit.first,
                    last  |-> at]
       IN  /\ unit' = IF last THEN NoSpan ELSE span
           /\ done' = IF last THEN span ELSE done
    /\ pc' = IF last THEN "ready" ELSE "clocking"
    /\ UNCHANGED <<capture, ended, chipSelect, launchAt, armed>>

(* The mode needs a lane the capture does not have: refuse.                 *)
MissingLane(at) ==
    /\ pc = "clocking"
    /\ NextEdge("clk", clkAt, at) /\ High("clk", at)
    /\ at < deassertAt
    /\ clkAt' = at
    /\ armed' = FALSE
    /\ unit' = NoSpan
    /\ pc' = "ready"
    /\ UNCHANGED <<capture, ended, chipSelect, launchAt, ioAt, done, sampled>>

(* A plausible bug: the cursor moved before the edge is checked.            *)
BoundaryAdvances(at) ==
    /\ pc = "clocking"
    /\ NextEdge("clk", clkAt, at)
    /\ at >= deassertAt
    /\ clkAt' = at
    /\ armed' = FALSE
    /\ unit' = NoSpan
    /\ pc' = "ready"
    /\ UNCHANGED <<capture, ended, chipSelect, launchAt, ioAt, done, sampled>>

(* The next edge is the deassertion's or later: the cursor stays.           *)
Boundary(at) ==
    /\ pc = "clocking"
    /\ NextEdge("clk", clkAt, at)
    /\ at >= deassertAt
    /\ armed' = FALSE
    /\ unit' = NoSpan
    /\ pc' = "ready"
    /\ UNCHANGED <<capture, ended, chipSelect, clkAt, launchAt, ioAt, done, sampled>>

(* The decoder has its transaction, whole or not.                           *)
Leave ==
    /\ pc = "ready"
    /\ pc' = "idle"
    /\ UNCHANGED <<capture, ended, chipSelect, sampling, clkAt, launchAt, armed>>

-----------------------------------------------------------------------------
Init ==
    /\ capture \in {<<s>> : s \in Sample}
    /\ ended = FALSE
    /\ csAt = 1 /\ clkAt = 1 /\ ioAt = 1
    /\ assertAt = 0 /\ deassertAt = 0 /\ launchAt = 0
    /\ armed = FALSE
    /\ pc = "idle"
    /\ unit = NoSpan /\ done = NoSpan
    /\ sampled = {}

ClockStep == \E at \in 1..Len(capture) :
    \/ FallingEdge(at)
    \/ \E lanes, last \in BOOLEAN : RisingEdge(at, lanes, last)
    \/ MissingLane(at)
    \/ Boundary(at)

Worker ==
    \/ SkipDeassertion \/ AdvanceToAssertion \/ Arm
    \/ StartUnit \/ ClockStep \/ Leave

Next ==
    \/ \E sample \in Sample : Capture(sample)
    \/ EndCapture
    \/ Worker

(* The calls are made on a thread that does nothing else: an edge that is   *)
(* there is found. Nothing obliges the bus to make one.                     *)
Spec == Init /\ [][Next]_vars /\ WF_vars(Worker)

-----------------------------------------------------------------------------
(* Properties *)

TypeOK ==
    /\ capture \in Seq(Sample) /\ Len(capture) \in 1..MaxSamples
    /\ ended \in BOOLEAN
    /\ csAt \in 1..Len(capture) /\ clkAt \in 1..Len(capture) /\ ioAt \in 1..Len(capture)
    /\ assertAt \in Nat /\ deassertAt \in Nat /\ launchAt \in Nat
    /\ armed \in BOOLEAN
    /\ pc \in {"idle", "skipped", "asserted", "ready", "clocking"}
    /\ unit \in Span /\ done \in Span
    /\ sampled \subseteq 1..Len(capture)

InTransaction == pc \in {"ready", "clocking"}

(* SamplingByteSource.cpp:16-24: what is armed on is always a real          *)
(* assertion edge, with its own deassertion, and never the middle of a      *)
(* packet.                                                                  *)
ArmedOnAssertion ==
    InTransaction => /\ Falling("cs", assertAt)
                     /\ NextEdge("cs", assertAt, deassertAt)

(* SamplingByteSource.h: "Sample every active lane on every rising edge of  *)
(* CLK while CS# is asserted": the edges sampled are the rising edges       *)
(* between the assertion and the clock's cursor, each once, none skipped    *)
(* and none outside the chip select.                                        *)
EveryEdgeSampled ==
    InTransaction /\ armed =>
        sampled = {at \in 1..Len(capture) :
                       Rising("clk", at) /\ assertAt < at /\ at <= clkAt /\ at < deassertAt}

(* SamplingByteSource.h (mLaunchEdge): a unit's span lies inside the chip   *)
(* select it was read in and begins after the unit before it ended, whether *)
(* of this transaction or of an earlier one.                                *)
SpansInOrder ==
    [][done' # done => /\ done.last < done'.first
                       /\ done'.first <= done'.last
                       /\ assertAt < done'.first /\ done'.last < deassertAt]_vars

(* The SDK's cursors only move forward; AdvanceToAbsPosition is never asked *)
(* to move one back.                                                        *)
CursorsOnlyAdvance == [][csAt' >= csAt /\ clkAt' >= clkAt /\ ioAt' >= ioAt]_vars

(* EspiAnalyzer.cpp:230-240: the transactions are taken in the order of     *)
(* their chip selects and none is passed over: no assertion lies between    *)
(* two that were armed on one after the other, nor before the first.        *)
NoAssertionMissed ==
    [][assertAt' # assertAt =>
           \A at \in assertAt + 1..assertAt' - 1 : ~Falling("cs", at)]_vars

(* A chip select captured whole, told by its assertion: it is released.     *)
Whole(at) == Falling("cs", at) /\ \E end \in at + 1..Len(capture) : High("cs", end)

(* SamplingByteSource.h (SyncToNextAssertion), LinkDecoder.h: the contract  *)
(* the link decoder and the worker are written against, kept whatever the   *)
(* chip select and the clock do and wherever a transaction was given up.    *)
ChipSelect == INSTANCE ChipSelects WITH
    waiting <- Cardinality({at \in assertAt + 1..Len(capture) : Whole(at)}),
    busy    <- InTransaction

ImplementsChipSelects == ChipSelect!Spec

(* The chip select's end is in the capture and a clock edge no earlier: all *)
(* that reading it can want to look ahead for.                              *)
Lookahead(at) ==
    /\ Falling("cs", at)
    /\ \E end \in at + 1..Len(capture) :
           High("cs", end) /\ \E edge \in end..Len(capture) : Edge("clk", edge)

(* SamplingByteSource.h:84-87 and mLaunchEdge, "the probe past the end and  *)
(* terminate the worker failure": when a capture ends, every transaction    *)
(* in it is read and left, save one the capture ends in or the clock stops  *)
(* with.                                                                    *)
NothingLostAtTheEnd ==
    ended ~> /\ \A at \in assertAt + 1..Len(capture) : ~Lookahead(at)
             /\ InTransaction => ~Lookahead(assertAt)
=============================================================================
