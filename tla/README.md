# The eSPI analyzer in TLA+

A Logic 2 low level analyzer for eSPI: it samples a logic capture of a bus (a chip
select, a clock, four data lanes), cuts bytes out of it, decodes them into a tree of
fields per chip select and draws the tree as frames. This directory holds models of the
parts of it that decide something, the TLC runs that check them on small instances, and
proofs, checked by TLAPS, of theorems about the worker's session state, the byte source,
the link decoder, the tree of fields and its frames, the lane codec, the CRC, the picture
the rows give of the target and the demo simulation.

The code sits under `src/src/`: the core (`core/src`, `core/include/espi`,
`core/tables`), which knows the protocol and no SDK, and the shell (`saleae`), which knows
the SDK and no protocol. Paths below are relative to `src/src/`.

## 1. Inventory

### Components and their state

| component | code | state it keeps | operations |
|---|---|---|---|
| worker | `saleae/EspiAnalyzer.cpp` (`WorkerThread`) | its place in the loop, the session, the byte source, the decoder | set mode, synchronise, decode, apply, emit, commit |
| session | `core/src/Session.cpp` | I/O mode, CRC checking, uncertain | `Adopt`, `Apply` |
| link decoder | `core/src/LinkDecoder.cpp` | per call: place in the packet, `PacketContext`, CRC accumulators, the `Transaction` | `Decode`, and a read function per element |
| protocol tables | `core/tables/*.h`, `Opcodes.cpp`, `PacketShapes.cpp`, `CycleTypes.cpp`, `Responses.cpp`, `ConfigRegisters.cpp`, `VirtualWires.cpp` | none | look-ups |
| byte source | `saleae/SamplingByteSource.cpp` | the assertion and deassertion it is armed on, the last launch edge, the SDK's cursors | `SyncToNextAssertion`, `ReadByte`, `TurnAround`, `Active`, `SetMode` |
| lane codec | `core/src/LaneCodec.cpp` | accumulator and group count | `PackByte`, `ByteAssembler::Feed` |
| field tree and frames | `core/include/espi/Decode.h`, `EspiAnalyzer::EmitField` | the tree, the end of the last frame | `Field::Add`, `EmitField` |
| CRC-8 | `core/src/Crc8.cpp` | a byte | `Update` |
| simulation | `saleae/EspiSimulationGenerator.cpp`, `SimulationScript.cpp` | cursor into a script, sample reached | `Initialize`, `GenerateSimulationData` |
| settings | `saleae/EspiAnalyzerSettings.cpp` | channels, starting mode | dialog, load, save |
| results and text | `saleae/EspiAnalyzerResults.cpp`, `FrameV2Sink*`, `DecodedText.h`, `core/src/Decode.cpp` | the text of each frame | formatting, export |

### How they interact

The worker calls down and blocks: it sets the byte source's mode from the session, asks it
for the next assertion, and calls `LinkDecoder::Decode`, which pulls bytes and one
turn-around from the byte source through the `ByteSource` interface until the packet ends
or the chip select does. The byte source walks the SDK's channel cursors, which only move
forward, block at the end of what has been captured, and end the thread when the capture
is over. `Decode` returns a `Transaction`: the tree, a truncation flag and a
`SessionUpdate`. The worker applies the update, walks the tree into frames and commits
them. There is one thread of the analyzer's own; what runs concurrently with it is the
bus, by way of a capture that grows while it is read.

### What is hard

* **The mode is carried, not written on the wire.** The worker may be many frames behind a
  bus that has switched mode, and each frame must be read in the mode *it* was sent in,
  the switching frame itself in the old one. A write whose answer was lost may or may not
  have taken effect.
* **Any read may be the last.** The chip select may be deasserted under any byte; the
  decoder returns from fourteen places, and each must report truncation and what the
  bytes read so far mean for the session.
* **A packet's length is data.** It depends on the opcode, the answer, the cycle type, a
  length field with a wrap at zero, a count inside a tunneled packet, and, in a response,
  on whether the answer was an ACCEPT.
* **Cursors cannot go back.** The clock's cursor may stand before or after the next
  assertion when a transaction ends early; an edge may fall on the deassertion's sample.
* **A capture has two ends.** It may open inside a chip select, end inside one, and lack
  lanes a later mode needs; and the byte source looks ahead for edges that may not come.
* **What is on the wire is not what is so.** A level may be an echo, a register may be
  reached by an address that names none, a written field may be read-only.
* **A tree cut short must still draw.** Containers widen with what they are given, frames
  must come in order, and fields without bytes must not become frames.

The properties that make each part correct are listed with the runs below, and the
hazards, each at its line, in `PROJECT.json`.

## 2. Modules

| module | models | composed of |
|---|---|---|
| `EspiTables` | lanes and modes, opcodes, shapes and the elements a phase has, cycle types with their variable bits and headers, responses, the one register that matters | |
| `Session` | `SessionState`: operators on a record | `EspiTables` |
| `ChipSelects` | what the worker is promised of the chip selects: the abstract specification of synchronising | |
| `EspiAnalyzer` | the worker's loop against a bus that runs ahead of it | `Session`, refines `ChipSelects` |
| `LinkContract` | what the worker relies on: the abstract specification of `Decode` | `Session` |
| `LinkDecoder` | `DecodeTransaction` and everything it calls | `Session`, refines `LinkContract` |
| `SamplingByteSource` | cursors and edges, to the end of the capture | refines `ChipSelects` |
| `LaneCodec` | `PackByte` and `ByteAssembler`, sender and reader in modes of their own | `EspiTables` |
| `VirtualWires` | the ranges of virtual wire indices and the rows made of a group | `EspiTables` |
| `ConfigRegisters` | the registers' fields, their addresses and the rows made of a value | `VirtualWires` |
| `TargetPicture` | what a reader of the rows believes of a line of the target, next to what is so | `ConfigRegisters` |
| `FieldTree` | the fields each element is read into, whole or in part | `EspiTables` |
| `FrameEmission` | building the tree and walking it into frames | `FieldTree` |
| `Crc8` | the CRC register | |
| `PhaseReader` | a phase and its CRC: the sender's register next to the reader's, over a wire that changes bytes | `Crc8`, `EspiTables` |
| `Simulation` | demo mode as a closed loop: settings, generator, a worker reading the waveform back | `Session`, `Crc8` |
| `EspiAnalyzer_proofs` | the theorems about `EspiAnalyzer` | `EspiAnalyzer`, `TLAPS` |
| `SamplingByteSource_proofs` | the theorems about `SamplingByteSource` | `SamplingByteSource`, `TLAPS` |
| `EspiTables_proofs` | lemmas: what the tables' look-ups return | `EspiTables`, `TLAPS` |
| `LinkDecoder_proofs` | the theorems about `LinkDecoder` | `LinkDecoder`, `EspiTables_proofs` |
| `LaneCodec_proofs` | the theorems about `LaneCodec` | `LaneCodec`, `EspiTables_proofs` |
| `TargetPicture_proofs` | the theorems about `TargetPicture` | `TargetPicture`, `TLAPS` |
| `Simulation_proofs` | the theorems about `PhaseReader` and `Simulation` | `Simulation`, `PhaseReader`, `EspiTables_proofs` |
| `FrameEmission_proofs` | the theorems about `FieldTree` and `FrameEmission` | `FrameEmission`, `EspiTables_proofs` |

`MCEspiAnalyzer`, `MCLinkDecoder` and `MCFrameEmission` give the constants that a cfg
cannot write; `MCBytes` does so for `LaneCodec`, `PhaseReader` and `TargetPicture`, which it
runs side by side, a behaviour being one of any of them. A comment "A plausible bug" marks an operator no
specification uses: it is a changed version of the definition that follows it, kept to
show that a property notices.

### EspiAnalyzer

`pc` is the worker's place in the loop of `WorkerThread`; `SetMode`, `Sync`, `Decode`,
`ApplySession` and `Emit` are the calls of one turn, in order. `bus`, `asserted` and
`pending` are external: the register in force on the wire and the frames captured and not
yet decoded, each remembering the state it was sent in and the one it left
(`BusAssert`, `BusDeassert`). A capture may open inside a chip select: then `opened` holds
until it is released, its frame is not `whole`, and `SkipOpening`, the first step of
`SyncToNextAssertion`, passes over it. `readable` is the set of modes whose lanes are
wired, fixed for the capture (`Wirings`). A frame is one of three kinds, since a session
learns from nothing else: an in-band reset, a write to General Capabilities and Configurations, or
anything else. `DecodedUpdates` says what a frame decodes to: what `LinkContract` promises
if it is read in its own mode, one of `Misreads` if it is not, nothing at all if the mode
it is read in needs a lane that is not there. A reset is all lanes high and reads as one
in every mode that can be read.

`basis` and the `guess` and `basis` of `txn` are history: what the session's mode rests on.
The user's starting mode may be wrong, or right and overtaken by the frame the capture
opens in (`WrongSetting`), and a write may select the
reserved encoding, after which the parties may do anything (`Reserved`).

`ReadsEachOnce` is `ChipSelects!Spec`: of the frames captured whole the worker takes the
next in line, one at a time, none twice, whatever it makes of them. `NoWayBack` states the
price of refusing a mode without its lanes: the session is in that mode for good.

### LinkDecoder and LinkContract

`pc` and `todo` are the place in `DecodeTransaction` and the elements of the phase still to
read; `context` is `PacketContext`; `tally` counts the bytes each phase read and the bytes
its CRC accumulator covered; `result` is the `Transaction`. Every read is an action whose
bytes are chosen at that step, and `RunOut` may replace any read: the deassertion inside
an element reads part of it and returns. A cycle header is chosen as the byte on
the wire and its length field; which row of the channel's table the byte is, with the bits
a row leaves open, is `LookupCycleType`. `RecordSessionUpdate` runs on every way out.
`wire` is history: the bytes the bus carried, which is what the properties compare the
result with; the decoder's own `context` would prove itself.

`GivesUpOnUnknownLength` is the other side of `FrameLength`: a decode that stops early
with bytes still to come does so only where the specification defines no length, told by
a list of the bytes it prints and not by the tables.

`LinkContract` is the abstract specification: a call is made, the frame turns out to carry
a reset, a write to the register, an answer, or to run out, and the verdict follows from
these alone. `ImplementsContract` is `LinkContract!Spec` under the refinement mapping at
the foot of `LinkDecoder`, and `ExactUpdate` of `EspiAnalyzer` is the same rule.

One case the contract leaves open, because the code and its table disagree on it (section
5): a byte xFh of modifier 01, 10 or 11 (FFh apart). `CarriesUndecided` is such a byte;
`undecided` remembers it to the end of the frame, and the verdict may then be that of the
answer that follows or that of an undefined one. On the decoder's side `wire.undecided` is
history like the rest of `wire`: no action looks at it.

### SamplingByteSource

`capture` is the sequence of samples at which the chip select or the clock changes, which
are the only ones the code looks at; the levels of both in the first are arbitrary, so a
capture may open inside a chip select. `Capture` appends a sample at any time until
`EndCapture`. Each SDK call that waits for an edge is an action enabled once the edge is
there; where it never comes the SDK ends the thread, which is a worker that takes no more
steps. How many clocks a
unit takes depends on the mode and is left open.

`ImplementsChipSelects` shows the promise `EspiAnalyzer` was written against kept by the
cursors: `waiting` is the number of chip selects captured whole after the last one armed
on. `NothingLostAtTheEnd` says what the lookahead costs: when the capture ends, all that
is not read is a chip select that is not released in it or after which the clock has no
further edge (`Lookahead`).

### LaneCodec

A frame of four bytes goes out in one mode and phase and is read in any mode. On lanes
that nobody drives any level may be seen. `Feed` is `ByteAssembler::Feed` with the `Reset`
the byte source does on a completed byte.

### VirtualWires, ConfigRegisters and TargetPicture

The first two are the rows the decoder hangs under a byte or a DWord, as facts: that a
line (an interrupt, a wire, a bit of a register) has a level. `TargetPicture` watches one
line. `actual` is its level in the target, which the bus changes in the ways the
specification has for it; `told` is what the last row to be believed about it said. Each transaction that
carries lines is an action, sent with any content, about this line or another: an echo
under a clear valid bit is arbitrary, a read answers what is so, a write takes effect as
the field's access says, also through an address with its upper bits set, an in-band reset
restores what the session goes by. `adopted` is the register content the session was last
given (`Adopted`, `InbandReset`). Of a write the reader believes the rows of writable
fields only: the decoder prints one for a read-only field too, which says what was written
and leaves `told` as it was. All transactions are accepted here; what a refused or lost one means is
`LinkDecoder`'s. The names of the three fields the code looks for are written as one word,
and every other field is called `Other`.

### FieldTree and FrameEmission

The tree keeps names, spans and children; text, values and severities are left out, and
where several fields explain the same bytes two stand for all of them, because the walk
asks only whether a child's span differs. A read cut short leaves the fields of the reads
before it. `AddAll` is `Field::Add` of several children at once: merging is the least
first and the greatest last sample, so the order it is done in does not show. Names have
no spaces. `Walk` is `EmitField`, its recursion as a worklist.

### Crc8 and PhaseReader

`Crc8` is the register, eight clocks to a byte. `PhaseReader` follows one phase of a packet
from its first byte to its CRC, from both ends: `laid` is what the sender's register holds
(external), `mCrc` what `PhaseReader` has accumulated, and each byte is seen as it was sent
or with the bits of an error inverted. `WaitState` is read and not counted; the response
byte is counted once it is known to be none (`FirstByte`); the CRC is compared with the
accumulator as it stands before it (`ReadCrc`, `CrcField`). Which bytes an opcode and a
length call for is `LinkDecoder`'s: here a phase has any number of them, and a change that
would have the reader cut it elsewhere or give it up (`Opens`) is left out. `damaged` and
`odd` are history: how many bytes came over changed, and whether an odd number of their
bits did.

### Simulation

`settings` is what the dialog accepted or an archive held; the host does not touch it once
the generator is ready. `generator` is the state of `EspiSimulationGenerator`: the script
it chose, its cursor, the sample it has reached. A call of `GenerateSimulationData` is
`Request`, one `EmitTransaction` per turn of its loop, and `HandOver`. `drawn` is the
waveform, a transaction at a time, with its literal bytes; `read` and `session` are the
worker's, which learns of a mode change from those bytes only. A transaction's length in
samples is counted clock by clock; the levels on the lanes are `LaneCodec`'s. The SDK's
conversion of sample numbers (`TargetSample`) is modelled from the comment at its call.

## 3. Runs

Passing runs:

| run | instance | states | shows |
|---|---|---|---|
| `session` | backlog 2, a write of Quad with CRC on and one of the reserved encoding, any starting mode, bus state and wiring, a capture that opens inside a frame or not | 666 000 | `ModeAgreement`, `CrcAgreement`: a session that is sure is right, however far behind. `WrongReadIsSuspect`: no frame is read in a wrong mode but on a declared guess. `ResetHeals`: a reset ends any disagreement but one. `NoWayBack`: that one. `ReadsEachOnce`: every whole frame is read, once and in turn |
| `link` | an opcode of every shape and channel, every short length, an undefined and a reserved one; responses of every code and modifier; a cycle type byte of every row, with every variable field and without, and of none; lengths 0, 2, 64; counts at their bounds; one wait state; of the bytes xFh of another modifier than 00, 4Fh | 246 000 | `CrcCoverage`, `FrameLength`, `DeferFlaggedForPosted`, `GivesUpOnUnknownLength`; `ImplementsContract`; `DecodeReturns` |
| `sampling` | every capture of 8 samples, ended anywhere | 681 000 | `EveryEdgeSampled`, `SpansInOrder`, `CursorsOnlyAdvance`, `NoAssertionMissed`; `ImplementsChipSelects`; `NothingLostAtTheEnd` |
| `frames` | an opcode of every shape; payloads on both sides of the SMBus header with a Byte Count that leaves a PEC, none, or neither; one or two groups of wires; cut anywhere | 67 000 | `SpanContainment`, `FramesInOrder`, `EveryFieldShown`, `OverlapsAreShared`, `WalkEnds` |
| `bytes` | lanes: every first byte, two next bytes, every pair of modes, both phases, any level on undriven lanes. Picture: a line of every kind, a field of every access, every content of a wire group, addresses with upper bits set, unaligned and reserved ones. CRC: phases of either kind and any length, two bytes, one of them a wait state as a response, errors of one bit and of three | 709 000 | `RoundTrip`, `ResetReadsInAnyMode`, `NothingElseReadsAsReset`. `FieldTells`: the CRC field tells a phase that came over clean from one with a byte changed; `OddDamageShows`: an odd number of bits inverted is reported. `TruthTold`: the last row to be believed about a line states its level. `SessionFollowsRegister`: what the session adopted is what the register holds |
| `demo` | every setting the dialog accepts, a simulation rate below the clock's and one above, devices of both kinds, requests for more than one turn of the script | 15 000 | `ReaderInMode`: looped, the script is always in the mode the worker has worked out. `ScriptDecodes`: its bytes are cut where the tables cut them, with good CRCs. `AcceptedSettingsDraw`, `RequestsReturn` |

Each run checks the `TypeOK` of its module, `bytes` that of `LaneCodec`. Four statements
are proved (section 4) and in no run, each being part of one that is or what it rests on:
`ArmedOnAssertion` (of `ImplementsChipSelects`), `TopBitsFirst` (of `RoundTrip`),
`EveryTurnDraws` (of `RequestsReturn`) and `PhaseTypeOK`. Every property has a mutant in
`PROJECT.json`: a changed definition under which the same run finds it violated.

Why the bounds are enough:

* `MaxBacklog = 2` (frames captured and not decoded): the interesting states are a frame
  in hand, the next one, and the bus past both in a third mode. The theorems hold for
  every backlog and every set of written values.
* `MaxWaits = 1`, `MaxResetBytes` (bytes of a reset after its opcode, 2 in `link`, 3 in
  `frames`): one wait state separates covered from read; the remainder of a reset is on
  both sides of sixteen clocks in Single and short of it in Quad, with left-over clocks.
* `GroupCounts = {1, 2}` (groups of a virtual wire packet, 64 at most): the second group
  is the first that can be lost whole behind another. The theorems hold for every count.
* `MaxSamples = 8` (samples of a capture at which a line changes): a capture that opens
  inside a chip select, releases it, and holds a second chip select with a launch edge, a
  sampling edge and a boundary edge needs seven; a clock edge after it, eight.
* `MCDWords`: the bits the session goes by in every combination, the others in three
  patterns in which the bits next to a watched one differ from it.
* `FrameSize = 4` bytes in `LaneCodec`: a reader in Single needs eight clocks, which is
  four bytes of Quad.
* `Requests` up to sample 4600 in `demo`: more than a turn of the whole script at
  the lower rate, more than four of the part without the excursion in Quad. `MaxDrawn = 60`
  (transactions of the waveform remembered) is never reached.

* `Contents = {8, 15}`, `Errors = {64, 131}`: 8 opens a command and a response, 15 is a
  wait state and 64 keeps both so; with these two every value of both registers comes up,
  so phases are as long as it takes. `Several = 2` damaged bytes stand for all above one.

`sampling` and `bytes` end when the capture, the frame or the phase does, so deadlock is
not checked there; it is in the other runs.

Six runs check what a comment of the repository says of the program and the program does
not do; TLC shows each violated:

* `frame_overlap` (`FramesDoNotOverlap`): frames of fields that were read from one byte
  overlap, so the assertion in `EmitField` fails, e.g. for Tag and Length of any cycle
  header. `OverlapsAreShared`, in `frames`, says that nothing else overlaps.
* `frame_loss` (`NothingLost`): the bytes of a malformed reset and of a message code are in
  no frame. `EveryFieldShown` says that everything else is.
* `error_answer` (`ErrorAnswerIsStatusOnly`): error answers to GET_VWIRE and
  GET_CONFIGURATION are read as if they carried data.
* `defer_posted` (`DeferToPostedWriteFlagged`): DEFER to PUT_MEMWR32_SHORT is not flagged.
* `guess_admitted` (`GuessIsAdmitted`): rows decoded after an unconfirmed write, in a mode
  the session holds to be uncertain, do not say so.
* `reset_pattern` (`ResetPatternChecked`): clocks left over after the last whole byte of a
  reset are not counted.

### Fairness

`EspiAnalyzer`: `WF(Worker)`, since the worker is a thread in a loop whose every step is
enabled once the capture holds what it waits for, and `WF(BusDeassert)`, a chip select that
is asserted is released; without it `SyncToNextAssertion` waits for ever, as it should.
Nothing obliges the bus to send. `LinkDecoder`: `WF(Decode)`, the call runs on the worker's
thread and every read returns, with a byte or without. `SamplingByteSource`: `WF(Worker)`,
an edge that is in the capture is found. `FrameEmission`:
`WF(Walk \/ Commit)`, the same thread. `Simulation`: `WF(EmitTransaction \/ HandOver)`, a
call runs on its caller's thread. Safety properties use none.

## 4. Proofs

`EspiAnalyzer_proofs` proves, for every `Configs`, `MaxBacklog` and `Misreads` that meet
the module's assumptions:

| theorem | statement |
|---|---|
| `Invariance` | `Spec => []IInv` |
| `TypeCorrect` | `Spec => []TypeOK` |
| `SessionFollowsBus` | `Spec => []ModeAgreement` |
| `CrcFollowsBus` | `Spec => []CrcAgreement` |
| `NoConfidentMisread` | `Spec => []WrongReadIsSuspect` |
| `StuckForGood` | `Spec => NoWayBack` |
| `KeepsTheContract` | `Spec => ReadsEachOnce` |

None of the three agreements is inductive: they speak of the frame at the head and of the
session, and a step of the worker takes the next frame from a queue they say nothing of.
`IInv` adds what the queue is and what the worker holds:

* `Room`: a chip select is asserted only while the backlog has room for it;
* `Chain`: every frame was sent in the state the frame before it left, and the bus is in
  the state the last one left. This is what carries agreement from one frame to the next;
* `Opening`, `Synced`: while the chip select the capture opened in is asserted nothing is
  captured before it, and what `Sync` let through is whole;
* `SourceInMode`: from `SetMode` to `Apply` the byte source is in the session's mode;
* `InHand`: between `Decode` and `Apply` the update in hand is one that the frame decodes
  to in the mode it was read in, and the guess and basis recorded are those of the session
  that will be updated;

and the agreements themselves. `KeepsTheContract` adds that only the first frame can be
one the capture opened in (`OnlyFirstOpened`): passing over it leaves the count of those
to read (`ToRead`) as it was, and taking any other lowers it by one.

For the agreements, decoding moves the frame from the head into the hand: `Chain` says the
new head was sent in the state that frame left, and `InHand` that the update says so too,
or that it says it does not know. The assumption that does the work is
`MisreadsAssumption`: a frame read in the wrong mode is not taken for an accepted write or
a reset. `Session.cpp` rests on it silently; for resets `OnlyResetReads`, below, proves it
for every opcode the tables define, for writes it stays an assumption
(the misread would have to be a whole well formed command with a matching answer).

`SamplingByteSource_proofs` proves, for captures of any length (every `MaxSamples`) and
units of any number of clocks:

| theorem | statement |
|---|---|
| `Invariance` | `Spec => []IInv` |
| `TypeCorrect` | `Spec => []TypeOK` |
| `AlwaysArmedOnAssertion` | `Spec => []ArmedOnAssertion` |
| `NoEdgeMissed` | `Spec => []EveryEdgeSampled` |
| `SpansAreInOrder` | `Spec => SpansInOrder` |
| `CursorsNeverGoBack` | `Spec => CursorsOnlyAdvance` |
| `EveryAssertionTaken` | `Spec => NoAssertionMissed` |
| `KeepsTheContract` | `Spec => ImplementsChipSelects` |

That every edge is sampled is inductive only together with where the cursors stand, so
`IInv` adds:

* `Position`: at each place of the code, on which edge the chip select's cursor stands,
  that the clock's is not past it before `Arm` and is inside the chip select after, and
  that no assertion has been stepped over since the last one taken;
* `LanesFollow`: the lanes' cursors are never past the clock's, so sampling them moves none
  of them back;
* `Launched`: while the clock is low, its cursor is on the launch edge recorded, if there
  is one in this chip select, which is what makes `LaunchOf` give the edge before the
  sampling edge and not one of an earlier unit;
* `UnitsInOrder`: the last unit ended on a rising edge the cursor has passed, and the one
  being read began after it.

`KeepsTheContract` is the two ends of a count: a captured sample completes at most the
chip select that is open (`OnlyLastUnfinished`, `CaptureCompletes`), and arming takes the
first of those waiting and no other (`ArmTakes`), because no assertion has been stepped
over. With the theorem of the same name in `EspiAnalyzer_proofs`, the cursors below and the
loop above are proved against one specification.

The lemmas say that the SDK's next edge is unique and to the other level, that captured
samples never change, and then, action by action, that `IInv` is kept.

### The link decoder

`LinkDecoder_proofs` proves, for any bytes on the wire (every value of the constants that
meets the module's assumptions, which only give them their ranges), any number of wait
states and any frame of a reset:

| theorem | statement |
|---|---|
| `Invariance` | `Spec => []IInv` |
| `TypeCorrect` | `Spec => []TypeOK` |
| `CrcCovers` | `Spec => []CrcCoverage` |
| `FramesAsDrawn` | `Spec => []FrameLength` |
| `DeferFlagged` | `Spec => []DeferFlaggedForPosted` |
| `GivesUp` | `Spec => []GivesUpOnUnknownLength` |
| `Refinement` | `Spec => ImplementsContract` |

The four properties speak of a transaction that is over, so none is inductive. `IInv` says
of each place of the decode what they will need at its end:

* `Control`: where the decode is, what has been seen on the wire by then, and that `todo`
  is the tail of the elements the bytes on the wire announce (`Packet`), the appended
  elements of a modified GET_STATUS included;
* `Announced`: the decoder's `context` says of the elements still to read what the wire
  does: the channel whose cycle types apply, the length of a short command, the payload
  the header announced;
* `Covered`: what the CRC accumulator has covered, next to what was read;
* `Measured`: what has been read so far is what the figures draw of the elements so far
  (`Drawn`). That the code's sizes and the figures' are the same number is a lemma per
  element; for cycle headers it takes the rows of all channels against the figures
  (`EspiTables_proofs` has the look-ups, for every byte with its variable bits);
* `Flagged`: the context's `posted` is that of the command's own header, and the appended
  completion of a status does not touch it;
* `Contracted`: the context keeps up with the contract's view of the wire, which is what
  the refinement rests on;
* `Stopped`: why a decode stopped with bytes still to come.

`Refinement` takes `LinkDecoder` action by action: `Begin` is `Call`; the reads of a RESET
opcode, of a value written to the register, and of a response that is no wait state are
`CarriesReset`, `CarriesWrite` and `CarriesAnswer`; a wait state on which code and table
disagree is `CarriesUndecided`; `RunOut` is `RunsOut`; `RecordSessionUpdate` is `Return`;
and every other read is a stutter. What the decoder returns after such a wait state is one
of the two verdicts the contract then allows, so the theorem says nothing on which of them
is right. With
`ExactUpdate` of `EspiAnalyzer`, the worker's session is proved against the rule the
decoder is proved to keep.

### Fields and frames

`FrameEmission_proofs` proves, for any opcodes, lengths, counts, groups and wait states,
cut short anywhere:

| theorem | statement |
|---|---|
| `Invariance` | `Spec => []IInv` |
| `TypeCorrect` | `Spec => []TypeOK` |
| `SpansContain` | `Spec => []SpanContainment` |
| `FramesOrdered` | `Spec => []FramesInOrder` |
| `OverlapsShared` | `Spec => []OverlapsAreShared` |
| `FieldsShown` | `Spec => []EveryFieldShown` |

A field's children are a `Row` of the units it was read from: each lies inside them, and
each `Follows` the ones before it. Two siblings of one byte are allowed (Tag and Length),
but only if both are `Flat`, drawn as they are, the later neither begins nor ends
before the earlier, and they are a pair of `SharedBytes`: a sibling of the same bytes whose
children were drawn instead would put its last byte before the next one's first. Fields
nest four deep at most (`Phase`, `Part`, `Explanation`, `Cell`), each a `Node` that covers
its children (`Fits`); the children of a flat field may be in any order, since they are
never visited. `IInv` is:

* `Known`: the type invariant, and that past the opcode it is known which it was;
* `Growing`: the phases recorded are a row of the units before the phase being read, and
  that phase is one of the units read since it began (`Started`), so that whatever is added
  comes later;
* `Emitting`: during the walk the fields still to visit are in order among themselves and
  after every frame drawn (`DrawnBefore`), and each is held by a phase.

`FramesInOrder` alone is not inductive, since it says nothing of what is yet to be drawn.
The lemmas go element by element: what each read adds, whole or cut short, is a row of the
bytes it takes (`FixedRow`, `VwireRow`, `CycleHeaderRow`, `PayloadRow`, `ResetRow`); rows
join (`RowsJoined`) and can be cut (`RowCut`); and `Grown` says that a field given more
children of later bytes goes on to fit, which needs `Merged`, about the least and greatest
of a set of numbers.

`FieldsShown` needs more of the fields and an invariant of its own. A part or an
explanation is `Tiled`: drawn as it is, one of the two `Lost`, or every sample of it is in
some child that is not lost. The containers that are neither, a virtual wire packet and an SMBus
packet, are made of a row without gaps (`Chained`: each field begins where an earlier one ends at
the latest), which stays so wherever the read is cut, and end where their own bytes or a
child ends (`MadeWhole`). `Owed` then says during the walk that every sample of every
field below the phases is under a frame, or that visiting what is left of the work will
draw it (`Draws`). It holds when the walk begins (`PhasesDrawn`); a descent passes it on to
the children, a field skipped has no samples, and one drawn becomes a frame.

### The lane codec

`LaneCodec_proofs` proves, for any bytes, modes and phases, and any level on the lanes
nobody drives:

| theorem | statement |
|---|---|
| `Invariance` | `Spec => []IInv` |
| `TypeCorrect` | `Spec => []TypeOK` |
| `TopBits` | `Spec => []TopBitsFirst` |
| `WholeBytes` | `Spec => []RoundTrip` |
| `ResetReads` | `Spec => []ResetReadsInAnyMode` |
| `OnlyResetReads` | `Spec => []NothingElseReadsAsReset` |

`TopBitsFirst` must be known of the accumulator before `RoundTrip` can be of a byte, and
both are inductive with the count of clocks (`InStep`) and that the places of the bits to
come are still clear (`Blank`), since `|=` only sets. In a wrong mode, `OnesSoFar` says
that a reset has filled the accumulator down to the place it has reached, and `NeverFull`
that anything else has not: every other opcode has bit 7 and bit 4 clear, one of them is
on the first lane by the second clock, and a place once missed is not set later in the same byte.

### The target's picture

`TargetPicture_proofs` proves, for any lines, indices, addresses (aligned or not, reserved
bits set or not) and values:

| theorem | statement |
|---|---|
| `Invariance` | `PictureSpec => []IInv` |
| `RowsTellTheTruth` | `PictureSpec => []TruthTold` |
| `SessionFollows` | `PictureSpec => []SessionFollowsRegister` |

`TruthTold` alone is not inductive: a wire of a reserved index has no row, so nothing may
have been told of it before (`Silent`). The lemmas are about the tables: the fields of every
register cover its 32 bits (`Tiled`), the rows of a group state the levels of
its valid bits and of no other (`WireRowsSay`), the rows of a register those of the value
(`RegisterRowsSay`), and the session's bits are ones that can be written
(`SessionBitsWritable`), so that a write that reaches the register changes both.

### The CRC

`Simulation_proofs` proves, for any bytes, errors, number of bytes and number of wait
states:

| theorem | statement |
|---|---|
| `PhaseInvariance` | `PhaseSpec => []PhaseInv` |
| `PhaseTypeCorrect` | `PhaseSpec => []PhaseTypeOK` |
| `FieldIsRight` | `PhaseSpec => []FieldTells` |
| `OddDamageCaught` | `PhaseSpec => []OddDamageShows` |

The last two speak of the end of a phase. `Register`, of every place in it, is what carries
them there: while nothing came over changed the two registers are equal, once one byte did
they differ, and the parity of what they differ in is that of what was inverted. It is kept
by three facts about a byte taken in, for all registers and bytes: equal registers stay
equal over equal bytes; registers that differ stay different, since a clock loses nothing
(`ShiftKeeps`: the bit that falls out comes back as the last one, the polynomial having the
term 1); and the parity changes by that of the byte (`ParityOfShift`: the bit that falls
out and the three that are inverted are four, x + 1 dividing the polynomial). Underneath
are the bits of a byte and of an exclusive or (`SumOfBits`, `XorBits`).

### The simulation

`Simulation_proofs` proves, for any simulation rates, requests of any size and waveforms of
any length:

| theorem | statement |
|---|---|
| `Invariance` | `Spec => []IInv` |
| `TypeCorrect` | `Spec => []TypeOK` |
| `ReadsInMode` | `Spec => []ReaderInMode` |
| `AcceptedDraw` | `Spec => []AcceptedSettingsDraw` |
| `ScriptReads` | `Spec => []ScriptDecodes` |
| `TurnsAdvance` | `Spec => EveryTurnDraws` |

`ReaderInMode` is about a worker that has read some of the transactions drawn and not the
rest. It follows from three facts that are inductive together: `Chosen`, that once ready
the generator holds the script its settings call for, and before that nothing is drawn;
`Wave`, that what is drawn is that script turned over, transaction `i` of the waveform
being entry `i` modulo its length, and the cursor where that says; `Following`, that the
session is in the mode of the entry the worker has come to. `Following` goes from one
transaction to the next by the lemma `NextInMode`, about the script alone: a session in the
mode of an entry is, once that entry's bytes are applied, in the mode of the next, the
last entry's next being the first. That is what `SimulationScript.h` asks of a script, and
it is proved of the whole script and of the one without the excursion, in each
mode. `AcceptedDraw` rests on `Dialog` (settings with channels were acceptable) and on the
lemma that settings the dialog accepts have the lanes their script needs (`ScriptFits`).
`TurnsAdvance` adds that the half period is not zero (`Floored`).

`ScriptReads` takes an entry of the script from `Wave` and shows that each decodes, in any
mode it may be drawn in (`ChosenDecodes`). Its CRCs are worked out: `ClockedTable` clocks
the register from each value the literal bytes bring it to, `UpdateTable` chains them, and
`CleanCommands` and `CleanResponses` compare the end of the chain with the phase's last
byte. That `Compute`, a recursive function, is that chain is `RegisterSteps`, by a least
number of bytes for which it is not (`SmallestOf`).

### Only model-checked

* Liveness (`ResetHeals`, `NothingLostAtTheEnd`, `DecodeReturns`, `WalkEnds`,
  `RequestsReturn`), which the prover does not do. Of `RequestsReturn` the half that is not
  about fairness is proved: `TurnsAdvance`.

That a misread frame is not taken for an accepted write (`MisreadsAssumption`) is neither
checked nor proved: it is assumed.

## 5. Not modelled

* **CRC values in the link decoder**: a transaction's session update does not depend on
  them; which bytes are covered is `CrcCoverage`, what the comparison shows `PhaseReader`.
  Damage to a byte that says how long the phase is moves the place the CRC is looked for,
  and what it is then compared with is anything.
* **Values of SMBus and MCTP headers, message codes, LTR and status bits**, and of the
  registers and wires the words for them: they become text and nothing acts on them.
* **Whether a byte xFh of a modifier other than 00 (4Fh, 8Fh or CFh, with any reserved
  bits, but not FFh) is a wait state.** `Responses.h:31-33` says that WAIT_STATE "requires [7:6]=00" (and lines 37-38
  that these bits are "always 00" but in an ACCEPT of a GET_STATUS and in NO_RESPONSE);
  `IsWaitState` (`Responses.cpp:58-63`) looks at the low nibble alone and takes every such
  byte but FFh for a wait state. A write of 008h answered 4Fh, 08h is settled by the code,
  and by the comment was answered with an undefined response and is uncertain. The actions
  of `LinkDecoder` and `PhaseReader` do as the code does; `ImplementsContract` and
  `Refinement` allow either verdict and settle nothing. `CrcCoverage`, `FrameLength`,
  `GivesUpOnUnknownLength` and `FieldTells` count such bytes as the wait states the code
  takes them for: were the comment right, the bytes after one would not be the response.
* **A write through an address that is not DWord aligned**: `ConfigRegisters.h` says that
  the register still resolves, `IsGeneralConfigAddress` that 009h is not the general one.
  What a target does the code leaves open; in `TargetPicture` the register is not `settled`
  until it is next written or reset.
* **Results, bubble text, export, FrameV2 rows**: formatting.
* **Interfaces and labels of the settings**, and a change of settings under a generator
  that is already drawing: whether the host does that is not in this code.
* **The SDK**: cursors are modelled by what the byte source does with them.

## 6. Plan

Every safety invariant and action property the runs check is stated by a theorem. Left:

1. `SamplingByteSource` and `EspiAnalyzer` on one capture: each implements `ChipSelects`;
   what is not shown is that the mode a frame was sent in is what its clocks are cut by.
