----------------------------- MODULE Simulation ------------------------------
(***************************************************************************)
(* Demo mode as a closed loop: the settings a run starts from, the         *)
(* generator that lays a script of literal bytes down in whole             *)
(* transactions as far as it is asked to, and the worker that reads the    *)
(* waveform back with nothing but the starting mode to go by.              *)
(*                                                                         *)
(* A transaction is the unit of the waveform; how its bytes are put on the *)
(* lanes is LaneCodec's, how they are sampled SamplingByteSource's. Time   *)
(* is counted in samples.                                                  *)
(***************************************************************************)
EXTENDS Session, Crc8, FiniteSets, SequencesExt

CONSTANTS
    SimulationRates,   \* samples a second of the waveform
    DeviceRates,       \* samples a second of the device it stands in for
    Requests,          \* sample numbers the host asks for
    MaxDrawn,          \* transactions of the waveform remembered; never reached
    None               \* no request being served, no worker started

ASSUME SimulationAssumption ==
    /\ SimulationRates \subseteq Nat \ {0} /\ DeviceRates \subseteq Nat \ {0}
    /\ Requests \subseteq Nat
    /\ MaxDrawn \in Nat
ASSUME NoneAssumption == None \notin SessionState

VARIABLES
    settings,    \* EspiAnalyzerSettings
    generator,   \* EspiSimulationGenerator
    target,      \* the sample the call being served must pass
    drawn,       \* the waveform: the transactions laid down
    given,       \* how many of them the host has been handed
    read,        \* how many of them the worker has decoded
    session      \* the worker's SessionState

vars == <<settings, generator, target, drawn, given, read, session>>

-----------------------------------------------------------------------------
(* The script *)

Transaction(command, turnaround, response, mode) ==
    [command |-> command, turnaround |-> turnaround, response |-> response, mode |-> mode]

SimulationScript == <<
    Transaction(<<\h21, \h00, \h20, \hC8>>, TRUE,
                <<\h08, \h00, \h0B, \h00, \h00, \h0F, \h01, \h91>>, "Single"),
    Transaction(<<\h22, \h00, \h20, \h01, \h00, \h07, \h00, \h01>>, TRUE,
                <<\h08, \h0F, \h01, \h95>>, "Single"),
    Transaction(<<\h05, \h1B>>, TRUE,
                <<\h08, \h00, \h05, \h88, \h0F, \h01, \h9F>>, "Single"),
    Transaction(<<\h21, \h00, \h30, \hB8>>, TRUE,
                <<\h08, \h10, \h01, \h00, \h00, \h0F, \h01, \hD2>>, "Single"),
    Transaction(<<\h22, \h00, \h30, \h01, \h01, \h00, \h00, \h33>>, TRUE,
                <<\h08, \h0F, \h01, \h95>>, "Single"),
    Transaction(<<\h05, \h1B>>, TRUE,
                <<\h08, \h00, \h05, \h19, \h0F, \h01, \h5D>>, "Single"),
    Transaction(<<\h05, \h1B>>, TRUE,
                <<\h08, \h00, \h40, \h11, \h0F, \h01, \hD9>>, "Single"),
    Transaction(<<\h05, \h1B>>, TRUE,
                <<\h08, \h00, \h40, \h10, \h0F, \h01, \hB2>>, "Single"),
    Transaction(<<\h22, \h00, \h08, \h0F, \h00, \h34, \h8B, \hC6>>, TRUE,
                <<\h08, \h0F, \h01, \h95>>, "Single"),
    Transaction(<<\h21, \h00, \h20, \hC8>>, TRUE,
                <<\h08, \h00, \h0B, \h00, \h00, \h0F, \h01, \h91>>, "Quad"),
    Transaction([i \in 1..8 |-> \hFF], FALSE, << >>, "Quad") >>

ModeExcursionEntries == 3

(* A plausible bug: the lanes alone decide. *)
ScriptFromAnyStart(startingMode, lanes) ==
    IF lanes = 4 THEN SimulationScript
    ELSE [i \in 1..Len(SimulationScript) - ModeExcursionEntries |->
              [SimulationScript[i] EXCEPT !.mode = startingMode]]

(* A plausible bug: the starting mode alone decides. *)
ScriptFromAnyLanes(startingMode, lanes) ==
    IF startingMode = "Single" THEN SimulationScript
    ELSE [i \in 1..Len(SimulationScript) - ModeExcursionEntries |->
              [SimulationScript[i] EXCEPT !.mode = startingMode]]

SimulationScriptFrom(startingMode, lanes) ==
    IF startingMode = "Single" /\ lanes = 4 THEN SimulationScript
    ELSE [i \in 1..Len(SimulationScript) - ModeExcursionEntries |->
              [SimulationScript[i] EXCEPT !.mode = startingMode]]

-----------------------------------------------------------------------------
(* Settings *)

Lane == 0..3

(* Single moves one bit a clock over two wires. *)
LanesNeeded(mode) == IF mode = "Single" THEN 2 ELSE BitsPerClock(mode)

(* Lanes are assigned from I/O[0] up: counting stops at the first gap.      *)
LanesAssigned(io) == Cardinality({lane \in Lane : 0..lane \subseteq io})

Settings == [channels : BOOLEAN, io : SUBSET Lane, mode : IoMode]

(* Chip select and clock unassigned, as a new analyzer has them.            *)
DefaultSettings == [channels |-> FALSE, io |-> {}, mode |-> "Single"]

Acceptable(new) == new.channels /\ 0..LanesNeeded(new.mode) - 1 \subseteq new.io

(* The archive holds the mode as its bits per clock. *)
Archive(saved) == [channels |-> saved.channels, io |-> saved.io, bits |-> BitsPerClock(saved.mode)]

NumberToMode(number) == CASE number >= 4               -> "Quad"
                          [] number >= 2 /\ number < 4 -> "Dual"
                          [] OTHER                     -> "Single"

(* The dialog is filled in: what it refuses changes nothing. The host does  *)
(* not touch the settings of a run that is drawing.                         *)
SetSettingsFromInterfaces(new) ==
    /\ ~generator.ready
    /\ Acceptable(new)
    /\ settings' = new
    /\ UNCHANGED <<generator, target, drawn, given, read, session>>

(* An archive is taken as it is: that of a new analyzer has no channels.    *)
LoadSettings(archive) ==
    /\ ~generator.ready
    /\ settings' = [channels |-> archive.channels, io |-> archive.io,
                    mode |-> NumberToMode(archive.bits)]
    /\ UNCHANGED <<generator, target, drawn, given, read, session>>

-----------------------------------------------------------------------------
(* The generator *)

SimulationClock == 20 * 1000 * 1000

(* A plausible bug: no floor. *)
HalfPeriodUnfloored(rate) == (rate + SimulationClock) \div (2 * SimulationClock)

(* Samples per half clock period, to the nearest and two at least. *)
HalfPeriodFor(rate) ==
    LET rounded == (rate + SimulationClock) \div (2 * SimulationClock)
    IN  IF rounded < 2 THEN 2 ELSE rounded

TurnAroundClocks == 2
LeadInClocks == 2
IdleClocks == 4

(* Assertion to first edge and last edge to deassertion are two half        *)
(* periods each; every clock is two; the clock runs on between transactions.*)
SamplesOf(transaction, halfPeriod) ==
    LET bytes  == Len(transaction.command) + Len(transaction.response)
        clocks == ClocksPerByte(transaction.mode) * bytes
                  + (IF transaction.turnaround THEN TurnAroundClocks ELSE 0)
    IN  halfPeriod * (2 + 2 * clocks + 2 + 2 * IdleClocks)

NoGenerator == [ready |-> FALSE, script |-> << >>, rate |-> 0, halfPeriod |-> 0,
                cursor |-> 0, sample |-> 0]

(* Without channels to draw on, what Initialize has set is set again by the *)
(* next request.                                                            *)
Initialized(rate) ==
    LET lanes  == LanesAssigned(settings.io)
        script == SimulationScriptFrom(settings.mode, lanes)
        needed == {LanesNeeded(settings.mode)} \cup {LanesNeeded(t.mode) : t \in Range(script)}
    IN  IF settings.channels /\ \A count \in needed : count <= lanes
        THEN [ready |-> TRUE, script |-> script, rate |-> rate,
              halfPeriod |-> HalfPeriodFor(rate), cursor |-> 0,
              sample |-> LeadInClocks * 2 * HalfPeriodFor(rate)]
        ELSE NoGenerator

(* Device samples to samples of the waveform, which the SDK's helper does   *)
(* with two integer divisions.                                              *)
TargetSample(newest, rate, deviceRate) ==
    IF deviceRate > rate THEN newest \div (deviceRate \div rate) ELSE newest

(* GenerateSimulationData is called. *)
Request(newest, rate, deviceRate) ==
    LET initialized == IF generator.ready THEN generator ELSE Initialized(rate)
    IN  /\ target = None
        /\ generator' = initialized
        /\ target' = IF initialized.ready
                     THEN TargetSample(newest, initialized.rate, deviceRate) ELSE None
        /\ UNCHANGED <<settings, drawn, given, read, session>>

(* The waveform is remembered up to a bound that no run comes to.           *)
Drawn(transaction) == IF Len(drawn) < MaxDrawn THEN Append(drawn, transaction) ELSE drawn

(* A plausible bug: the cursor is not wrapped. *)
EmitWithoutWrap ==
    LET transaction == generator.script[generator.cursor + 1]
    IN  /\ target # None /\ generator.sample <= target
        /\ drawn' = Drawn(transaction)
        /\ generator' = [generator EXCEPT !.sample = @ + SamplesOf(transaction, generator.halfPeriod),
                                          !.cursor = @ + 1]
        /\ UNCHANGED <<settings, target, given, read, session>>

(* One turn of the loop. *)
EmitTransaction ==
    LET transaction == generator.script[generator.cursor + 1]
    IN  /\ target # None /\ generator.sample <= target
        /\ drawn' = Drawn(transaction)
        /\ generator' = [generator EXCEPT !.sample = @ + SamplesOf(transaction, generator.halfPeriod),
                                          !.cursor = (@ + 1) % Len(generator.script)]
        /\ UNCHANGED <<settings, target, given, read, session>>

(* The waveform is long enough and is handed over. *)
HandOver ==
    /\ target # None /\ generator.sample > target
    /\ target' = None
    /\ given' = Len(drawn)
    /\ UNCHANGED <<settings, generator, drawn, read, session>>

-----------------------------------------------------------------------------
(* The worker *)

(* Bytes of a phase up to its CRC: the opcode or response, then what the    *)
(* shape says follows it.                                                   *)
ElementSize(element, count) ==
    IF element = "VwirePacket" THEN 1 + 2 * ((count % 64) + 1) ELSE ElementFixedSize(element)

PhaseBytes(elements, bytes) ==
    LET upTo[n \in 0..Len(elements)] ==
            IF n = 0 THEN 1 ELSE upTo[n - 1] + ElementSize(elements[n], bytes[upTo[n - 1] + 1])
    IN  upTo[Len(elements)]

OpcodeName(transaction) == LookupOpcode(transaction.command[1]).name

Address(transaction) == 256 * transaction.command[2] + transaction.command[3]

(* The register's two fields are in the last byte of its four. *)
WrittenConfig(transaction) ==
    LET top == transaction.command[7]
    IN  [enc |-> (top \div 4) % 4, crc |-> top >= 128]

UpdateOf(transaction) ==
    CASE OpcodeName(transaction) = "RESET" -> ResetUpdate
      [] /\ OpcodeName(transaction) = "SET_CONFIGURATION"
         /\ IsGeneralConfigAddress(Address(transaction))
         /\ LookupResponse(transaction.response[1]) = "ACCEPT" ->
             WrittenUpdate(WrittenConfig(transaction))
      [] OTHER -> NoUpdate

(* The thread is started for the capture with the settings it was made with. *)
StartWorker ==
    /\ session = None /\ generator.ready
    /\ session' = InitialSession(settings.mode)
    /\ UNCHANGED <<settings, generator, target, drawn, given, read>>

(* What a transaction decodes to in another mode than its own is not        *)
(* modelled: ReaderInMode says that it does not come to that.               *)
DecodeAndApply ==
    /\ session # None /\ read < given
    /\ session.mode = drawn[read + 1].mode
    /\ session' = Apply(session, UpdateOf(drawn[read + 1]))
    /\ read' = read + 1
    /\ UNCHANGED <<settings, generator, target, drawn, given>>

-----------------------------------------------------------------------------
Init ==
    /\ settings = DefaultSettings
    /\ generator = NoGenerator
    /\ target = None
    /\ drawn = << >>
    /\ given = 0 /\ read = 0
    /\ session = None

Next ==
    \/ \E new \in Settings :
           SetSettingsFromInterfaces(new)
    \/ \E saved \in {new \in Settings : Acceptable(new)} \cup {DefaultSettings} :
           LoadSettings(Archive(saved))
    \/ \E newest \in Requests, rate \in SimulationRates, deviceRate \in DeviceRates :
           Request(newest, rate, deviceRate)
    \/ EmitTransaction \/ HandOver
    \/ StartWorker \/ DecodeAndApply

(* The call is a loop on the host's thread. *)
Spec == Init /\ [][Next]_vars /\ WF_vars(EmitTransaction \/ HandOver)

-----------------------------------------------------------------------------
(* Properties *)

TypeOK ==
    /\ settings \in Settings
    /\ generator.ready \in BOOLEAN /\ generator.sample \in Nat
    /\ generator.ready => /\ generator.halfPeriod \in Nat
                          /\ generator.cursor \in 0..Len(generator.script) - 1
    /\ target \in Nat \cup {None}
    /\ read \in 0..given /\ given \in 0..Len(drawn)
    /\ session \in SessionState \cup {None}

(* SimulationScript.h: "the mode it ends in has to be the mode it begins    *)
(* in": the script loops, and every transaction of every turn of it is in   *)
(* the mode the worker has worked out by then, from the bytes alone.        *)
ReaderInMode ==
    session # None /\ read < Len(drawn) => session.mode = drawn[read + 1].mode

(* SimulationScript.h: the literal bytes are cut where the decoder cuts     *)
(* them: each phase is as long as its opcode and shape say and ends in its  *)
(* CRC, and a reset is sixteen clocks of the mode it is drawn in.           *)
CleanReset(transaction) ==
    /\ Range(transaction.command) = {\hFF} /\ transaction.response = << >>
    /\ ~transaction.turnaround
    /\ Len(transaction.command) * ClocksPerByte(transaction.mode) = 16

CleanPhase(elements, bytes) ==
    /\ Len(bytes) = PhaseBytes(elements, bytes) + 1
    /\ Compute(Front(bytes)) = Last(bytes)

CleanExchange(transaction) ==
    /\ transaction.turnaround
    /\ LookupResponse(transaction.response[1]) = "ACCEPT"
    /\ CleanPhase(CommandElements(OpcodeName(transaction)), transaction.command)
    /\ CleanPhase(ResponseElements(OpcodeName(transaction)), transaction.response)

ScriptDecodes ==
    read < Len(drawn) =>
        LET transaction == drawn[read + 1]
        IN  /\ KnownOpcode(transaction.command[1])
            /\ IF OpcodeName(transaction) = "RESET" THEN CleanReset(transaction)
               ELSE CleanExchange(transaction)

(* EspiSimulationGenerator.cpp:70-86: settings the dialog accepts draw a    *)
(* waveform: the script chosen never needs a lane that is not wired up.     *)
AcceptedSettingsDraw ==
    settings.channels => \A rate \in SimulationRates : Initialized(rate).ready

(* EspiSimulationGenerator.cpp:215-219: a call comes to an end, at any      *)
(* sample rate.                                                             *)
RequestsReturn == target # None ~> target = None

(* What that rests on: no turn of the loop is for nothing, at any rate. *)
EveryTurnDraws == [][EmitTransaction => generator'.sample > generator.sample]_vars
==============================================================================
