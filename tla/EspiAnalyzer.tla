---------------------------- MODULE EspiAnalyzer ----------------------------
(***************************************************************************)
(* The analyzer's worker thread reading a capture that is still growing.   *)
(*                                                                         *)
(* Two processes. The BUS (external: controller, target and the capture)   *)
(* sends frames, one chip select each, and a frame may change the mode the *)
(* bus talks in from its deassertion edge on. The WORKER walks the frames  *)
(* in order, well behind the bus, and has nothing but its session state to *)
(* say which mode the frame in front of it was sent in.                    *)
(*                                                                         *)
(* A frame is abstracted to what the session can learn from it: an in-band *)
(* reset, a write to General Capabilities and Configurations (answered     *)
(* ACCEPT, or not confirmed: any other answer, none, or cut short), or     *)
(* anything else. The link decoder's work is module LinkDecoder.           *)
(*                                                                         *)
(* The capture may open inside a chip select, of which only the end is in  *)
(* it, and may lack the two upper lanes, without which Quad cannot be read *)
(* at all.                                                                 *)
(***************************************************************************)
EXTENDS Session

CONSTANTS
    Configs,      \* the register values a controller writes
    MaxBacklog,   \* frames captured and not yet decoded
    Misreads      \* what a frame read in the wrong mode may decode to

(* Session.cpp:88-91 rests on this: a frame read in a mode it was not sent  *)
(* in does not decode into a well formed, accepted write, nor into a reset  *)
(* (module LaneCodec checks the latter for every defined opcode).           *)
ASSUME ConfigsAssumption  == Configs \subseteq GeneralConfig
ASSUME BacklogAssumption  == MaxBacklog \in Nat \ {0}
ASSUME MisreadsAssumption ==
    /\ Misreads \subseteq SessionUpdate
    /\ \A u \in Misreads : u.change \in {"None", "GeneralConfigUncertain"}

VARIABLES
    bus,          \* the register in force on the wire: [mode, crc]
    asserted,     \* a chip select is asserted at the end of the capture
    opened,       \* and was asserted before the capture began
    pending,      \* frames captured and not yet decoded, oldest first
    readable,     \* the modes whose lanes are in the capture: never changes
    pc,           \* the worker's place in its loop
    sourceMode,   \* the byte source's mode
    session,      \* SessionState
    txn,          \* the frame being decoded and the update it decoded to
    basis         \* history: what session.mode rests on

busVars    == <<bus, asserted, opened, pending, readable>>
workerVars == <<pc, sourceMode, session, txn, basis>>
vars       == <<busVars, workerVars>>

BusState == [mode : IoMode, crc : BOOLEAN]

(* SetSettingsFromInterfaces wants two lanes even for Single; Dual needs no *)
(* more.                                                                    *)
Wirings == {{"Single", "Dual"}, IoMode}

(* whole: the capture holds the frame's assertion edge too. *)
Frame == [kind : {"Reset", "Write", "Other"}, config : GeneralConfig, accepted : BOOLEAN,
          sent : BusState, after : BusState, whole : BOOLEAN]

Basis == {"Setting", "WrongSetting", "Written", "Reserved"}

(* WrongSetting: the mode set is not that of the first frame to be decoded, *)
(* because the user chose it wrong or because the frame that the capture    *)
(* opens in changed it. guess and basis, of a transaction: what the session *)
(* was worth when the frame was read.                                       *)
Transaction == [frame : Frame, read : IoMode, update : SessionUpdate,
                guess : BOOLEAN, basis : Basis]

(* The transaction is local to one turn of the loop; between turns there is *)
(* this placeholder, which no step reads.                                   *)
NoTransaction ==
    LET reset == [mode |-> "Single", crc |-> FALSE]
    IN  [frame |-> [kind |-> "Other", config |-> GeneralConfigResetState, accepted |-> FALSE,
                    sent |-> reset, after |-> reset, whole |-> TRUE],
         read |-> "Single", update |-> NoUpdate, guess |-> FALSE, basis |-> "Setting"]

(* The bus state the frame in front of the worker was, or will be, sent in. *)
AtHead == IF pending = << >> THEN bus ELSE Head(pending).sent

-----------------------------------------------------------------------------
(* The bus *)

(* Encoding 11b names no mode: the parties may do anything. *)
TakesEffect(config) ==
    [mode : IF ModeReserved(config) THEN IoMode ELSE {DecodedMode(config)},
     crc  : {config.crc}]

(* What the register may hold after a frame; an unconfirmed write may have  *)
(* taken effect or not.                                                     *)
After(kind, config, accepted) ==
    CASE kind = "Reset"                -> TakesEffect(GeneralConfigResetState)
      [] kind = "Write" /\ accepted    -> TakesEffect(config)
      [] kind = "Write" /\ ~accepted   -> TakesEffect(config) \cup {bus}
      [] OTHER                         -> {bus}

Send(kind, config, accepted) ==
    \E after \in After(kind, config, accepted) :
        /\ pending' = Append(pending, [kind |-> kind, config |-> config, accepted |-> accepted,
                                       sent |-> bus, after |-> after, whole |-> ~opened])
        /\ bus' = after

BusAssert ==
    /\ ~asserted
    /\ Len(pending) < MaxBacklog
    /\ asserted' = TRUE
    /\ UNCHANGED <<bus, opened, pending, readable, workerVars>>

(* Registers and mode change on the deassertion edge. *)
BusDeassert ==
    /\ asserted
    /\ \/ Send("Reset", GeneralConfigResetState, TRUE)
       \/ Send("Other", GeneralConfigResetState, FALSE)
       \/ \E config \in Configs, accepted \in BOOLEAN : Send("Write", config, accepted)
    /\ asserted' = FALSE
    /\ opened' = FALSE
    /\ UNCHANGED <<readable, workerVars>>

-----------------------------------------------------------------------------
(* The worker: one action per call of WorkerThread's loop *)

(* A plausible bug: the mode read from the settings dialog, not carried.    *)
SetModeOnce ==
    /\ pc = "SetMode"
    /\ pc' = "Sync"
    /\ UNCHANGED <<busVars, sourceMode, session, txn, basis>>

(* Before the chip select: the mode the coming transaction is sent in.      *)
SetMode ==
    /\ pc = "SetMode"
    /\ sourceMode' = session.mode
    /\ pc' = "Sync"
    /\ UNCHANGED <<busVars, session, txn, basis>>

(* The chip select is low at the first sample: step over its deassertion.   *)
(* What it carried is not read, and what it changed is not noticed.         *)
SkipOpening ==
    /\ pc = "Sync"
    /\ pending # << >>
    /\ ~Head(pending).whole
    /\ basis' = IF Head(pending).after.mode = session.mode THEN "Setting" ELSE "WrongSetting"
    /\ pending' = Tail(pending)
    /\ UNCHANGED <<bus, asserted, opened, readable, pc, sourceMode, session, txn>>

(* A plausible bug: armed on whatever chip select is there. *)
SyncAnywhere ==
    /\ pc = "Sync"
    /\ pending # << >> \/ asserted
    /\ pc' = "Decode"
    /\ UNCHANGED <<busVars, sourceMode, session, txn, basis>>

(* Blocks until the capture holds an assertion edge. *)
Sync ==
    /\ pc = "Sync"
    /\ IF pending # << >> THEN Head(pending).whole ELSE asserted /\ ~opened
    /\ pc' = "Decode"
    /\ UNCHANGED <<busVars, sourceMode, session, txn, basis>>

(* What the link decoder reports of a frame read in the mode it was sent in *)
(* (RecordSessionUpdate). All lanes are high in a reset, whatever the mode. *)
ExactUpdate(frame) ==
    CASE frame.kind = "Reset"                     -> ResetUpdate
      [] frame.kind = "Write" /\ frame.accepted   -> WrittenUpdate(frame.config)
      [] frame.kind = "Write" /\ ~frame.accepted  -> UncertainUpdate
      [] OTHER                                    -> NoUpdate

(* A plausible bug: a lane that is not there read as zeros.                 *)
UpdatesWithLanesAsZeros(frame, mode) ==
    IF mode = frame.sent.mode \/ frame.kind = "Reset" THEN {ExactUpdate(frame)} ELSE Misreads

(* A mode whose lanes are not there is refused at the first clock, so that  *)
(* nothing is read, not even a reset; the end of a frame read as one could  *)
(* look like anything.                                                      *)
DecodedUpdates(frame, mode) ==
    CASE mode \notin readable -> {NoUpdate}
      [] mode \in readable /\ ~frame.whole -> SessionUpdate
      [] mode \in readable /\ frame.whole ->
             IF mode = frame.sent.mode \/ frame.kind = "Reset" THEN {ExactUpdate(frame)}
                                                               ELSE Misreads

(* Blocks until the frame's deassertion edge is captured. *)
Decode ==
    /\ pc = "Decode"
    /\ pending # << >>
    /\ \E u \in DecodedUpdates(Head(pending), sourceMode) :
           txn' = [frame |-> Head(pending), read |-> sourceMode, update |-> u,
                   guess |-> session.uncertain, basis |-> basis]
    /\ pending' = Tail(pending)
    /\ pc' = "Apply"
    /\ UNCHANGED <<bus, asserted, opened, readable, sourceMode, session, basis>>

NewBasis(update) ==
    IF update.change \in {"GeneralConfigWritten", "InbandReset"}
    THEN IF ModeReserved(update.config) THEN "Reserved" ELSE "Written"
    ELSE basis

ApplySession ==
    /\ pc = "Apply"
    /\ session' = Apply(session, txn.update)
    /\ basis' = NewBasis(txn.update)
    /\ pc' = "Emit"
    /\ UNCHANGED <<busVars, sourceMode, txn>>

(* The row's session column is built from the transaction's own update      *)
(* (DescribeSessionUpdate), and committed.                                  *)
RowSession(t) == t.update

Emit ==
    /\ pc = "Emit"
    /\ txn' = NoTransaction
    /\ pc' = "SetMode"
    /\ UNCHANGED <<busVars, sourceMode, session, basis>>

-----------------------------------------------------------------------------
(* The setting is where the session starts; it may be wrong, but the dialog *)
(* has seen to it that its lanes are there.                                 *)
Init ==
    /\ bus \in BusState
    /\ asserted \in BOOLEAN
    /\ opened = asserted
    /\ pending = << >>
    /\ readable \in Wirings
    /\ pc = "SetMode"
    /\ \E setting \in readable :
           /\ session = InitialSession(setting)
           /\ sourceMode = setting
           /\ basis = IF setting = bus.mode THEN "Setting" ELSE "WrongSetting"
    /\ txn = NoTransaction

Worker == SetMode \/ SkipOpening \/ Sync \/ Decode \/ ApplySession \/ Emit

Next == BusAssert \/ BusDeassert \/ Worker

(* The worker runs as long as there is something to read; a chip select     *)
(* once asserted is released. Nothing obliges the controller to send.       *)
Spec == Init /\ [][Next]_vars /\ WF_vars(Worker) /\ WF_vars(BusDeassert)

-----------------------------------------------------------------------------
(* Properties *)

TypeOK ==
    /\ bus \in BusState
    /\ asserted \in BOOLEAN /\ opened \in BOOLEAN
    /\ readable \in Wirings
    /\ pending \in Seq(Frame) /\ Len(pending) <= MaxBacklog
    /\ pc \in {"SetMode", "Sync", "Decode", "Apply", "Emit"}
    /\ sourceMode \in IoMode
    /\ session \in SessionState
    /\ txn \in Transaction
    /\ basis \in Basis

(* The bus state the session answers for: that of the frame being decoded   *)
(* until its update is applied, then that of the frame at the head.         *)
Current == IF pc = "Apply" THEN txn.frame.sent ELSE AtHead

(* Session.h:36-44, "the mode is carried, not configured": however far the  *)
(* bus has run ahead, the session's mode is the one the frame in front of   *)
(* the worker was sent in, unless the session says it is uncertain, the     *)
(* register holds the reserved encoding, the setting was wrong and nothing  *)
(* has replaced it, or the mode is one the capture cannot be read in.       *)
ModeAgreement ==
    ~session.uncertain /\ basis \in {"Setting", "Written"} /\ session.mode \in readable
        => session.mode = Current.mode

(* The same of CRC checking, which a reserved mode selection does not void  *)
(* (Session.cpp:63-65) and which no setting announces.                      *)
CrcAgreement ==
    /\ ~session.uncertain
    /\ \/ basis = "Written" /\ session.mode \in readable
       \/ pc = "Emit" /\ txn.update.change = "GeneralConfigWritten"
    => session.crc = Current.crc

(* EspiAnalyzer.cpp:235-247: every frame is read in the mode it was sent in *)
(* (the one that changes the mode is read in the old one), or the reading   *)
(* rested on a setting the session knew, or the user should have known, to  *)
(* be a guess, or nothing of the frame could be read.                       *)
WrongReadIsSuspect ==
    pc \in {"Apply", "Emit"} /\ txn.read # txn.frame.sent.mode
        => \/ txn.guess
           \/ txn.basis \in {"Reserved", "WrongSetting"}
           \/ txn.read \notin readable

(* Session.h:60-62, "The specification's own remedy is the In-band RESET":  *)
(* once a reset is captured whole the session agrees with the bus, sure     *)
(* of it, from any state of uncertainty or wrong setting, except the one    *)
(* NoWayBack is about.                                                      *)
ResetHeals ==
    (\E i \in DOMAIN pending : pending[i].whole /\ pending[i].kind = "Reset")
        ~> \/ /\ session = InitialSession("Single")
              /\ Current = [mode |-> "Single", crc |-> FALSE]
              /\ basis = "Written"
           \/ session.mode \notin readable

(* SamplingByteSource.cpp:95-101, "Refusing is the only honest answer": but *)
(* once the session has followed the bus into a mode whose lanes are not in *)
(* the capture it stays in it, as sure of itself as it was; nothing that    *)
(* comes later, a reset included, is seen.                                  *)
NoWayBack == [][session.mode \notin readable => session' = session]_vars

(* EspiAnalyzer.cpp:230-282: whatever the worker makes of them, it reads    *)
(* the chip selects that are captured whole, each once and in turn, and is  *)
(* done with one before it takes the next; of the one the capture opens in  *)
(* it makes nothing.                                                        *)
ChipSelect == INSTANCE ChipSelects WITH
    waiting <- IF pending = << >> \/ Head(pending).whole THEN Len(pending) ELSE Len(pending) - 1,
    busy    <- pc \in {"Apply", "Emit"}

ReadsEachOnce == ChipSelect!Spec

(* Session.h:54-60, "that is what this does -- and it says so": a row that  *)
(* rests on settings the bus never confirmed says that it does.             *)
GuessIsAdmitted ==
    pc = "Emit" /\ txn.guess => RowSession(txn).change # "None"
=============================================================================
