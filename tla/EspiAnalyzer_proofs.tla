------------------------ MODULE EspiAnalyzer_proofs -------------------------
(***************************************************************************)
(* Proofs that the analyzer's session follows the bus, for any backlog,    *)
(* any set of register values written, and any misreading that respects    *)
(* MisreadsAssumption.                                                     *)
(***************************************************************************)
EXTENDS EspiAnalyzer, SequenceTheorems, TLAPS

-----------------------------------------------------------------------------
(* The inductive invariant. *)

(* A frame's effect on the register, as the bus can have had it. *)
EffectOK(f) ==
    /\ f.kind = "Reset" => f.after \in TakesEffect(GeneralConfigResetState)
    /\ f.kind = "Write" /\ f.accepted => f.after \in TakesEffect(f.config)
    /\ f.kind = "Other" => f.after = f.sent

(* Each frame was sent in the state the one before it left. *)
Chain ==
    /\ \A i \in 1..Len(pending) : EffectOK(pending[i])
    /\ \A i \in 1..Len(pending) - 1 : pending[i + 1].sent = pending[i].after
    /\ pending # << >> => bus = pending[Len(pending)].after

(* A chip select is only asserted when there is room for its frame. *)
Room == asserted => Len(pending) < MaxBacklog

(* The chip select the capture opens in is the first thing in it.          *)
Opening == opened => asserted /\ pending = << >>

(* What is decoded next is a frame captured from its assertion on.          *)
Synced == pc = "Decode" => ~opened /\ (pending # << >> => Head(pending).whole)

(* The byte source is in the session's mode while a frame is read. *)
SourceInMode == pc \in {"Sync", "Decode"} => sourceMode = session.mode

(* The frame being decoded: read in the session's mode, and the next one in *)
(* line was sent in the state it left.                                      *)
InHand ==
    pc = "Apply" => /\ EffectOK(txn.frame)
                    /\ txn.frame.whole
                    /\ txn.frame.after = AtHead
                    /\ txn.read = session.mode
                    /\ txn.update \in DecodedUpdates(txn.frame, txn.read)
                    /\ txn.guess = session.uncertain
                    /\ txn.basis = basis

IInv == /\ TypeOK
        /\ Room
        /\ Opening
        /\ Synced
        /\ Chain
        /\ SourceInMode
        /\ InHand
        /\ ModeAgreement
        /\ CrcAgreement
        /\ WrongReadIsSuspect

-----------------------------------------------------------------------------
(* Types of the operators the model is built from. *)

(* Every value the register may take is one of the bus's states. *)
LEMMA TakesEffectType ==
    ASSUME NEW config \in GeneralConfig, NEW b \in TakesEffect(config)
    PROVE  b \in BusState /\ b.crc = config.crc
           /\ (~ModeReserved(config) => b.mode = DecodedMode(config))
BY DEF TakesEffect, BusState, GeneralConfig, DecodedMode, IoMode, ModeReserved

(* What a transaction decodes to is a session update. *)
LEMMA DecodedUpdatesType ==
    ASSUME NEW frame \in Frame, NEW mode \in IoMode, NEW u \in DecodedUpdates(frame, mode)
    PROVE  u \in SessionUpdate
<1>1. ExactUpdate(frame) \in {ResetUpdate, WrittenUpdate(frame.config), UncertainUpdate, NoUpdate}
  <2>1. frame.kind \in {"Reset", "Write", "Other"} /\ frame.accepted \in BOOLEAN
    BY DEF Frame
  <2>2. CASE frame.kind = "Reset"
    BY <2>2 DEF ExactUpdate
  <2>3. CASE frame.kind = "Write" /\ frame.accepted
    BY <2>3 DEF ExactUpdate
  <2>4. CASE frame.kind = "Write" /\ ~frame.accepted
    BY <2>4 DEF ExactUpdate
  <2>5. CASE frame.kind = "Other"
    BY <2>5 DEF ExactUpdate
  <2>6. QED
    BY <2>1, <2>2, <2>3, <2>4, <2>5
<1>2. {ResetUpdate, WrittenUpdate(frame.config), UncertainUpdate, NoUpdate} \subseteq SessionUpdate
  BY DEF Frame, SessionUpdate, Change, GeneralConfig, ResetUpdate, WrittenUpdate,
         UncertainUpdate, NoUpdate, GeneralConfigResetState
<1>3. frame.whole \in BOOLEAN
  BY DEF Frame
<1>4. QED
  BY <1>1, <1>2, <1>3, MisreadsAssumption DEF DecodedUpdates

(* Applying an update leaves a session. *)
LEMMA ApplyType ==
    ASSUME NEW s \in SessionState, NEW u \in SessionUpdate
    PROVE  Apply(s, u) \in SessionState
BY DEF Apply, Adopt, SessionState, SessionUpdate, GeneralConfig, DecodedMode, IoMode

(* Reading the register off an update that settles it (Session.cpp:61-102). *)
LEMMA ApplySettles ==
    ASSUME NEW s \in SessionState, NEW u \in SessionUpdate,
           u.change \in {"GeneralConfigWritten", "InbandReset"}
    PROVE  /\ ~Apply(s, u).uncertain
           /\ Apply(s, u).crc = u.config.crc
           /\ ~ModeReserved(u.config) => Apply(s, u).mode = DecodedMode(u.config)
BY DEF Apply, Adopt, SessionState, SessionUpdate

(* Any other update leaves the mode and CRC checking alone. *)
LEMMA ApplyKeeps ==
    ASSUME NEW s \in SessionState, NEW u \in SessionUpdate,
           u.change \notin {"GeneralConfigWritten", "InbandReset"}
    PROVE  /\ Apply(s, u).mode = s.mode
           /\ Apply(s, u).crc = s.crc
           /\ Apply(s, u).uncertain = (s.uncertain \/ u.change = "GeneralConfigUncertain")
BY DEF Apply, SessionState, SessionUpdate, Change

-----------------------------------------------------------------------------
(* The invariant holds before the first transaction, whatever the setting. *)
LEMMA InitInv == Init => IInv
<1> SUFFICES ASSUME Init PROVE IInv
  OBVIOUS
<1>1. TypeOK
  <2>1. NoTransaction \in Transaction
    BY DEF NoTransaction, Transaction, Frame, BusState, IoMode, GeneralConfig, Basis,
           GeneralConfigResetState, NoUpdate, SessionUpdate, Change
  <2>2. PICK setting \in readable :
            /\ session = InitialSession(setting)
            /\ sourceMode = setting
            /\ basis = IF setting = bus.mode THEN "Setting" ELSE "WrongSetting"
    BY DEF Init
  <2>3. session \in SessionState /\ basis \in Basis /\ sourceMode \in IoMode
    BY <2>2 DEF Init, Wirings, IoMode, SessionState, InitialSession, Basis
  <2>4. pending \in Seq(Frame) /\ Len(pending) <= MaxBacklog
    BY BacklogAssumption DEF Init
  <2>5. QED
    BY <2>1, <2>2, <2>3, <2>4 DEF Init, TypeOK
<1>2. Room /\ Opening /\ Synced /\ Chain /\ SourceInMode /\ InHand
  BY BacklogAssumption DEF Init, Room, Opening, Synced, Chain, SourceInMode, InHand
<1>3. ModeAgreement /\ CrcAgreement /\ WrongReadIsSuspect
  BY DEF Init, ModeAgreement, CrcAgreement, WrongReadIsSuspect, Current, AtHead, InitialSession
<1>4. QED
  BY <1>1, <1>2, <1>3 DEF IInv
-----------------------------------------------------------------------------
(* One lemma per action. *)

(* What a deassertion adds to the capture. *)
LEMMA DeassertFrame ==
    ASSUME TypeOK, BusDeassert
    PROVE  \E f \in Frame : /\ EffectOK(f)
                            /\ f.sent = bus
                            /\ f.whole = ~opened
                            /\ pending' = Append(pending, f)
                            /\ bus' = f.after
<1> DEFINE f(kind, config, accepted, after) ==
        [kind |-> kind, config |-> config, accepted |-> accepted, sent |-> bus, after |-> after,
         whole |-> ~opened]
<1>0. GeneralConfigResetState \in GeneralConfig /\ bus \in BusState /\ opened \in BOOLEAN
  BY DEF GeneralConfigResetState, GeneralConfig, TypeOK
<1>1. CASE Send("Reset", GeneralConfigResetState, TRUE)
  <2>1. PICK after \in TakesEffect(GeneralConfigResetState) :
            /\ pending' = Append(pending, f("Reset", GeneralConfigResetState, TRUE, after))
            /\ bus' = after
    BY <1>1 DEF Send, After
  <2>2. after \in BusState
    BY <1>0, TakesEffectType
  <2>3. /\ f("Reset", GeneralConfigResetState, TRUE, after) \in Frame
        /\ EffectOK(f("Reset", GeneralConfigResetState, TRUE, after))
    BY <1>0, <2>1, <2>2 DEF EffectOK, Frame
  <2>4. QED
    BY <2>1, <2>3
<1>2. CASE Send("Other", GeneralConfigResetState, FALSE)
  <2>1. /\ pending' = Append(pending, f("Other", GeneralConfigResetState, FALSE, bus))
        /\ bus' = bus
    BY <1>2 DEF Send, After
  <2>2. /\ f("Other", GeneralConfigResetState, FALSE, bus) \in Frame
        /\ EffectOK(f("Other", GeneralConfigResetState, FALSE, bus))
    BY <1>0 DEF EffectOK, Frame
  <2>3. QED
    BY <2>1, <2>2
<1>3. CASE \E config \in Configs, accepted \in BOOLEAN : Send("Write", config, accepted)
  <2>1. PICK config \in Configs, accepted \in BOOLEAN : Send("Write", config, accepted)
    BY <1>3
  <2>2. config \in GeneralConfig
    BY ConfigsAssumption
  <2>3. PICK after \in TakesEffect(config) \cup {bus} :
            /\ accepted => after \in TakesEffect(config)
            /\ pending' = Append(pending, f("Write", config, accepted, after))
            /\ bus' = after
    <3>1. CASE accepted
      BY <2>1, <3>1 DEF Send, After
    <3>2. CASE ~accepted
      BY <2>1, <3>2 DEF Send, After
    <3>3. QED
      BY <3>1, <3>2
  <2>4. after \in BusState
    BY <1>0, <2>2, TakesEffectType
  <2>5. /\ f("Write", config, accepted, after) \in Frame
        /\ EffectOK(f("Write", config, accepted, after))
    BY <1>0, <2>2, <2>3, <2>4 DEF EffectOK, Frame
  <2>6. QED
    BY <2>3, <2>5
<1>4. QED
  BY <1>1, <1>2, <1>3 DEF BusDeassert

(* A frame the bus completes is described by its effect, and the worker    *)
(* has not seen it: what it believes of older frames stands.               *)
LEMMA BusDeassertInv == ASSUME IInv, BusDeassert PROVE IInv'
<1>1. PICK f \in Frame : /\ EffectOK(f)
                         /\ f.sent = bus
                         /\ f.whole = ~opened
                         /\ pending' = Append(pending, f)
                         /\ bus' = f.after
  BY DeassertFrame DEF IInv
<1>2. /\ pending \in Seq(Frame)
      /\ pending' \in Seq(Frame)
      /\ Len(pending') = Len(pending) + 1
      /\ pending'[Len(pending) + 1] = f
      /\ \A i \in 1..Len(pending) : pending'[i] = pending[i]
  BY <1>1, AppendProperties DEF IInv, TypeOK
<1>3. /\ asserted /\ asserted' = FALSE /\ opened' = FALSE
      /\ UNCHANGED <<readable, pc, sourceMode, session, txn, basis>>
  BY DEF BusDeassert, workerVars
<1>4. TypeOK'
  <2>1. Len(pending') <= MaxBacklog
    BY <1>2, <1>3, BacklogAssumption DEF IInv, Room
  <2>2. bus' \in BusState
    BY <1>1 DEF Frame
  <2>3. QED
    BY <1>2, <1>3, <2>1, <2>2 DEF IInv, TypeOK
<1>5. Room' /\ Opening'
  BY <1>3 DEF Room, Opening
<1>6. Chain'
  <2>1. \A i \in 1..Len(pending') : EffectOK(pending'[i])
    BY <1>1, <1>2 DEF IInv, Chain
  <2>2. \A i \in 1..Len(pending') - 1 : pending'[i + 1].sent = pending'[i].after
    <3> SUFFICES ASSUME NEW i \in 1..Len(pending)
                 PROVE  pending'[i + 1].sent = pending'[i].after
      BY <1>2
    <3>1. CASE i < Len(pending)
      BY <1>2, <3>1 DEF IInv, Chain
    <3>2. CASE i = Len(pending)
      BY <1>1, <1>2, <3>2 DEF IInv, Chain
    <3>3. QED
      BY <1>2, <3>1, <3>2
  <2>3. bus' = pending'[Len(pending')].after
    BY <1>1, <1>2
  <2>4. QED
    BY <2>1, <2>2, <2>3 DEF Chain, EffectOK
<1>7. AtHead' = AtHead
  <2>1. Len(pending') # 0 /\ pending' # << >>
    BY <1>2
  <2>2. AtHead' = pending'[1].sent
    BY <2>1, <1>2 DEF AtHead
  <2>3. CASE pending = << >>
    BY <1>1, <1>2, <2>2, <2>3 DEF AtHead
  <2>4. CASE pending # << >>
    BY <1>2, <2>2, <2>4 DEF AtHead
  <2>5. QED
    BY <2>3, <2>4
<1>8. Current' = Current
  BY <1>3, <1>7 DEF Current
<1>9. SourceInMode' /\ ModeAgreement' /\ CrcAgreement' /\ WrongReadIsSuspect'
  BY <1>3, <1>8 DEF IInv, SourceInMode, ModeAgreement, CrcAgreement, WrongReadIsSuspect
<1>10. InHand'
  BY <1>3, <1>7 DEF IInv, InHand, EffectOK, DecodedUpdates
<1>11. Synced'
  <2>1. Head(pending') = pending'[1] /\ (pending # << >> => Head(pending) = pending[1])
    BY <1>2
  <2>2. CASE pending = << >>
    <3>1. Head(pending') = f
      BY <1>2, <2>1, <2>2
    <3>2. ~opened => f.whole
      BY <1>1
    <3>3. QED
      BY <1>3, <3>1, <3>2 DEF IInv, Synced
  <2>3. CASE pending # << >>
    <3>1. 1 \in 1..Len(pending)
      BY <1>2, <2>3
    <3>2. QED
      BY <1>2, <1>3, <2>1, <2>3, <3>1 DEF IInv, Synced
  <2>4. QED
    BY <2>2, <2>3
<1>12. QED
  BY <1>4, <1>5, <1>6, <1>9, <1>10, <1>11 DEF IInv

(* A chip select asserted changes nothing the worker knows of.             *)
LEMMA BusAssertInv == ASSUME IInv, BusAssert PROVE IInv'
<1>1. /\ asserted = FALSE /\ asserted' = TRUE
      /\ Len(pending) < MaxBacklog
      /\ UNCHANGED <<bus, opened, pending, readable, pc, sourceMode, session, txn, basis>>
  BY DEF IInv, TypeOK, BusAssert, workerVars
<1>2. Current' = Current /\ AtHead' = AtHead
  BY <1>1 DEF Current, AtHead
<1>3. TypeOK' /\ Room' /\ Opening' /\ Synced' /\ Chain' /\ SourceInMode' /\ ModeAgreement'
      /\ CrcAgreement' /\ WrongReadIsSuspect'
  BY <1>1, <1>2 DEF IInv, TypeOK, Room, Opening, Synced, Chain, SourceInMode, ModeAgreement,
                    CrcAgreement, WrongReadIsSuspect, EffectOK
<1>4. InHand'
  BY <1>1, <1>2 DEF IInv, InHand, EffectOK, DecodedUpdates
<1>5. QED
  BY <1>3, <1>4 DEF IInv

(* EspiAnalyzer.cpp:235-239: the byte source takes over the session's mode. *)
LEMMA SetModeInv == ASSUME IInv, SetMode PROVE IInv'
<1>1. /\ pc = "SetMode" /\ pc' = "Sync"
      /\ sourceMode' = session.mode
      /\ UNCHANGED <<bus, asserted, opened, pending, readable, session, txn, basis>>
  BY DEF SetMode, busVars
<1>2. Current' = Current
  BY <1>1 DEF Current, AtHead
<1>3. TypeOK'
  BY <1>1 DEF IInv, TypeOK, SessionState
<1>4. QED
  BY <1>1, <1>2, <1>3 DEF IInv, Room, Opening, Synced, Chain, SourceInMode, InHand,
                          ModeAgreement, CrcAgreement, WrongReadIsSuspect, EffectOK

(* EspiAnalyzer.cpp:241: waiting for a chip select changes no state.       *)
LEMMA SyncInv == ASSUME IInv, Sync PROVE IInv'
<1>1. /\ pc = "Sync" /\ pc' = "Decode"
      /\ UNCHANGED <<bus, asserted, opened, pending, readable, sourceMode, session, txn, basis>>
  BY DEF Sync, busVars
<1>2. Current' = Current
  BY <1>1 DEF Current, AtHead
<1>3. Synced'
  BY <1>1 DEF IInv, Opening, Sync, Synced
<1>4. QED
  BY <1>1, <1>2, <1>3 DEF IInv, TypeOK, Room, Opening, Chain, SourceInMode, InHand,
                          ModeAgreement, CrcAgreement, WrongReadIsSuspect, EffectOK

(* EspiAnalyzer.cpp:253-272: drawing the transaction changes no session.   *)
LEMMA EmitInv == ASSUME IInv, Emit PROVE IInv'
<1>1. /\ pc = "Emit" /\ pc' = "SetMode"
      /\ txn' = NoTransaction
      /\ UNCHANGED <<bus, asserted, opened, pending, readable, sourceMode, session, basis>>
  BY DEF Emit, busVars
<1>2. Current' = Current
  BY <1>1 DEF Current, AtHead
<1>3. NoTransaction \in Transaction
  BY DEF NoTransaction, Transaction, Frame, BusState, IoMode, GeneralConfig, Basis,
         GeneralConfigResetState, NoUpdate, SessionUpdate, Change
<1>4. QED
  BY <1>1, <1>2, <1>3 DEF IInv, TypeOK, Room, Opening, Synced, Chain, SourceInMode, InHand,
                          ModeAgreement, CrcAgreement, WrongReadIsSuspect, EffectOK

(* The oldest frame leaves the queue: the rest of the chain stands, and the *)
(* frame now at the head was sent in the state it left.                     *)
LEMMA TakeHead ==
    ASSUME IInv, pending # << >>, pending' = Tail(pending), bus' = bus
    PROVE  /\ Head(pending) \in Frame /\ EffectOK(Head(pending))
           /\ AtHead = Head(pending).sent
           /\ AtHead' = Head(pending).after
           /\ pending' \in Seq(Frame) /\ Len(pending') = Len(pending) - 1
           /\ Chain'
<1>1. /\ pending \in Seq(Frame)
      /\ Len(pending) \in Nat \ {0}
      /\ Head(pending) = pending[1]
      /\ Head(pending) \in Frame
      /\ pending' \in Seq(Frame)
      /\ Len(pending') = Len(pending) - 1
      /\ \A i \in 1..Len(pending') : pending'[i] = pending[i + 1]
  BY HeadTailProperties DEF IInv, TypeOK
<1>2. EffectOK(Head(pending)) /\ AtHead = Head(pending).sent
  BY <1>1 DEF IInv, Chain, AtHead
<1>3. Chain'
  <2>1. \A i \in 1..Len(pending') : EffectOK(pending'[i])
    BY <1>1 DEF IInv, Chain
  <2>2. \A i \in 1..Len(pending') - 1 : pending'[i + 1].sent = pending'[i].after
    BY <1>1 DEF IInv, Chain
  <2>3. pending' # << >> => bus' = pending'[Len(pending')].after
    BY <1>1 DEF IInv, Chain
  <2>4. QED
    BY <2>1, <2>2, <2>3 DEF Chain, EffectOK
<1>4. AtHead' = Head(pending).after
  <2>1. CASE pending' = << >>
    <3>1. Len(pending) = 1
      BY <1>1, <2>1
    <3>2. QED
      BY <1>1, <2>1, <3>1 DEF IInv, Chain, AtHead
  <2>2. CASE pending' # << >>
    <3>1. Len(pending') \in Nat \ {0} /\ Head(pending') = pending'[1]
      BY <1>1, <2>2
    <3>2. pending'[1].sent = pending[1].after
      BY <1>1, <3>1 DEF IInv, Chain
    <3>3. QED
      BY <1>1, <2>2, <3>1, <3>2 DEF AtHead
  <2>3. QED
    BY <2>1, <2>2
<1>5. QED
  BY <1>1, <1>2, <1>3, <1>4

(* SamplingByteSource.cpp:22-23: after the frame the capture opens in, the  *)
(* setting is right of the next one or is on record as wrong.               *)
LEMMA SkipOpeningInv == ASSUME IInv, SkipOpening PROVE IInv'
<1>1. /\ pc = "Sync" /\ pc' = "Sync"
      /\ pending # << >> /\ pending' = Tail(pending)
      /\ basis' = IF Head(pending).after.mode = session.mode THEN "Setting" ELSE "WrongSetting"
      /\ UNCHANGED <<bus, asserted, opened, readable, sourceMode, session, txn>>
  BY DEF SkipOpening
<1>2. /\ pending' \in Seq(Frame) /\ Len(pending') = Len(pending) - 1
      /\ Len(pending) \in Nat
      /\ Chain'
      /\ AtHead' = Head(pending).after
  BY <1>1, TakeHead DEF IInv, TypeOK
<1>3. TypeOK' /\ Room' /\ Opening'
  BY <1>1, <1>2, BacklogAssumption DEF IInv, TypeOK, Room, Opening, Basis
<1>4. ModeAgreement' /\ CrcAgreement' /\ WrongReadIsSuspect'
  BY <1>1, <1>2 DEF Current, ModeAgreement, CrcAgreement, WrongReadIsSuspect
<1>5. QED
  BY <1>1, <1>2, <1>3, <1>4 DEF IInv, Synced, SourceInMode, InHand

(* EspiAnalyzer.cpp:244-246: the oldest frame is taken in the mode the      *)
(* session held, which is that of the frame or known to be suspect.         *)
LEMMA DecodeInv == ASSUME IInv, Decode PROVE IInv'
<1>1. PICK u \in DecodedUpdates(Head(pending), sourceMode) :
          txn' = [frame |-> Head(pending), read |-> sourceMode, update |-> u,
                  guess |-> session.uncertain, basis |-> basis]
  BY DEF Decode
<1>2. /\ pc = "Decode" /\ pc' = "Apply"
      /\ pending # << >> /\ pending' = Tail(pending)
      /\ UNCHANGED <<bus, asserted, opened, readable, sourceMode, session, basis>>
  BY DEF Decode
<1>3. /\ Head(pending) \in Frame
      /\ EffectOK(Head(pending))
      /\ AtHead = Head(pending).sent
      /\ AtHead' = Head(pending).after
      /\ pending' \in Seq(Frame) /\ Len(pending') = Len(pending) - 1
      /\ Len(pending) \in Nat
      /\ Chain'
  BY <1>2, TakeHead DEF IInv, TypeOK
<1>4. txn' \in Transaction
  <2>1. u \in SessionUpdate
    BY <1>3, DecodedUpdatesType DEF IInv, TypeOK
  <2>2. QED
    BY <1>1, <1>3, <2>1 DEF IInv, TypeOK, Transaction, SessionState
<1>5. TypeOK' /\ Room' /\ Opening' /\ Synced'
  BY <1>2, <1>3, <1>4, BacklogAssumption DEF IInv, TypeOK, Room, Opening, Synced
<1>6. Current = Head(pending).sent /\ Current' = Head(pending).sent
  BY <1>1, <1>2, <1>3 DEF Current
<1>7. SourceInMode' /\ ModeAgreement' /\ CrcAgreement'
  BY <1>2, <1>6 DEF IInv, SourceInMode, ModeAgreement, CrcAgreement
<1>8. sourceMode = session.mode
  BY <1>2 DEF IInv, SourceInMode
<1>9. InHand'
  <2>1. txn'.update \in DecodedUpdates(txn'.frame, txn'.read)
    BY <1>1
  <2>2. EffectOK(txn'.frame) /\ txn'.frame.after = AtHead' /\ txn'.frame.whole
    BY <1>1, <1>2, <1>3 DEF IInv, Synced
  <2>3. QED
    BY <1>1, <1>2, <1>8, <2>1, <2>2 DEF InHand, EffectOK, DecodedUpdates
<1>10. WrongReadIsSuspect'
  <2>1. session.uncertain \in BOOLEAN /\ basis \in Basis
    BY DEF IInv, TypeOK, SessionState
  <2>2. QED
    BY <1>1, <1>2, <1>6, <1>8, <2>1 DEF IInv, ModeAgreement, WrongReadIsSuspect, Basis
<1>11. QED
  BY <1>3, <1>5, <1>7, <1>9, <1>10 DEF IInv

(* What was read exactly is what the bus did; what was not settles nothing, *)
(* and what could not be read changes nothing.                              *)
LEMMA ReadFacts ==
    ASSUME IInv, pc = "Apply"
    PROVE  \/ /\ txn.update.change \in {"GeneralConfigWritten", "InbandReset"}
              /\ AtHead \in TakesEffect(txn.update.config)
           \/ txn.update.change = "GeneralConfigUncertain"
           \/ /\ txn.update.change = "None"
              /\ \/ txn.frame.after = txn.frame.sent
                 \/ session.mode # txn.frame.sent.mode
                 \/ session.mode \notin readable
<1>1. /\ EffectOK(txn.frame) /\ txn.frame.after = AtHead
      /\ txn.frame.whole
      /\ txn.read = session.mode
      /\ txn.update \in DecodedUpdates(txn.frame, txn.read)
  BY DEF IInv, InHand
<1>2. txn.frame \in Frame
  BY DEF IInv, TypeOK, Transaction
<1>3. txn.frame.kind \in {"Reset", "Write", "Other"} /\ txn.frame.accepted \in BOOLEAN
  BY <1>2 DEF Frame
<1>4. CASE txn.frame.kind = "Reset" /\ txn.read \in readable
  <2>1. txn.update = ResetUpdate
    BY <1>1, <1>4 DEF DecodedUpdates, ExactUpdate
  <2>2. QED
    BY <1>1, <1>4, <2>1 DEF EffectOK, ResetUpdate
<1>5. CASE /\ txn.frame.kind # "Reset" /\ txn.read \in readable
           /\ txn.read = txn.frame.sent.mode
  <2>1. txn.update = ExactUpdate(txn.frame)
    BY <1>1, <1>5 DEF DecodedUpdates
  <2>2. CASE txn.frame.kind = "Write" /\ txn.frame.accepted
    <3>1. txn.update = WrittenUpdate(txn.frame.config)
      BY <2>1, <2>2 DEF ExactUpdate
    <3>2. QED
      BY <1>1, <2>2, <3>1 DEF EffectOK, WrittenUpdate
  <2>3. CASE txn.frame.kind = "Write" /\ ~txn.frame.accepted
    BY <2>1, <2>3 DEF ExactUpdate, UncertainUpdate
  <2>4. CASE txn.frame.kind = "Other"
    BY <1>1, <2>1, <2>4 DEF EffectOK, ExactUpdate, NoUpdate
  <2>5. QED
    BY <1>3, <1>5, <2>2, <2>3, <2>4
<1>6. CASE /\ txn.frame.kind # "Reset" /\ txn.read \in readable
           /\ txn.read # txn.frame.sent.mode
  BY <1>1, <1>6, MisreadsAssumption DEF DecodedUpdates
<1>7. CASE txn.read \notin readable
  BY <1>1, <1>7 DEF DecodedUpdates, NoUpdate
<1>8. QED
  BY <1>4, <1>5, <1>6, <1>7

(* EspiAnalyzer.cpp:248-251: after its update the session answers for the   *)
(* frame that comes next.                                                   *)
LEMMA ApplySessionInv == ASSUME IInv, ApplySession PROVE IInv'
<1>1. /\ pc = "Apply" /\ pc' = "Emit"
      /\ session' = Apply(session, txn.update)
      /\ basis' = NewBasis(txn.update)
      /\ UNCHANGED <<bus, asserted, opened, pending, readable, sourceMode, txn>>
  BY DEF ApplySession, busVars
<1>2. /\ session \in SessionState /\ txn.update \in SessionUpdate /\ basis \in Basis
      /\ txn.update.config \in GeneralConfig
      /\ session' \in SessionState
  BY <1>1, ApplyType DEF IInv, TypeOK, Transaction, SessionUpdate
<1>3. basis' \in Basis
  BY <1>1, <1>2 DEF NewBasis, Basis
<1>4. TypeOK' /\ Room' /\ Opening' /\ Synced' /\ Chain' /\ SourceInMode' /\ InHand'
      /\ WrongReadIsSuspect'
  BY <1>1, <1>2, <1>3 DEF IInv, TypeOK, Room, Opening, Synced, Chain, SourceInMode, InHand,
                          EffectOK, WrongReadIsSuspect
<1>5. /\ AtHead' = AtHead /\ Current' = AtHead
      /\ Current = txn.frame.sent
      /\ AtHead = txn.frame.after
  BY <1>1 DEF IInv, InHand, Current, AtHead
<1>6. ModeAgreement' /\ CrcAgreement'
  <2>1. CASE /\ txn.update.change \in {"GeneralConfigWritten", "InbandReset"}
             /\ AtHead \in TakesEffect(txn.update.config)
    <3>1. session'.crc = AtHead.crc
      BY <1>1, <1>2, <2>1, ApplySettles, TakesEffectType
    <3>2. CASE ModeReserved(txn.update.config)
      BY <1>1, <1>5, <2>1, <3>1, <3>2 DEF NewBasis, ModeAgreement, CrcAgreement
    <3>3. CASE ~ModeReserved(txn.update.config)
      <4>1. session'.mode = AtHead.mode
        BY <1>1, <1>2, <2>1, <3>3, ApplySettles, TakesEffectType
      <4>2. QED
        BY <1>5, <3>1, <4>1 DEF ModeAgreement, CrcAgreement
    <3>4. QED
      BY <3>2, <3>3
  <2>2. CASE txn.update.change = "GeneralConfigUncertain"
    <3>1. session'.uncertain
      BY <1>1, <1>2, <2>2, ApplyKeeps
    <3>2. QED
      BY <3>1 DEF ModeAgreement, CrcAgreement
  <2>3. CASE /\ txn.update.change = "None"
             /\ \/ txn.frame.after = txn.frame.sent
                \/ session.mode # txn.frame.sent.mode
                \/ session.mode \notin readable
    <3>1. /\ session'.mode = session.mode /\ session'.crc = session.crc
          /\ session'.uncertain = session.uncertain
      BY <1>1, <1>2, <2>3, ApplyKeeps DEF SessionState
    <3>2. basis' = basis
      BY <1>1, <2>3 DEF NewBasis
    <3>3. CASE txn.frame.after = txn.frame.sent
      BY <1>1, <1>5, <2>3, <3>1, <3>2, <3>3 DEF IInv, ModeAgreement, CrcAgreement
    <3>4. CASE session.mode # txn.frame.sent.mode
      BY <1>1, <1>5, <2>3, <3>1, <3>2, <3>4 DEF IInv, ModeAgreement, CrcAgreement
    <3>5. CASE session.mode \notin readable
      BY <1>1, <2>3, <3>1, <3>5 DEF ModeAgreement, CrcAgreement
    <3>6. QED
      BY <2>3, <3>3, <3>4, <3>5
  <2>4. QED
    BY <1>1, <2>1, <2>2, <2>3, ReadFacts
<1>7. QED
  BY <1>4, <1>6 DEF IInv

-----------------------------------------------------------------------------
(* The theorems. *)

(* Every step keeps the invariant. *)
LEMMA StepInv == IInv /\ [Next]_vars => IInv'
<1>1. ASSUME IInv, UNCHANGED vars PROVE IInv'
  BY <1>1 DEF IInv, TypeOK, Room, Opening, Synced, Chain, SourceInMode, InHand, EffectOK,
              DecodedUpdates, ModeAgreement, CrcAgreement, WrongReadIsSuspect, Current, AtHead,
              vars, busVars, workerVars
<1>2. QED
  BY <1>1, BusAssertInv, BusDeassertInv, SetModeInv, SkipOpeningInv, SyncInv, DecodeInv,
     ApplySessionInv, EmitInv DEF Next, Worker

(* Only ApplySession changes the session, and in a mode the capture cannot  *)
(* be read in it has nothing to apply.                                      *)
LEMMA StepStuck ==
    IInv /\ [Next]_vars => [session.mode \notin readable => session' = session]_vars
<1> SUFFICES ASSUME IInv, Next, session.mode \notin readable
             PROVE  session' = session
  OBVIOUS
<1>1. CASE ApplySession
  <2>1. txn.update = NoUpdate
    BY <1>1 DEF ApplySession, IInv, InHand, DecodedUpdates
  <2>2. QED
    BY <1>1, <2>1 DEF ApplySession, Apply, NoUpdate
<1>2. CASE BusAssert \/ BusDeassert
  BY <1>2 DEF BusAssert, BusDeassert, workerVars
<1>3. CASE SetMode \/ SkipOpening \/ Sync \/ Decode \/ Emit
  BY <1>3 DEF SetMode, SkipOpening, Sync, Decode, Emit
<1>4. QED
  BY <1>1, <1>2, <1>3 DEF Next, Worker

-----------------------------------------------------------------------------
(* The chip selects the worker reads. *)

(* Only the first frame of a capture can be without its assertion.          *)
OnlyFirstOpened == \A i \in 2..Len(pending) : pending[i].whole

(* How many frames there are to read. *)
ToRead == IF pending = << >> \/ Head(pending).whole THEN Len(pending) ELSE Len(pending) - 1

(* The frame a chip select ends as is the last of the queue, and it is to   *)
(* be read unless the capture opened in it.                                 *)
LEMMA DeassertReads ==
    ASSUME IInv, OnlyFirstOpened, BusDeassert
    PROVE  OnlyFirstOpened' /\ ToRead' = (IF opened THEN ToRead ELSE ToRead + 1)
<1>1. PICK f \in Frame : f.whole = ~opened /\ pending' = Append(pending, f)
  BY DeassertFrame DEF IInv
<1>2. /\ pending \in Seq(Frame) /\ Len(pending) \in Nat
      /\ pending' \in Seq(Frame) /\ Len(pending') = Len(pending) + 1
      /\ pending'[Len(pending) + 1] = f
      /\ \A i \in 1..Len(pending) : pending'[i] = pending[i]
  BY <1>1, AppendProperties DEF IInv, TypeOK
<1>3. pending' # << >> /\ Head(pending') = pending'[1]
  BY <1>2
<1>4. CASE pending = << >>
  <2>1. Len(pending) = 0 /\ Head(pending') = f
    BY <1>2, <1>3, <1>4
  <2>2. ToRead = 0 /\ (f.whole => ToRead' = 1) /\ (~f.whole => ToRead' = 0)
    BY <1>2, <1>3, <1>4, <2>1 DEF ToRead
  <2>3. OnlyFirstOpened'
    BY <1>2, <2>1 DEF OnlyFirstOpened
  <2>4. ToRead' = IF opened THEN ToRead ELSE ToRead + 1
    <3>1. (opened => ~f.whole) /\ (~opened => f.whole)
      BY <1>1 DEF IInv, TypeOK
    <3>2. QED
      BY <2>2, <3>1
  <2>5. QED
    BY <2>3, <2>4
<1>5. CASE pending # << >>
  <2>1. opened = FALSE /\ f.whole
    BY <1>1, <1>5 DEF IInv, TypeOK, Opening
  <2>2. Len(pending) > 0 /\ Head(pending) = pending[1] /\ Head(pending') = Head(pending)
    BY <1>2, <1>3, <1>5
  <2>3. ToRead' = ToRead + 1
    BY <1>2, <1>3, <1>5, <2>2 DEF ToRead
  <2>4. OnlyFirstOpened'
    BY <1>2, <2>1 DEF OnlyFirstOpened
  <2>5. QED
    BY <2>1, <2>3, <2>4
<1>6. QED
  BY <1>4, <1>5

(* A frame taken off the queue leaves only frames to be read.               *)
LEMMA TakenReads ==
    ASSUME IInv, OnlyFirstOpened, pending # << >>, pending' = Tail(pending)
    PROVE  /\ OnlyFirstOpened'
           /\ Head(pending).whole => ToRead > 0 /\ ToRead' = ToRead - 1
           /\ ~Head(pending).whole => ToRead' = ToRead
<1>1. /\ pending \in Seq(Frame)
      /\ Len(pending) \in Nat \ {0}
      /\ pending' \in Seq(Frame) /\ Len(pending') = Len(pending) - 1
      /\ \A i \in 1..Len(pending') : pending'[i] = pending[i + 1]
  BY HeadTailProperties DEF IInv, TypeOK
<1>2. \A i \in 1..Len(pending') : pending'[i].whole
  BY <1>1 DEF OnlyFirstOpened
<1>3. OnlyFirstOpened'
  BY <1>1, <1>2 DEF OnlyFirstOpened
<1>4. ToRead' = Len(pending) - 1
  <2>1. CASE pending' = << >>
    BY <1>1, <2>1 DEF ToRead
  <2>2. CASE pending' # << >>
    <3>1. Head(pending') = pending'[1] /\ 1 \in 1..Len(pending')
      BY <1>1, <2>2
    <3>2. QED
      BY <1>1, <1>2, <3>1 DEF ToRead
  <2>3. QED
    BY <2>1, <2>2, SMTT(30)
<1>5. CASE Head(pending).whole
  <2>1. ToRead = Len(pending)
    BY <1>5 DEF ToRead
  <2>2. ToRead > 0 /\ ToRead' = ToRead - 1
    BY <1>1, <1>4, <2>1
  <2>3. QED
    BY <1>3, <1>5, <2>2
<1>6. CASE ~Head(pending).whole
  <2>1. ToRead = Len(pending) - 1
    BY <1>6 DEF ToRead
  <2>2. QED
    BY <1>3, <1>4, <1>6, <2>1
<1>7. QED
  BY <1>5, <1>6

(* Every step is one of the contract's or does not concern it.              *)
LEMMA StepReads ==
    IInv /\ OnlyFirstOpened /\ [Next]_vars
        => OnlyFirstOpened' /\ [ChipSelect!Next]_(ChipSelect!vars)
<1> SUFFICES ASSUME IInv, OnlyFirstOpened, [Next]_vars
             PROVE  OnlyFirstOpened' /\ [ChipSelect!Next]_(ChipSelect!vars)
  OBVIOUS
<1> DEFINE busy == pc \in {"Apply", "Emit"}
<1>1. /\ ChipSelect!Complete <=> ToRead' = ToRead + 1 /\ busy' = busy
      /\ ChipSelect!Take <=> ~busy /\ ToRead > 0 /\ ToRead' = ToRead - 1 /\ busy' = TRUE
      /\ ChipSelect!Release <=> busy /\ busy' = FALSE /\ ToRead' = ToRead
      /\ UNCHANGED ChipSelect!vars <=> ToRead' = ToRead /\ busy' = busy
  BY DEF ChipSelect!Complete, ChipSelect!Take, ChipSelect!Release, ChipSelect!vars, ToRead
<1>2. CASE BusDeassert
  <2>1. busy' = busy
    BY <1>2 DEF BusDeassert, workerVars
  <2>2. QED
    BY <1>1, <1>2, <2>1, DeassertReads DEF ChipSelect!Next
<1>3. CASE SkipOpening
  <2>1. pending # << >> /\ pending' = Tail(pending) /\ ~Head(pending).whole /\ pc' = pc
    BY <1>3 DEF SkipOpening
  <2>2. QED
    BY <1>1, <2>1, TakenReads
<1>4. CASE Decode
  <2>1. /\ pending # << >> /\ pending' = Tail(pending) /\ Head(pending).whole
        /\ ~busy /\ busy' = TRUE
    BY <1>4 DEF Decode, IInv, Synced
  <2>2. QED
    BY <1>1, <2>1, TakenReads DEF ChipSelect!Next
<1>5. CASE Emit
  <2>1. pending' = pending /\ busy /\ busy' = FALSE
    BY <1>5 DEF Emit, busVars
  <2>2. QED
    BY <1>1, <2>1 DEF ChipSelect!Next, ToRead, OnlyFirstOpened
<1>6. CASE BusAssert \/ SetMode \/ Sync \/ ApplySession \/ UNCHANGED vars
  <2>1. pending' = pending /\ busy' = busy
    BY <1>6 DEF BusAssert, SetMode, Sync, ApplySession, vars, busVars, workerVars
  <2>2. QED
    BY <1>1, <2>1 DEF ToRead, OnlyFirstOpened
<1>7. QED
  BY <1>2, <1>3, <1>4, <1>5, <1>6 DEF Next, Worker

(* The worker starts with nothing to read and nothing in hand.              *)
LEMMA InitReads == Init => OnlyFirstOpened /\ ChipSelect!Init
BY DEF Init, OnlyFirstOpened, ChipSelect!Init

-----------------------------------------------------------------------------
(* The theorems. *)

(* The invariant holds of every execution. *)
THEOREM Invariance == Spec => []IInv
BY InitInv, StepInv, PTL DEF Spec

(* Every variable keeps its type, and the backlog its bound. *)
THEOREM TypeCorrect == Spec => []TypeOK
<1>1. IInv => TypeOK
  BY DEF IInv
<1>2. QED
  BY <1>1, Invariance, PTL

(* Session.h:36-44: the mode carried from one transaction to the next is    *)
(* the one the bus is in, however far the bus has run ahead of the worker.  *)
THEOREM SessionFollowsBus == Spec => []ModeAgreement
<1>1. IInv => ModeAgreement
  BY DEF IInv
<1>2. QED
  BY <1>1, Invariance, PTL

(* Session.cpp:63-65: so is CRC checking, once a write or reset settled it. *)
THEOREM CrcFollowsBus == Spec => []CrcAgreement
<1>1. IInv => CrcAgreement
  BY DEF IInv
<1>2. QED
  BY <1>1, Invariance, PTL

(* SamplingByteSource.cpp:95-101: once the session is in a mode whose lanes *)
(* the capture lacks, nothing that is captured later moves it.              *)
THEOREM StuckForGood == Spec => NoWayBack
BY Invariance, StepStuck, PTL DEF Spec, NoWayBack

(* EspiAnalyzer.cpp:230-282: the worker reads every chip select captured    *)
(* whole once, in turn and one at a time.                                   *)
THEOREM KeepsTheContract == Spec => ReadsEachOnce
BY Invariance, InitReads, StepReads, PTL DEF Spec, ReadsEachOnce, ChipSelect!Spec

(* EspiAnalyzer.cpp:235-247: no transaction is read in a mode it was not    *)
(* sent in while the session vouches for its mode, or else it is not read.  *)
THEOREM NoConfidentMisread == Spec => []WrongReadIsSuspect
<1>1. IInv => WrongReadIsSuspect
  BY DEF IInv
<1>2. QED
  BY <1>1, Invariance, PTL
=============================================================================
