------------------------------ MODULE Session -------------------------------
(***************************************************************************)
(* SessionState: what the decoder believes about the bus between two       *)
(* transactions. Operators over a record, one per member function. The     *)
(* counter of mode changes is left out: only tests read it.                *)
(***************************************************************************)
EXTENDS EspiTables

SessionState == [mode : IoMode, crc : BOOLEAN, uncertain : BOOLEAN]

Change == {"None", "GeneralConfigWritten", "GeneralConfigUncertain", "InbandReset"}

(* What one decoded transaction says of the register; the config of the two *)
(* changes that carry none is the reset state.                              *)
SessionUpdate == [change : Change, config : GeneralConfig]

NoUpdate        == [change |-> "None", config |-> GeneralConfigResetState]
UncertainUpdate == [change |-> "GeneralConfigUncertain", config |-> GeneralConfigResetState]
ResetUpdate     == [change |-> "InbandReset", config |-> GeneralConfigResetState]
WrittenUpdate(config) == [change |-> "GeneralConfigWritten", config |-> config]

InitialSession(mode) == [mode |-> mode, crc |-> FALSE, uncertain |-> FALSE]

-----------------------------------------------------------------------------
(* Plausible bugs, for the checks that a property catches them. *)

(* The reserved encoding taken for a mode of its own. *)
AdoptReservedMode(session, config) ==
    [session EXCEPT !.crc  = config.crc,
                    !.mode = IF ModeReserved(config) THEN "Reserved" ELSE DecodedMode(config)]

(* Returning before the CRC bit is taken. *)
AdoptReservedVoidsWrite(session, config) ==
    IF ModeReserved(config) THEN session
    ELSE [session EXCEPT !.crc = config.crc, !.mode = DecodedMode(config)]

-----------------------------------------------------------------------------
(* The two fields are independent: a reserved mode selection leaves the     *)
(* mode alone and still sets CRC checking.                                  *)
Adopt(session, config) ==
    [session EXCEPT !.crc  = config.crc,
                    !.mode = IF ModeReserved(config) THEN @ ELSE DecodedMode(config)]

(* An unconfirmed write treated as one that did not happen. *)
ApplyIgnoresUncertain(session, update) ==
    IF update.change \in {"GeneralConfigWritten", "InbandReset"}
    THEN [Adopt(session, update.config) EXCEPT !.uncertain = FALSE]
    ELSE session

(* The in-band reset forgotten among the changes that settle the register. *)
ApplyKeepsUncertainty(session, update) ==
    CASE update.change = "GeneralConfigWritten" ->
             [Adopt(session, update.config) EXCEPT !.uncertain = FALSE]
      [] update.change = "InbandReset"            -> Adopt(session, update.config)
      [] update.change = "GeneralConfigUncertain" -> [session EXCEPT !.uncertain = TRUE]
      [] OTHER                                    -> session

Apply(session, update) ==
    CASE update.change \in {"GeneralConfigWritten", "InbandReset"} ->
             [Adopt(session, update.config) EXCEPT !.uncertain = FALSE]
      [] update.change = "GeneralConfigUncertain" -> [session EXCEPT !.uncertain = TRUE]
      [] OTHER                                    -> session
=============================================================================
