------------------------------- MODULE MCBytes -------------------------------
(***************************************************************************)
(* Three views of a byte, side by side: how it gets over the lanes, what   *)
(* the CRC of its phase says of it and what is told of the target from it. *)
(* A behaviour is one of LaneCodec, of PhaseReader or of TargetPicture,    *)
(* with the other two left as they begin.                                  *)
(***************************************************************************)
EXTENDS LaneCodec, TargetPicture, PhaseReader

VARIABLE part

MCLines ==
    LET Bits(offset, bits) == {RegisterBit(offset, bit) : bit \in bits}
    IN  {Irq(5), Irq(133), Wire(2, 0), Wire(5, 3), Wire(128, 1)}
        \cup Bits(8, {31, 27, 26, 20, 16}) \cup Bits(16, {0}) \cup Bits(64, {11, 3})

MCDWords ==
    {select \cup others : select \in SUBSET {31, 27, 26}, others \in {{}, {20, 11, 0}, {16, 3}}}

LanesSilent ==
    /\ sent = [mode |-> "Single", phase |-> "Command", bytes |-> [i \in 1..FrameSize |-> 0]]
    /\ mode = "Single" /\ clock = 0 /\ group = 0 /\ accum = 0 /\ out = << >>

NothingRead ==
    /\ phaseOf = "Command" /\ place = "start" /\ laid = Seed /\ mCrc = Seed
    /\ damaged = 0 /\ odd = FALSE /\ field = "none"

NothingTold ==
    /\ line = << >> /\ actual = FALSE /\ told = "Unknown"
    /\ adopted = GeneralConfigResetState /\ settled = FALSE

AnyInit ==
    \/ part = "Lanes"   /\ Init        /\ NothingRead /\ NothingTold
    \/ part = "Phase"   /\ PhaseInit   /\ LanesSilent /\ NothingTold
    \/ part = "Picture" /\ PictureInit /\ LanesSilent /\ NothingRead

AnyNext ==
    \/ part = "Lanes"   /\ Next        /\ UNCHANGED <<part, phaseVars, pictureVars>>
    \/ part = "Phase"   /\ PhaseNext   /\ UNCHANGED <<part, vars, pictureVars>>
    \/ part = "Picture" /\ PictureNext /\ UNCHANGED <<part, vars, phaseVars>>

AnySpec == AnyInit /\ [][AnyNext]_<<part, vars, phaseVars, pictureVars>>

=============================================================================
