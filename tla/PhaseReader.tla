----------------------------- MODULE PhaseReader ------------------------------
(***************************************************************************)
(* The CRC of a phase, next to the sender's: what the reader's PhaseReader *)
(* accumulates of the bytes it is given and what its CRC field says of the *)
(* byte that ends the phase, when some came over the wire changed.         *)
(*                                                                         *)
(* A change that would have the reader cut the phase elsewhere, or give it *)
(* up, is left out: sender and reader take each byte for the same part of  *)
(* the phase.                                                              *)
(***************************************************************************)
EXTENDS Crc8, EspiTables

CONSTANTS
    Contents,   \* bytes a sender lays down
    Errors      \* what a disturbance does to a byte: the bits it inverts

ASSUME PhaseAssumption == Contents \subseteq Byte /\ Errors \subseteq Byte

VARIABLES
    phaseOf,   \* PhaseReader::mPhase
    place,     \* where in the phase sender and reader are
    laid,      \* the CRC register of the sender (external)
    mCrc,      \* PhaseReader::mCrc
    damaged,   \* history: bytes that came over changed, those of wait states aside
    odd,       \* history: whether an odd number of their bits did
    field      \* what the CRC field says

phaseVars == <<phaseOf, place, laid, mCrc, damaged, odd, field>>

Several == 2

-----------------------------------------------------------------------------
Ones(byte) == LET bit(weight) == (byte \div weight) % 2
              IN  bit(1) + bit(2) + bit(4) + bit(8) + bit(16) + bit(32) + bit(64) + bit(128)

(* What is seen of a byte. *)
Seen(sent) == {sent} \cup {Xor(sent, error) : error \in Errors}

(* What happened to it on the way. *)
Compared(sent, seen) ==
    /\ damaged' = IF seen = sent THEN damaged ELSE IF damaged = 0 THEN 1 ELSE Several
    /\ odd' = (odd # (Ones(Xor(sent, seen)) % 2 = 1))

(* A byte the CRC covers. *)
Read(sent, seen) ==
    /\ laid' = Update(laid, sent)
    /\ mCrc' = Update(mCrc, seen)
    /\ Compared(sent, seen)
    /\ UNCHANGED <<phaseOf, field>>

(* A target that needs time says so; neither side counts it. *)
WaitState(sent, seen) ==
    /\ phaseOf = "Response" /\ place \in {"start", "waits"}
    /\ IsWaitState(sent) /\ IsWaitState(seen)
    /\ place' = "waits"
    /\ UNCHANGED <<phaseOf, laid, mCrc, damaged, odd, field>>

(* Whether a phase that starts with the byte is one that ends in a CRC: an   *)
(* opcode of the table but the reset's, of a length that is defined; a       *)
(* response that is one, and there.                                          *)
Opens(byte) ==
    IF phaseOf = "Command"
    THEN /\ KnownOpcode(byte) /\ LookupOpcode(byte).name # "RESET"
         /\ LookupOpcode(byte).short => ShortRequestLength(byte) # 0
    ELSE LookupResponse(byte) \notin {"WAIT_STATE", "UNDEFINED", "NO_RESPONSE"}

(* The opcode; or the response byte, told from a wait state before it is    *)
(* counted.                                                                 *)
FirstByte(sent, seen) ==
    /\ place \in {"start", "waits"}
    /\ Opens(sent) /\ Opens(seen)
    /\ place' = "body"
    /\ Read(sent, seen)

ElementByte(sent, seen) ==
    /\ place = "body"
    /\ Read(sent, seen)
    /\ UNCHANGED place

CrcField(received, computed) == IF received = computed THEN "ok" ELSE "BAD"

(* The sender ends the phase with its register; the reader reads that       *)
(* uncovered.                                                               *)
ReadCrc(seen) ==
    /\ place = "body"
    /\ place' = "over"
    /\ field' = CrcField(seen, mCrc)
    /\ Compared(laid, seen)
    /\ UNCHANGED <<phaseOf, laid, mCrc>>

-----------------------------------------------------------------------------
PhaseInit ==
    /\ phaseOf \in {"Command", "Response"}
    /\ place = "start"
    /\ laid = Seed /\ mCrc = Seed
    /\ damaged = 0 /\ odd = FALSE
    /\ field = "none"

PhaseNext ==
    \/ \E sent \in Contents : \E seen \in Seen(sent) :
           \/ WaitState(sent, seen)
           \/ FirstByte(sent, seen)
           \/ ElementByte(sent, seen)
    \/ \E seen \in Seen(laid) : ReadCrc(seen)

PhaseSpec == PhaseInit /\ [][PhaseNext]_phaseVars

-----------------------------------------------------------------------------
(* Properties *)

PhaseTypeOK ==
    /\ phaseOf \in {"Command", "Response"}
    /\ place \in {"start", "waits", "body", "over"}
    /\ laid \in Byte /\ mCrc \in Byte
    /\ damaged \in 0..Several /\ odd \in BOOLEAN
    /\ field \in {"none", "ok", "BAD"}

(* Crc8.h, "excluding any WAIT_STATE response bytes"; LinkDecoder.cpp:140,  *)
(* "before the CRC byte itself is folded in": a phase that came over as it  *)
(* was sent is said to be good, after any number of wait states, in         *)
(* whatever condition those came over, so long as IsWaitState still takes   *)
(* them for such. Crc8.cpp:6-15: one in which a single byte came over       *)
(* changed, the CRC itself or any before it, in any way, is said to be bad: *)
(* the register forgets nothing, however many bytes follow.                 *)
FieldTells ==
    place = "over" /\ damaged < Several => field = IF damaged = 0 THEN "ok" ELSE "BAD"

(* Crc8.h:40, the polynomial: x + 1 divides it, so an odd number of bits    *)
(* inverted shows, in as many bytes as they may be.                         *)
OddDamageShows == place = "over" /\ odd => field = "BAD"
=============================================================================
