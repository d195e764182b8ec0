---------------------------- MODULE LinkContract ----------------------------
(***************************************************************************)
(* What LinkDecoder::Decode promises its caller, without a word of how a   *)
(* packet is laid out. Between a call and its return the wire does some of *)
(* a few things, each at most once: it carries an in-band reset, carries a *)
(* write of the General Capabilities and Configurations register, carries  *)
(* an answer, comes to the end of the chip select. The verdict returned is *)
(* a function of what it did:                                              *)
(*                                                                         *)
(*   - truncated exactly when the chip select ended under a read, which an *)
(*     in-band reset always runs into and which is then no truncation;     *)
(*   - the register change is the reset, or the write if the answer was    *)
(*     ACCEPT, or "uncertain" if there was a write and anything else: no   *)
(*     answer, an undefined one, a refusal.                                *)
(*                                                                         *)
(* One thing is left open. A byte xFh with a response modifier other than  *)
(* 00 is a wait state to the code (Responses.cpp:58-63) and an undefined   *)
(* answer to the comment of the table it is matched against (Responses.h:  *)
(* 31-33). After such a byte a write may be called by the answer that      *)
(* followed or uncertain, and the contract does not say which.             *)
(***************************************************************************)
EXTENDS Session

CONSTANT NoWrite    \* stands for no register value

VARIABLES busy, ranOut, reset, wrote, undecided, answer, verdict

vars == <<busy, ranOut, reset, wrote, undecided, answer, verdict>>

Verdict == [truncated : BOOLEAN, update : SessionUpdate]

NoVerdict == [truncated |-> FALSE, update |-> NoUpdate]

Init ==
    /\ busy = FALSE
    /\ ranOut \in BOOLEAN      \* says nothing before the first call
    /\ reset = FALSE /\ wrote = NoWrite /\ undecided = FALSE /\ answer = "None"
    /\ verdict = NoVerdict

Call ==
    /\ ~busy
    /\ busy' = TRUE
    /\ ranOut' = FALSE /\ reset' = FALSE /\ wrote' = NoWrite
    /\ undecided' = FALSE /\ answer' = "None"
    /\ verdict' = NoVerdict

CarriesReset ==
    /\ busy /\ ~ranOut /\ ~reset /\ wrote = NoWrite /\ ~undecided /\ answer = "None"
    /\ reset' = TRUE
    /\ UNCHANGED <<busy, ranOut, wrote, undecided, answer, verdict>>

CarriesWrite ==
    /\ busy /\ ~ranOut /\ ~reset /\ wrote = NoWrite /\ ~undecided /\ answer = "None"
    /\ wrote' \in GeneralConfig
    /\ UNCHANGED <<busy, ranOut, reset, undecided, answer, verdict>>

(* A byte of which it is not settled whether it is an answer.              *)
CarriesUndecided ==
    /\ busy /\ ~ranOut /\ ~reset /\ answer = "None"
    /\ undecided' = TRUE
    /\ UNCHANGED <<busy, ranOut, reset, wrote, answer, verdict>>

CarriesAnswer ==
    /\ busy /\ ~ranOut /\ ~reset /\ answer = "None"
    /\ answer' \in {"Accept", "Other"}
    /\ UNCHANGED <<busy, ranOut, reset, wrote, undecided, verdict>>

RunsOut ==
    /\ busy /\ ~ranOut
    /\ ranOut' = TRUE
    /\ UNCHANGED <<busy, reset, wrote, undecided, answer, verdict>>

(* The change, by what the answer is taken to have been. *)
RightUpdate(final) ==
    CASE reset                                    -> ResetUpdate
      [] ~reset /\ wrote = NoWrite                -> NoUpdate
      [] ~reset /\ wrote # NoWrite /\ final = "Accept" -> WrittenUpdate(wrote)
      [] OTHER                                    -> UncertainUpdate

(* The answer that came, or the byte before it that may have been one.     *)
Answers == IF undecided THEN {answer, "Other"} ELSE {answer}

Return ==
    /\ busy
    /\ reset => ranOut
    /\ busy' = FALSE
    /\ \E final \in Answers :
           verdict' = [truncated |-> ranOut /\ ~reset, update |-> RightUpdate(final)]
    /\ UNCHANGED <<ranOut, reset, wrote, undecided, answer>>

Next == Call \/ CarriesReset \/ CarriesWrite \/ CarriesUndecided \/ CarriesAnswer
          \/ RunsOut \/ Return

Spec == Init /\ [][Next]_vars
=============================================================================
