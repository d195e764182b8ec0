---------------------------- MODULE ChipSelects -----------------------------
(***************************************************************************)
(* What the worker is promised of the chip selects in a capture, without a *)
(* word of edges or cursors: each that is captured whole is taken, one at  *)
(* a time and in turn, none of them twice, and one of which only the end   *)
(* is in the capture never.                                                *)
(*                                                                         *)
(* The byte source keeps this promise and the worker's loop lives by it:   *)
(* modules SamplingByteSource and EspiAnalyzer both implement this one.    *)
(***************************************************************************)
EXTENDS Naturals

VARIABLES
    waiting,   \* how many are captured whole and not yet taken
    busy       \* one is being read

vars == <<waiting, busy>>

Init ==
    /\ waiting = 0
    /\ busy = FALSE

Complete ==
    /\ waiting' = waiting + 1
    /\ UNCHANGED busy

(* The one taken is the next in line: it leaves one less to wait for, where *)
(* passing over any would leave two less or more.                           *)
Take ==
    /\ ~busy
    /\ waiting > 0
    /\ waiting' = waiting - 1
    /\ busy' = TRUE

Release ==
    /\ busy
    /\ busy' = FALSE
    /\ UNCHANGED waiting

Next == Complete \/ Take \/ Release

Spec == Init /\ [][Next]_vars
=============================================================================
