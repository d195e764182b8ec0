--------------------------- MODULE MCLinkDecoder ----------------------------
(* Values for LinkDecoder's constants: an opcode of every shape and channel, *)
(* the four short lengths, the reserved one, an undefined one; a response of *)
(* every code and modifier, a wait state with one too; a cycle type byte of  *)
(* every row, of every variable field set and of none; the lengths and       *)
(* counts at their boundaries.                                               *)
EXTENDS LinkDecoder

MCOpcodeBytes ==
    {0, 1, 2, 4, 5, 6, 7, 10, 11, 33, 34, 37} \cup {64, 69, 74, 79} \cup {255, 19}

MCResponseBytes == {1, 2, 3, 8, 15, 79, 255, 72, 136, 200, 5}

MCCycleBytes == 0..6 \cup {8, 9, 12, 15, 16, 17, 25, 30, 33, 67, 100, 131}

MCConfigs == {[enc |-> 2, crc |-> TRUE], [enc |-> 3, crc |-> FALSE]}
=============================================================================
