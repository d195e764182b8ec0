-------------------------- MODULE MCFrameEmission ---------------------------
(* Values for FrameEmission's constants: an opcode of every shape, with a    *)
(* cycle header of every channel in the response and of one in the command; *)
(* payloads on both sides of the three SMBus header bytes, with a Byte Count *)
(* that leaves a PEC, none, and neither.                                     *)
EXTENDS FrameEmission

MCOpcodeBytes == {0, 1, 4, 5, 7, 11, 33, 34, 37, 64, 69, 74, 255, 19}

MCResponseBytes == {1, 8, 255, 72, 136, 200, 5}
=============================================================================
