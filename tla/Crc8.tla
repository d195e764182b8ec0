-------------------------------- MODULE Crc8 ---------------------------------
(***************************************************************************)
(* CRC-8 of the bus: polynomial x^8 + x^2 + x + 1, seed 0, bit 7 first.    *)
(***************************************************************************)
EXTENDS Integers, Sequences

(* Plausible bugs: a term of the polynomial left out. *)
PolynomialWithoutOne == 6
PolynomialWithoutX == 5

Polynomial == 7
Seed == 0

(* Exclusive or of two bytes: the sum of their bits, without the carries.   *)
Xor(a, b) ==
    LET sum(weight) == (((a \div weight) + (b \div weight)) % 2) * weight
    IN  sum(1) + sum(2) + sum(4) + sum(8) + sum(16) + sum(32) + sum(64) + sum(128)

(* One clock of the register. *)
Shift(crc) == IF crc >= 128 THEN Xor((2 * crc) % 256, Polynomial) ELSE 2 * crc

(* Eight of them. *)
Clocked(register) ==
    LET two(crc)  == Shift(Shift(crc))
        four(crc) == two(two(crc))
    IN  four(four(register))

(* A plausible bug: a byte is taken in after the register has been clocked. *)
UpdateAfterClocks(crc, byte) == Xor(Clocked(crc), byte)

(* The byte is taken in whole, then clocked through bit by bit.             *)
Update(crc, byte) == Clocked(Xor(crc, byte))

(* The register after each of the bytes. *)
Registers(bytes) ==
    LET after[n \in 0..Len(bytes)] == IF n = 0 THEN Seed ELSE Update(after[n - 1], bytes[n])
    IN  after

Compute(bytes) == Registers(bytes)[Len(bytes)]
=============================================================================
