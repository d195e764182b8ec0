------------------------- MODULE Simulation_proofs --------------------------
(***************************************************************************)
(* Proofs about the CRC and about demo mode: what a phase's CRC says of    *)
(* any damage it may come to; that the script, turned over as often as the *)
(* host asks, decodes as a real capture would and is read in the mode it   *)
(* was drawn in, for any rates and requests; and that what the dialog      *)
(* accepts can be drawn.                                                   *)
(***************************************************************************)
EXTENDS Simulation, PhaseReader, EspiTables_proofs, FiniteSetTheorems,
        NaturalsInduction, WellFoundedInduction

-----------------------------------------------------------------------------
(* The register *)

Weights == {1, 2, 4, 8, 16, 32, 64, 128}

BitOf(byte, weight) == (byte \div weight) % 2

(* A byte is the sum of its bits. *)
LEMMA SumOfBits ==
    ASSUME NEW a \in Byte
    PROVE  /\ \A w \in Weights : BitOf(a, w) \in {0, 1}
           /\ a = BitOf(a, 1) + BitOf(a, 2) * 2 + BitOf(a, 4) * 4 + BitOf(a, 8) * 8
                  + BitOf(a, 16) * 16 + BitOf(a, 32) * 32 + BitOf(a, 64) * 64
                  + BitOf(a, 128) * 128
<1>1. \A w \in Weights : BitOf(a, w) \in {0, 1}
  BY DEF Weights, BitOf, Byte
<1>2. a = BitOf(a, 1) + BitOf(a, 2) * 2 + BitOf(a, 4) * 4 + BitOf(a, 8) * 8
                  + BitOf(a, 16) * 16 + BitOf(a, 32) * 32 + BitOf(a, 64) * 64
                  + BitOf(a, 128) * 128
  BY DEF BitOf, Byte
<1>3. QED
  BY <1>1, <1>2

(* And of no others. *)
LEMMA BitsOfSum ==
    ASSUME NEW b1 \in {0, 1}, NEW b2 \in {0, 1}, NEW b4 \in {0, 1}, NEW b8 \in {0, 1},
           NEW b16 \in {0, 1}, NEW b32 \in {0, 1}, NEW b64 \in {0, 1}, NEW b128 \in {0, 1},
           NEW a, a = b1 + b2 * 2 + b4 * 4 + b8 * 8 + b16 * 16 + b32 * 32 + b64 * 64 + b128 * 128
    PROVE  /\ a \in Byte
           /\ BitOf(a, 1) = b1 /\ BitOf(a, 2) = b2 /\ BitOf(a, 4) = b4 /\ BitOf(a, 8) = b8
           /\ BitOf(a, 16) = b16 /\ BitOf(a, 32) = b32 /\ BitOf(a, 64) = b64
           /\ BitOf(a, 128) = b128
<1>1. a \in Byte
  BY DEF Byte
<1>2. BitOf(a, 1) = b1 /\ BitOf(a, 2) = b2
  BY DEF BitOf
<1>3. BitOf(a, 4) = b4 /\ BitOf(a, 8) = b8
  BY DEF BitOf
<1>4. BitOf(a, 16) = b16 /\ BitOf(a, 32) = b32
  BY DEF BitOf
<1>5. BitOf(a, 64) = b64 /\ BitOf(a, 128) = b128
  BY DEF BitOf
<1>6. QED
  BY <1>1, <1>2, <1>3, <1>4, <1>5

(* Exclusive or adds the bits of two bytes modulo two. *)
LEMMA XorBits ==
    ASSUME NEW a \in Byte, NEW b \in Byte
    PROVE  /\ Xor(a, b) \in Byte
           /\ \A w \in Weights : BitOf(Xor(a, b), w) = (BitOf(a, w) + BitOf(b, w)) % 2
<1> DEFINE bit(w) == (BitOf(a, w) + BitOf(b, w)) % 2
<1>1. \A w \in Weights : bit(w) \in {0, 1}
  BY SumOfBits
<1>2. \A w \in Weights : ((a \div w) + (b \div w)) % 2 = bit(w)
  BY DEF Weights, BitOf, Byte
<1>3. /\ 1 \in Weights /\ 2 \in Weights /\ 4 \in Weights /\ 8 \in Weights
      /\ 16 \in Weights /\ 32 \in Weights /\ 64 \in Weights /\ 128 \in Weights
  BY DEF Weights
<1> HIDE DEF bit
<1>4. Xor(a, b) = bit(1) + bit(2) * 2 + bit(4) * 4 + bit(8) * 8 + bit(16) * 16 + bit(32) * 32
                  + bit(64) * 64 + bit(128) * 128
  BY <1>1, <1>2, <1>3 DEF Xor
<1>5. /\ Xor(a, b) \in Byte
      /\ BitOf(Xor(a, b), 1) = bit(1) /\ BitOf(Xor(a, b), 2) = bit(2)
      /\ BitOf(Xor(a, b), 4) = bit(4) /\ BitOf(Xor(a, b), 8) = bit(8)
      /\ BitOf(Xor(a, b), 16) = bit(16) /\ BitOf(Xor(a, b), 32) = bit(32)
      /\ BitOf(Xor(a, b), 64) = bit(64) /\ BitOf(Xor(a, b), 128) = bit(128)
  BY <1>1, <1>3, <1>4, BitsOfSum
<1>6. \A w \in Weights : BitOf(Xor(a, b), w) = bit(w)
  BY <1>5 DEF Weights
<1>7. QED
  BY <1>5, <1>6 DEF bit

(* Bytes with the same bits are the same. *)
LEMMA SameBits ==
    ASSUME NEW a \in Byte, NEW b \in Byte, \A w \in Weights : BitOf(a, w) = BitOf(b, w)
    PROVE  a = b
<1>1. /\ 1 \in Weights /\ 2 \in Weights /\ 4 \in Weights /\ 8 \in Weights
      /\ 16 \in Weights /\ 32 \in Weights /\ 64 \in Weights /\ 128 \in Weights
  BY DEF Weights
<1>2. QED
  BY <1>1, SumOfBits

(* What two registers, or two bytes, differ in is still there when the same *)
(* is added to both.                                                        *)
LEMMA XorCancels ==
    ASSUME NEW a \in Byte, NEW b \in Byte, NEW c \in Byte, b # c
    PROVE  Xor(a, b) # Xor(a, c) /\ Xor(b, a) # Xor(c, a)
<1>1. PICK w \in Weights : BitOf(b, w) # BitOf(c, w)
  BY SameBits
<1>2. /\ BitOf(a, w) \in {0, 1} /\ BitOf(b, w) \in {0, 1} /\ BitOf(c, w) \in {0, 1}
  BY SumOfBits
<1>3. /\ BitOf(Xor(a, b), w) # BitOf(Xor(a, c), w)
      /\ BitOf(Xor(b, a), w) # BitOf(Xor(c, a), w)
  BY <1>1, <1>2, XorBits
<1>4. QED
  BY <1>3

(* A clock doubles the register, or, when the top bit falls out, doubles    *)
(* what is left of it and inverts the low three bits.                       *)
LEMMA ShiftForm ==
    ASSUME NEW c \in Byte
    PROVE  Shift(c) = IF c < 128 THEN 2 * c ELSE 2 * c - 249 - 4 * (c % 4)
<1>1. CASE c < 128
  BY <1>1 DEF Shift, Byte
<1>2. CASE c >= 128
  <2> DEFINE d == (2 * c) % 256
  <2>1. d = 2 * c - 256 /\ d \in Byte
    BY <1>2 DEF Byte
  <2>2. Shift(c) = Xor(d, 7)
    BY <1>2 DEF Shift, Polynomial
  <2>3. /\ BitOf(d, 1) = 0 /\ BitOf(d, 2) = BitOf(c, 1) /\ BitOf(d, 4) = BitOf(c, 2)
    BY <2>1, <1>2 DEF Byte, BitOf
  <2>4. /\ BitOf(7, 1) = 1 /\ BitOf(7, 2) = 1 /\ BitOf(7, 4) = 1 /\ BitOf(7, 8) = 0
        /\ BitOf(7, 16) = 0 /\ BitOf(7, 32) = 0 /\ BitOf(7, 64) = 0 /\ BitOf(7, 128) = 0
    BY DEF BitOf
  <2>5. Xor(d, 7) = d + 7 - 2 * (d % 8)
    BY <2>1 DEF Xor, Byte
  <2>6. d % 8 = 2 * (c % 4)
    BY <2>1, <1>2 DEF Byte
  <2>7. QED
    BY <1>2, <2>1, <2>2, <2>5, <2>6 DEF Byte
<1>3. QED
  BY <1>1, <1>2 DEF Byte

(* Nothing is lost by it. *)
LEMMA ShiftKeeps ==
    /\ \A c \in Byte : Shift(c) \in Byte
    /\ \A c, d \in Byte : c # d => Shift(c) # Shift(d)
<1>1. \A c \in Byte : Shift(c) \in Byte
  BY ShiftForm DEF Byte
<1>2. \A b \in Byte : \E q \in 0..63, r \in 0..3 : b = 4 * q + r /\ b % 4 = r
  <2> SUFFICES ASSUME NEW b \in Byte
               PROVE  \E q \in 0..63, r \in 0..3 : b = 4 * q + r /\ b % 4 = r
    OBVIOUS
  <2>1. b \div 4 \in 0..63
    BY DEF Byte
  <2>2. b % 4 \in 0..3
    BY DEF Byte
  <2>3. b = 4 * (b \div 4) + (b % 4)
    <3>1. \A n \in Int : n = 4 * (n \div 4) + (n % 4)
      OBVIOUS
    <3>2. QED
      BY <3>1 DEF Byte
  <2> DEFINE q == b \div 4
             r == b % 4
  <2>4. q \in 0..63 /\ r \in 0..3 /\ b = 4 * q + r /\ b % 4 = r
    BY <2>1, <2>2, <2>3
  <2> HIDE DEF q, r
  <2>5. QED
    BY <2>4
<1>3. ASSUME NEW c \in Byte, NEW d \in Byte, c # d PROVE Shift(c) # Shift(d)
  <2>1. PICK p \in 0..63, r \in 0..3 : c = 4 * p + r /\ c % 4 = r
    BY <1>2
  <2>2. PICK q \in 0..63, s \in 0..3 : d = 4 * q + s /\ d % 4 = s
    BY <1>2
  <2>3. Shift(c) = IF c < 128 THEN 2 * c ELSE 8 * p - 2 * r - 249
    BY <2>1, ShiftForm
  <2>4. Shift(d) = IF d < 128 THEN 2 * d ELSE 8 * q - 2 * s - 249
    BY <2>2, ShiftForm
  <2>5. c \in Int /\ d \in Int
    BY DEF Byte
  <2>6. p # q \/ r # s
    BY <1>3, <2>1, <2>2
  <2>7. CASE c < 128 /\ d < 128
    BY <1>3, <2>3, <2>4, <2>5, <2>7
  <2>8. CASE c < 128 /\ ~(d < 128)
    BY <2>3, <2>4, <2>5, <2>8
  <2>9. CASE ~(c < 128) /\ d < 128
    BY <2>3, <2>4, <2>5, <2>9
  <2>10. CASE ~(c < 128) /\ ~(d < 128)
    BY <2>3, <2>4, <2>6, <2>10
  <2>11. QED
    BY <2>7, <2>8, <2>9, <2>10
<1>4. QED
  BY <1>1, <1>3

(* Nor by eight clocks. *)
LEMMA ClockedKeeps ==
    /\ \A c \in Byte : Clocked(c) \in Byte
    /\ \A c, d \in Byte : c # d => Clocked(c) # Clocked(d)
BY ShiftKeeps DEF Clocked

(* So registers that differ go on to differ over equal bytes, and equal     *)
(* registers differ after bytes that do.                                    *)
LEMMA UpdateKeeps ==
    ASSUME NEW c \in Byte, NEW d \in Byte, NEW a \in Byte, NEW b \in Byte
    PROVE  /\ Update(c, a) \in Byte
           /\ c # d => Update(c, a) # Update(d, a)
           /\ a # b => Update(c, a) # Update(c, b)
<1>1. Xor(c, a) \in Byte /\ Xor(d, a) \in Byte /\ Xor(c, b) \in Byte
  BY XorBits
<1>2. /\ c # d => Xor(c, a) # Xor(d, a)
      /\ a # b => Xor(c, a) # Xor(c, b)
  BY XorCancels
<1>3. QED
  BY <1>1, <1>2, ClockedKeeps DEF Update

-----------------------------------------------------------------------------
(* The parity of a register *)

(* How many of a byte's bits are set. *)
LEMMA OnesTyped == \A a \in Byte : Ones(a) \in 0..8
<1> SUFFICES ASSUME NEW a \in Byte PROVE Ones(a) \in 0..8
  OBVIOUS
<1>1. \A w \in Weights : BitOf(a, w) \in {0, 1}
  BY SumOfBits
<1>2. /\ 1 \in Weights /\ 2 \in Weights /\ 4 \in Weights /\ 8 \in Weights
      /\ 16 \in Weights /\ 32 \in Weights /\ 64 \in Weights /\ 128 \in Weights
  BY DEF Weights
<1>3. Ones(a) = BitOf(a, 1) + BitOf(a, 2) + BitOf(a, 4) + BitOf(a, 8) + BitOf(a, 16)
                + BitOf(a, 32) + BitOf(a, 64) + BitOf(a, 128)
  BY DEF Ones, BitOf
<1> HIDE DEF BitOf, Weights
<1>4. QED
  BY <1>1, <1>2, <1>3

(* Exclusive or adds the parities. *)
LEMMA ParityOfXor ==
    ASSUME NEW a \in Byte, NEW b \in Byte
    PROVE  Ones(Xor(a, b)) % 2 = (Ones(a) + Ones(b)) % 2
<1> DEFINE x == Xor(a, b)
<1>1. /\ \A w \in Weights : BitOf(a, w) \in {0, 1} /\ BitOf(b, w) \in {0, 1}
      /\ \A w \in Weights : BitOf(x, w) = (BitOf(a, w) + BitOf(b, w)) % 2
  BY SumOfBits, XorBits
<1>2. /\ 1 \in Weights /\ 2 \in Weights /\ 4 \in Weights /\ 8 \in Weights
      /\ 16 \in Weights /\ 32 \in Weights /\ 64 \in Weights /\ 128 \in Weights
  BY DEF Weights
<1> HIDE DEF x
<1>3. \A w \in Weights : \E carry \in {0, 1} :
          BitOf(a, w) + BitOf(b, w) = BitOf(x, w) + 2 * carry
  <2>1. \A m, n \in {0, 1} : \E carry \in {0, 1} : m + n = ((m + n) % 2) + 2 * carry
    OBVIOUS
  <2>2. QED
    BY <1>1, <2>1
<1>4. \A c \in {a, b, x} :
          Ones(c) = BitOf(c, 1) + BitOf(c, 2) + BitOf(c, 4) + BitOf(c, 8) + BitOf(c, 16)
                    + BitOf(c, 32) + BitOf(c, 64) + BitOf(c, 128)
  BY DEF Ones, BitOf
<1>5. \E k \in 0..8 : Ones(a) + Ones(b) = Ones(x) + 2 * k
  <2>1. PICK k1 \in {0, 1} : BitOf(a, 1) + BitOf(b, 1) = BitOf(x, 1) + 2 * k1
    BY <1>2, <1>3
  <2>2. PICK k2 \in {0, 1} : BitOf(a, 2) + BitOf(b, 2) = BitOf(x, 2) + 2 * k2
    BY <1>2, <1>3
  <2>3. PICK k3 \in {0, 1} : BitOf(a, 4) + BitOf(b, 4) = BitOf(x, 4) + 2 * k3
    BY <1>2, <1>3
  <2>4. PICK k4 \in {0, 1} : BitOf(a, 8) + BitOf(b, 8) = BitOf(x, 8) + 2 * k4
    BY <1>2, <1>3
  <2>5. PICK k5 \in {0, 1} : BitOf(a, 16) + BitOf(b, 16) = BitOf(x, 16) + 2 * k5
    BY <1>2, <1>3
  <2>6. PICK k6 \in {0, 1} : BitOf(a, 32) + BitOf(b, 32) = BitOf(x, 32) + 2 * k6
    BY <1>2, <1>3
  <2>7. PICK k7 \in {0, 1} : BitOf(a, 64) + BitOf(b, 64) = BitOf(x, 64) + 2 * k7
    BY <1>2, <1>3
  <2>8. PICK k8 \in {0, 1} : BitOf(a, 128) + BitOf(b, 128) = BitOf(x, 128) + 2 * k8
    BY <1>2, <1>3
  <2>9. k1 + k2 + k3 + k4 + k5 + k6 + k7 + k8 \in 0..8
    OBVIOUS
  <2>10. \A c \in {a, b, x} : \A w \in Weights : BitOf(c, w) \in {0, 1}
    <3>1. \A m, n \in {0, 1} : (m + n) % 2 \in {0, 1}
      OBVIOUS
    <3>2. QED
      BY <1>1, <3>1
  <2>11. \A c \in {a, b, x} :
             /\ BitOf(c, 1) \in {0, 1} /\ BitOf(c, 2) \in {0, 1} /\ BitOf(c, 4) \in {0, 1}
             /\ BitOf(c, 8) \in {0, 1} /\ BitOf(c, 16) \in {0, 1} /\ BitOf(c, 32) \in {0, 1}
             /\ BitOf(c, 64) \in {0, 1} /\ BitOf(c, 128) \in {0, 1}
    BY <1>2, <2>10
  <2>12. Ones(a) + Ones(b) = Ones(x) + 2 * (k1 + k2 + k3 + k4 + k5 + k6 + k7 + k8)
    <3> DEFINE ones(c) == BitOf(c, 1) + BitOf(c, 2) + BitOf(c, 4) + BitOf(c, 8) + BitOf(c, 16)
                          + BitOf(c, 32) + BitOf(c, 64) + BitOf(c, 128)
    <3>1. Ones(a) = ones(a) /\ Ones(b) = ones(b) /\ Ones(x) = ones(x)
      BY <1>4
    <3>2. ASSUME NEW c \in {a, b, x}
          PROVE  /\ BitOf(c, 1) \in Int /\ BitOf(c, 2) \in Int /\ BitOf(c, 4) \in Int
                 /\ BitOf(c, 8) \in Int /\ BitOf(c, 16) \in Int /\ BitOf(c, 32) \in Int
                 /\ BitOf(c, 64) \in Int /\ BitOf(c, 128) \in Int
      BY <2>11
    <3>3. ones(a) + ones(b) = ones(x) + 2 * (k1 + k2 + k3 + k4 + k5 + k6 + k7 + k8)
      <4>1. /\ a \in {a, b, x} /\ b \in {a, b, x} /\ x \in {a, b, x}
        OBVIOUS
      <4>2. /\ BitOf(a, 1) \in Int /\ BitOf(a, 2) \in Int /\ BitOf(a, 4) \in Int
            /\ BitOf(a, 8) \in Int /\ BitOf(a, 16) \in Int /\ BitOf(a, 32) \in Int
            /\ BitOf(a, 64) \in Int /\ BitOf(a, 128) \in Int
        BY <3>2, <4>1, Zenon
      <4>3. /\ BitOf(b, 1) \in Int /\ BitOf(b, 2) \in Int /\ BitOf(b, 4) \in Int
            /\ BitOf(b, 8) \in Int /\ BitOf(b, 16) \in Int /\ BitOf(b, 32) \in Int
            /\ BitOf(b, 64) \in Int /\ BitOf(b, 128) \in Int
        BY <3>2, <4>1, Zenon
      <4>4. /\ BitOf(x, 1) \in Int /\ BitOf(x, 2) \in Int /\ BitOf(x, 4) \in Int
            /\ BitOf(x, 8) \in Int /\ BitOf(x, 16) \in Int /\ BitOf(x, 32) \in Int
            /\ BitOf(x, 64) \in Int /\ BitOf(x, 128) \in Int
        BY <3>2, <4>1, Zenon
      <4>5. /\ k1 \in Int /\ k2 \in Int /\ k3 \in Int /\ k4 \in Int
            /\ k5 \in Int /\ k6 \in Int /\ k7 \in Int /\ k8 \in Int
        OBVIOUS
      <4> DEFINE low(c)  == BitOf(c, 1) + BitOf(c, 2) + BitOf(c, 4) + BitOf(c, 8)
                 high(c) == BitOf(c, 16) + BitOf(c, 32) + BitOf(c, 64) + BitOf(c, 128)
      <4>6. low(a) + low(b) = low(x) + 2 * (k1 + k2 + k3 + k4)
        BY <2>1, <2>2, <2>3, <2>4, <4>2, <4>3, <4>4, <4>5
      <4>7. high(a) + high(b) = high(x) + 2 * (k5 + k6 + k7 + k8)
        BY <2>5, <2>6, <2>7, <2>8, <4>2, <4>3, <4>4, <4>5
      <4>8. ones(a) = low(a) + high(a) /\ ones(b) = low(b) + high(b) /\ ones(x) = low(x) + high(x)
        BY <4>2, <4>3, <4>4
      <4>9. /\ low(a) \in Int /\ low(b) \in Int /\ low(x) \in Int
            /\ high(a) \in Int /\ high(b) \in Int /\ high(x) \in Int
        BY <4>2, <4>3, <4>4
      <4> HIDE DEF low, high, ones
      <4>10. QED
        BY <4>5, <4>6, <4>7, <4>8, <4>9
    <3>4. QED
      BY <3>1, <3>3
  <2>13. QED
    BY <2>9, <2>12
<1>6. Ones(a) \in 0..8 /\ Ones(b) \in 0..8 /\ Ones(x) \in 0..8
  BY OnesTyped, XorBits DEF x
<1>7. QED
  BY <1>5, <1>6 DEF x

(* Two of the low three bits and the one that falls out are three: with one *)
(* bit less and three inverted, a clock keeps the parity.                   *)
LEMMA ParityOfShift == \A c \in Byte : Ones(Shift(c)) % 2 = Ones(c) % 2
<1> SUFFICES ASSUME NEW c \in Byte PROVE Ones(Shift(c)) % 2 = Ones(c) % 2
  OBVIOUS
<1> DEFINE d == (2 * c) % 256
<1>1. d \in Byte /\ (c < 128 => d = 2 * c) /\ (c >= 128 => d = 2 * c - 256)
  BY DEF Byte
<1>2. /\ BitOf(d, 1) = 0 /\ BitOf(d, 2) = BitOf(c, 1) /\ BitOf(d, 4) = BitOf(c, 2)
      /\ BitOf(d, 8) = BitOf(c, 4) /\ BitOf(d, 16) = BitOf(c, 8)
      /\ BitOf(d, 32) = BitOf(c, 16) /\ BitOf(d, 64) = BitOf(c, 32)
      /\ BitOf(d, 128) = BitOf(c, 64)
      /\ BitOf(c, 128) = IF c < 128 THEN 0 ELSE 1
  BY <1>1 DEF BitOf, Byte
<1> HIDE DEF d
<1>3. \A b \in {c, d} :
          Ones(b) = BitOf(b, 1) + BitOf(b, 2) + BitOf(b, 4) + BitOf(b, 8) + BitOf(b, 16)
                    + BitOf(b, 32) + BitOf(b, 64) + BitOf(b, 128)
  BY DEF Ones, BitOf
<1>4. /\ BitOf(c, 1) \in {0, 1} /\ BitOf(c, 2) \in {0, 1} /\ BitOf(c, 4) \in {0, 1}
      /\ BitOf(c, 8) \in {0, 1} /\ BitOf(c, 16) \in {0, 1} /\ BitOf(c, 32) \in {0, 1}
      /\ BitOf(c, 64) \in {0, 1}
  BY SumOfBits DEF Weights
<1>5. Ones(c) = Ones(d) + (IF c < 128 THEN 0 ELSE 1)
  BY <1>2, <1>3, <1>4
<1>6. Ones(c) \in 0..8 /\ Ones(d) \in 0..8
  BY <1>1, OnesTyped
<1>7. CASE c < 128
  <2>1. Shift(c) = d
    BY <1>1, <1>7 DEF Shift, Byte
  <2>2. QED
    BY <1>5, <1>6, <1>7, <2>1
<1>8. CASE c >= 128
  <2>1. Shift(c) = Xor(d, 7) /\ 7 \in Byte
    BY <1>8 DEF Shift, Polynomial, d, Byte
  <2>2. Ones(7) = 3
    BY DEF Ones
  <2>3. Ones(Xor(d, 7)) % 2 = (Ones(d) + 3) % 2
    BY <1>1, <2>1, <2>2, ParityOfXor
  <2>4. (Ones(d) + 3) % 2 = (Ones(d) + 1) % 2
    BY <1>6
  <2>5. QED
    BY <1>5, <1>8, <2>1, <2>3, <2>4 DEF Byte
<1>9. QED
  BY <1>7, <1>8 DEF Byte

(* So a byte is taken in with its parity. *)
LEMMA ParityOfUpdate ==
    ASSUME NEW c \in Byte, NEW a \in Byte
    PROVE  Ones(Update(c, a)) % 2 = (Ones(c) + Ones(a)) % 2
<1>1. Xor(c, a) \in Byte
  BY XorBits
<1>2. \A r \in Byte : Ones(Clocked(r)) % 2 = Ones(r) % 2
  BY ParityOfShift, ShiftKeeps DEF Clocked
<1>3. QED
  BY <1>1, <1>2, ParityOfXor DEF Update

-----------------------------------------------------------------------------
(* A phase and its CRC *)

(* The registers are equal as long as nothing came over changed, and not if *)
(* one byte did, wherever; and the parity of what they differ in is that of *)
(* what the wire has inverted.                                              *)
Register ==
    place # "over" =>
        /\ damaged = 0 => laid = mCrc
        /\ damaged = 1 => laid # mCrc
        /\ odd = ((Ones(laid) + Ones(mCrc)) % 2 = 1)

PhaseInv == PhaseTypeOK /\ Register /\ FieldTells /\ OddDamageShows

(* What is seen of a byte is a byte. *)
LEMMA SeenTyped ==
    ASSUME NEW sent \in Byte, NEW seen \in Seen(sent)
    PROVE  seen \in Byte
BY PhaseAssumption, XorBits DEF Seen

(* As is what a sender lays down. *)
LEMMA ContentsTyped ==
    ASSUME NEW sent \in Contents, NEW seen \in Seen(sent)
    PROVE  sent \in Byte /\ seen \in Byte
BY PhaseAssumption, SeenTyped

(* The history of a byte. *)
LEMMA ComparedTyped ==
    ASSUME PhaseTypeOK, NEW sent, NEW seen, Compared(sent, seen)
    PROVE  damaged' \in 0..Several /\ odd' \in BOOLEAN
BY DEF PhaseTypeOK, Compared, Several

(* A covered byte keeps both registers in step, and out of step. *)
LEMMA ReadKeeps ==
    ASSUME PhaseInv, place # "over", NEW sent \in Byte, NEW seen \in Byte, Read(sent, seen),
           place' = "body"
    PROVE  PhaseInv'
<1>1. /\ laid \in Byte /\ mCrc \in Byte /\ damaged \in {0, 1, 2} /\ odd \in BOOLEAN
      /\ damaged = 0 => laid = mCrc
      /\ damaged = 1 => laid # mCrc
      /\ odd = ((Ones(laid) + Ones(mCrc)) % 2 = 1)
  BY DEF PhaseInv, PhaseTypeOK, Register, Several
<1>2. /\ laid' = Update(laid, sent) /\ mCrc' = Update(mCrc, seen)
      /\ damaged' = IF seen = sent THEN damaged ELSE IF damaged = 0 THEN 1 ELSE 2
      /\ odd' = (odd # (Ones(Xor(sent, seen)) % 2 = 1))
  BY DEF Read, Compared, Several
<1>3. laid' \in Byte /\ mCrc' \in Byte
  BY <1>1, <1>2, UpdateKeeps
<1>4. PhaseTypeOK'
  <2>1. damaged' \in 0..Several /\ odd' \in BOOLEAN
    BY ComparedTyped DEF PhaseInv, Read
  <2>2. phaseOf' = phaseOf /\ field' = field
    BY DEF Read
  <2>3. QED
    BY <1>3, <2>1, <2>2 DEF PhaseInv, PhaseTypeOK
<1>5. damaged' = 0 => laid' = mCrc'
  BY <1>1, <1>2
<1>6. damaged' = 1 => laid' # mCrc'
  <2>1. CASE seen = sent
    BY <1>1, <1>2, <2>1, UpdateKeeps
  <2>2. CASE seen # sent
    BY <1>1, <1>2, <2>2, UpdateKeeps
  <2>3. QED
    BY <2>1, <2>2
<1>7. odd' = ((Ones(laid') + Ones(mCrc')) % 2 = 1)
  <2>1. /\ Ones(laid') % 2 = (Ones(laid) + Ones(sent)) % 2
        /\ Ones(mCrc') % 2 = (Ones(mCrc) + Ones(seen)) % 2
    BY <1>1, <1>2, ParityOfUpdate
  <2>2. Ones(Xor(sent, seen)) % 2 = (Ones(sent) + Ones(seen)) % 2
    BY ParityOfXor
  <2>3. /\ Ones(laid) \in Nat /\ Ones(mCrc) \in Nat /\ Ones(laid') \in Nat
        /\ Ones(mCrc') \in Nat /\ Ones(sent) \in Nat /\ Ones(seen) \in Nat
    BY <1>1, <1>3, OnesTyped
  <2>4. \A l, m, s, t, l2, m2 \in Nat :
            l2 % 2 = (l + s) % 2 /\ m2 % 2 = (m + t) % 2
            => ((l2 + m2) % 2 = 1) = (((l + m) % 2 = 1) # ((s + t) % 2 = 1))
    OBVIOUS
  <2>5. ((Ones(laid') + Ones(mCrc')) % 2 = 1)
            = (((Ones(laid) + Ones(mCrc)) % 2 = 1) # ((Ones(sent) + Ones(seen)) % 2 = 1))
    BY <2>1, <2>3, <2>4
  <2>6. QED
    BY <1>1, <1>2, <2>2, <2>5
<1>8. Register'
  BY <1>5, <1>6, <1>7 DEF Register
<1>9. FieldTells' /\ OddDamageShows'
  BY DEF FieldTells, OddDamageShows
<1>10. QED
  BY <1>4, <1>8, <1>9 DEF PhaseInv

(* The sender's register on the wire, and the reader's to compare it with.  *)
LEMMA ReadCrcKeeps ==
    ASSUME PhaseInv, NEW seen \in Byte, ReadCrc(seen)
    PROVE  PhaseInv'
<1>1. /\ laid \in Byte /\ mCrc \in Byte /\ damaged \in {0, 1, 2} /\ odd \in BOOLEAN
      /\ damaged = 0 => laid = mCrc
      /\ damaged = 1 => laid # mCrc
      /\ odd = ((Ones(laid) + Ones(mCrc)) % 2 = 1)
  BY DEF PhaseInv, PhaseTypeOK, Register, Several, ReadCrc
<1>2. /\ place' = "over" /\ laid' = laid /\ mCrc' = mCrc /\ phaseOf' = phaseOf
      /\ field' = IF seen = mCrc THEN "ok" ELSE "BAD"
      /\ damaged' = IF seen = laid THEN damaged ELSE IF damaged = 0 THEN 1 ELSE 2
      /\ odd' = (odd # (Ones(Xor(laid, seen)) % 2 = 1))
  BY DEF ReadCrc, Compared, CrcField, Several
<1>3. PhaseTypeOK'
  <2>1. damaged' \in 0..Several /\ odd' \in BOOLEAN
    BY ComparedTyped DEF PhaseInv, ReadCrc
  <2>2. QED
    BY <1>2, <2>1 DEF PhaseInv, PhaseTypeOK
<1>4. FieldTells'
  BY <1>1, <1>2 DEF FieldTells, Several
<1>5. OddDamageShows'
  <2> SUFFICES ASSUME odd', seen = mCrc PROVE FALSE
    BY <1>2 DEF OddDamageShows
  <2>1. Ones(Xor(laid, seen)) % 2 = (Ones(laid) + Ones(mCrc)) % 2
    BY <1>1, ParityOfXor
  <2>2. QED
    BY <1>1, <1>2, <2>1
<1>6. Register'
  BY <1>2 DEF Register
<1>7. QED
  BY <1>3, <1>4, <1>5, <1>6 DEF PhaseInv

-----------------------------------------------------------------------------
(* The CRCs of the script *)

(* A set of numbers that is not empty has a least one. *)
LEMMA SmallestOf ==
    ASSUME NEW T, T \subseteq Nat, T # {}
    PROVE  \E x \in T : \A y \in T : x <= y
<1> DEFINE Less == {ss \in Nat \X Nat : ss[1] < ss[2]}
<1>1. IsWellFoundedOn(Less, Nat)
  BY NatLessThanWellFounded, Zenon DEF OpToRel
<1>2. \A x, y \in Nat : y < x => <<y, x>> \in Less
  OBVIOUS
<1> HIDE DEF Less
<1>3. PICK x \in T : \A y \in T : ~ (<<y, x>> \in Less)
  BY <1>1, WFMin
<1>4. \A y \in T : ~ (y < x)
  BY <1>2, <1>3, Zenon
<1>5. QED
  BY <1>4

(* The registers after each byte of a sequence are what the recursion says. *)
LEMMA RegisterSteps ==
    ASSUME NEW bytes, Len(bytes) \in Nat
    PROVE  /\ Registers(bytes)[0] = 0
           /\ \A n \in 1..Len(bytes) :
                  Registers(bytes)[n] = Update(Registers(bytes)[n - 1], bytes[n])
<1> DEFINE N == Len(bytes)
           Steps(f, m) == f = [n \in 0..m |-> IF n = 0 THEN Seed ELSE Update(f[n - 1], bytes[n])]
           Without == {m \in 0..N : \A f : ~Steps(f, m)}
<1>1. 0 \notin Without
  <2> DEFINE f == [n \in 0..0 |-> Seed]
  <2>1. Steps(f, 0)
    OBVIOUS
  <2>2. QED
    BY <2>1
<1>2. ASSUME NEW m \in 0..N, m + 1 \in 0..N, NEW f, Steps(f, m)
      PROVE  \E g : Steps(g, m + 1)
  <2> DEFINE g == [n \in 0..m + 1 |-> IF n = m + 1 THEN Update(f[m], bytes[m + 1]) ELSE f[n]]
  <2>1. \A n \in 0..m : g[n] = f[n]
    OBVIOUS
  <2>2. \A n \in 0..m : f[n] = IF n = 0 THEN Seed ELSE Update(f[n - 1], bytes[n])
    BY <1>2
  <2>3. \A n \in 0..m + 1 : g[n] = IF n = 0 THEN Seed ELSE Update(g[n - 1], bytes[n])
    <3> SUFFICES ASSUME NEW n \in 0..m + 1
                 PROVE  g[n] = IF n = 0 THEN Seed ELSE Update(g[n - 1], bytes[n])
      OBVIOUS
    <3>1. CASE n = 0
      BY <2>1, <2>2, <3>1
    <3>2. CASE n \in 1..m
      <4>1. n \in 0..m /\ n - 1 \in 0..m /\ n # 0
        BY <3>2
      <4> HIDE DEF g
      <4>2. QED
        BY <2>1, <2>2, <4>1
    <3>3. CASE n = m + 1
      <4>1. g[n] = Update(f[m], bytes[m + 1]) /\ n - 1 = m /\ m \in 0..m /\ n # 0
        BY <3>3
      <4> HIDE DEF g
      <4>2. QED
        BY <2>1, <3>3, <4>1
    <3>4. QED
      BY <3>1, <3>2, <3>3
  <2>4. Steps(g, m + 1)
    <3>1. g = [n \in 0..m + 1 |-> g[n]]
      OBVIOUS
    <3> HIDE DEF g
    <3>2. QED
      BY <2>3, <3>1
  <2>5. QED
    BY <2>4
<1> HIDE DEF Steps
<1>3. Without = {}
  <2> SUFFICES ASSUME Without # {} PROVE FALSE
    OBVIOUS
  <2>1. PICK m \in Without : \A y \in Without : m <= y
    <3>1. Without \subseteq Nat
      OBVIOUS
    <3> HIDE DEF Without
    <3>2. QED
      BY <3>1, SmallestOf
  <2>2. m # 0 /\ m \in 0..N /\ m - 1 \in 0..N /\ m - 1 \notin Without /\ m = (m - 1) + 1
    BY <1>1, <2>1
  <2>3. PICK f : Steps(f, m - 1)
    BY <2>2
  <2>4. \E g : Steps(g, (m - 1) + 1)
    BY <1>2, <2>2, <2>3
  <2>5. QED
    BY <2>1, <2>2, <2>4
<1>4. Steps(Registers(bytes), N)
  <2>1. \E f : Steps(f, N)
    BY <1>3
  <2>2. Steps(CHOOSE f : Steps(f, N), N)
    BY <2>1
  <2>3. QED
    BY <2>2 DEF Registers, Steps
<1>5. QED
  BY <1>4 DEF Steps, Seed

(* The register, clocked through, for each value the literal bytes bring it *)
(* to.                                                                      *)
LEMMA ClockedTable ==
    /\ Clocked(1) = 7 /\ Clocked(4) = 28 /\ Clocked(5) = 27 /\ Clocked(6) = 18
    /\ Clocked(7) = 21 /\ Clocked(8) = 56 /\ Clocked(26) = 70 /\ Clocked(29) = 83
    /\ Clocked(31) = 93 /\ Clocked(33) = 231 /\ Clocked(34) = 238 /\ Clocked(39) = 245
    /\ Clocked(40) = 216 /\ Clocked(55) = 133 /\ Clocked(56) = 168 /\ Clocked(71) = 210
    /\ Clocked(75) = 246 /\ Clocked(79) = 234 /\ Clocked(83) = 190 /\ Clocked(96) = 39
    /\ Clocked(103) = 50 /\ Clocked(116) = 75 /\ Clocked(132) = 149
    /\ Clocked(134) = 155 /\ Clocked(135) = 156 /\ Clocked(139) = 184
    /\ Clocked(140) = 173 /\ Clocked(147) = 240 /\ Clocked(148) = 229
    /\ Clocked(153) = 198 /\ Clocked(155) = 200 /\ Clocked(162) = 103
    /\ Clocked(163) = 96 /\ Clocked(164) = 117 /\ Clocked(173) = 74 /\ Clocked(177) = 30
    /\ Clocked(180) = 5 /\ Clocked(190) = 51 /\ Clocked(194) = 64 /\ Clocked(217) = 1
    /\ Clocked(228) = 178 /\ Clocked(231) = 187 /\ Clocked(232) = 150
    /\ Clocked(233) = 145 /\ Clocked(235) = 159 /\ Clocked(238) = 132
    /\ Clocked(241) = 217 /\ Clocked(250) = 232
<1>1. /\ Clocked(1) = 7 /\ Clocked(4) = 28 /\ Clocked(5) = 27 /\ Clocked(6) = 18
  BY ShiftForm DEF Clocked, Byte
<1>2. /\ Clocked(7) = 21 /\ Clocked(8) = 56 /\ Clocked(26) = 70 /\ Clocked(29) = 83
  BY ShiftForm DEF Clocked, Byte
<1>3. /\ Clocked(31) = 93 /\ Clocked(33) = 231 /\ Clocked(34) = 238 /\ Clocked(39) = 245
  BY ShiftForm DEF Clocked, Byte
<1>4. /\ Clocked(40) = 216 /\ Clocked(55) = 133 /\ Clocked(56) = 168
      /\ Clocked(71) = 210
  BY ShiftForm DEF Clocked, Byte
<1>5. /\ Clocked(75) = 246 /\ Clocked(79) = 234 /\ Clocked(83) = 190 /\ Clocked(96) = 39
  BY ShiftForm DEF Clocked, Byte
<1>6. /\ Clocked(103) = 50 /\ Clocked(116) = 75 /\ Clocked(132) = 149
      /\ Clocked(134) = 155
  BY ShiftForm DEF Clocked, Byte
<1>7. /\ Clocked(135) = 156 /\ Clocked(139) = 184 /\ Clocked(140) = 173
      /\ Clocked(147) = 240
  BY ShiftForm DEF Clocked, Byte
<1>8. /\ Clocked(148) = 229 /\ Clocked(153) = 198 /\ Clocked(155) = 200
      /\ Clocked(162) = 103
  BY ShiftForm DEF Clocked, Byte
<1>9. /\ Clocked(163) = 96 /\ Clocked(164) = 117 /\ Clocked(173) = 74
      /\ Clocked(177) = 30
  BY ShiftForm DEF Clocked, Byte
<1>10. /\ Clocked(180) = 5 /\ Clocked(190) = 51 /\ Clocked(194) = 64 /\ Clocked(217) = 1
  BY ShiftForm DEF Clocked, Byte
<1>11. /\ Clocked(228) = 178 /\ Clocked(231) = 187 /\ Clocked(232) = 150
       /\ Clocked(233) = 145
  BY ShiftForm DEF Clocked, Byte
<1>12. /\ Clocked(235) = 159 /\ Clocked(238) = 132 /\ Clocked(241) = 217
       /\ Clocked(250) = 232
  BY ShiftForm DEF Clocked, Byte
<1>13. QED
  BY <1>1, <1>2, <1>3, <1>4, <1>5, <1>6, <1>7, <1>8, <1>9, <1>10, <1>11, <1>12

(* And what they are to it, byte by byte. *)
LEMMA UpdateTable ==
    /\ Update(0, 5) = 27 /\ Update(0, 8) = 56 /\ Update(0, 33) = 231
    /\ Update(0, 34) = 238 /\ Update(1, 0) = 7 /\ Update(5, 1) = 28 /\ Update(7, 0) = 21
    /\ Update(18, 139) = 198 /\ Update(21, 15) = 70 /\ Update(28, 1) = 83
    /\ Update(30, 1) = 93 /\ Update(39, 0) = 245 /\ Update(50, 52) = 18
    /\ Update(56, 0) = 168 /\ Update(56, 15) = 133 /\ Update(56, 16) = 216
    /\ Update(64, 15) = 234 /\ Update(70, 1) = 210 /\ Update(74, 25) = 190
    /\ Update(74, 136) = 64 /\ Update(75, 0) = 246 /\ Update(83, 0) = 190
    /\ Update(96, 0) = 39 /\ Update(103, 0) = 50 /\ Update(117, 1) = 75
    /\ Update(132, 8) = 173 /\ Update(132, 32) = 117 /\ Update(132, 48) = 5
    /\ Update(133, 1) = 149 /\ Update(150, 16) = 155 /\ Update(150, 17) = 156
    /\ Update(155, 15) = 229 /\ Update(156, 15) = 240 /\ Update(168, 5) = 74
    /\ Update(168, 11) = 96 /\ Update(168, 64) = 150 /\ Update(173, 15) = 103
    /\ Update(187, 32) = 200 /\ Update(187, 48) = 184 /\ Update(190, 0) = 51
    /\ Update(190, 15) = 30 /\ Update(216, 1) = 1 /\ Update(217, 0) = 1
    /\ Update(229, 1) = 178 /\ Update(231, 0) = 187 /\ Update(232, 1) = 145
    /\ Update(234, 1) = 159 /\ Update(238, 0) = 132 /\ Update(240, 1) = 217
    /\ Update(245, 15) = 232 /\ Update(246, 7) = 217
<1>1. /\ Update(0, 5) = 27 /\ Update(0, 8) = 56 /\ Update(0, 33) = 231
      /\ Update(0, 34) = 238 /\ Update(1, 0) = 7 /\ Update(5, 1) = 28
  <2>1. /\ Xor(0, 5) = 5 /\ Xor(0, 8) = 8 /\ Xor(0, 33) = 33 /\ Xor(0, 34) = 34
        /\ Xor(1, 0) = 1 /\ Xor(5, 1) = 4
    BY DEF Xor
  <2>2. QED
    BY <2>1, ClockedTable DEF Update
<1>2. /\ Update(7, 0) = 21 /\ Update(18, 139) = 198 /\ Update(21, 15) = 70
      /\ Update(28, 1) = 83 /\ Update(30, 1) = 93 /\ Update(39, 0) = 245
  <2>1. /\ Xor(7, 0) = 7 /\ Xor(18, 139) = 153 /\ Xor(21, 15) = 26 /\ Xor(28, 1) = 29
        /\ Xor(30, 1) = 31 /\ Xor(39, 0) = 39
    BY DEF Xor
  <2>2. QED
    BY <2>1, ClockedTable DEF Update
<1>3. /\ Update(50, 52) = 18 /\ Update(56, 0) = 168 /\ Update(56, 15) = 133
      /\ Update(56, 16) = 216 /\ Update(64, 15) = 234 /\ Update(70, 1) = 210
  <2>1. /\ Xor(50, 52) = 6 /\ Xor(56, 0) = 56 /\ Xor(56, 15) = 55 /\ Xor(56, 16) = 40
        /\ Xor(64, 15) = 79 /\ Xor(70, 1) = 71
    BY DEF Xor
  <2>2. QED
    BY <2>1, ClockedTable DEF Update
<1>4. /\ Update(74, 25) = 190 /\ Update(74, 136) = 64 /\ Update(75, 0) = 246
      /\ Update(83, 0) = 190 /\ Update(96, 0) = 39 /\ Update(103, 0) = 50
  <2>1. /\ Xor(74, 25) = 83 /\ Xor(74, 136) = 194 /\ Xor(75, 0) = 75 /\ Xor(83, 0) = 83
        /\ Xor(96, 0) = 96 /\ Xor(103, 0) = 103
    BY DEF Xor
  <2>2. QED
    BY <2>1, ClockedTable DEF Update
<1>5. /\ Update(117, 1) = 75 /\ Update(132, 8) = 173 /\ Update(132, 32) = 117
      /\ Update(132, 48) = 5 /\ Update(133, 1) = 149 /\ Update(150, 16) = 155
  <2>1. /\ Xor(117, 1) = 116 /\ Xor(132, 8) = 140 /\ Xor(132, 32) = 164
        /\ Xor(132, 48) = 180 /\ Xor(133, 1) = 132 /\ Xor(150, 16) = 134
    BY DEF Xor
  <2>2. QED
    BY <2>1, ClockedTable DEF Update
<1>6. /\ Update(150, 17) = 156 /\ Update(155, 15) = 229 /\ Update(156, 15) = 240
      /\ Update(168, 5) = 74 /\ Update(168, 11) = 96 /\ Update(168, 64) = 150
  <2>1. /\ Xor(150, 17) = 135 /\ Xor(155, 15) = 148 /\ Xor(156, 15) = 147
        /\ Xor(168, 5) = 173 /\ Xor(168, 11) = 163 /\ Xor(168, 64) = 232
    BY DEF Xor
  <2>2. QED
    BY <2>1, ClockedTable DEF Update
<1>7. /\ Update(173, 15) = 103 /\ Update(187, 32) = 200 /\ Update(187, 48) = 184
      /\ Update(190, 0) = 51 /\ Update(190, 15) = 30 /\ Update(216, 1) = 1
  <2>1. /\ Xor(173, 15) = 162 /\ Xor(187, 32) = 155 /\ Xor(187, 48) = 139
        /\ Xor(190, 0) = 190 /\ Xor(190, 15) = 177 /\ Xor(216, 1) = 217
    BY DEF Xor
  <2>2. QED
    BY <2>1, ClockedTable DEF Update
<1>8. /\ Update(217, 0) = 1 /\ Update(229, 1) = 178 /\ Update(231, 0) = 187
      /\ Update(232, 1) = 145 /\ Update(234, 1) = 159 /\ Update(238, 0) = 132
  <2>1. /\ Xor(217, 0) = 217 /\ Xor(229, 1) = 228 /\ Xor(231, 0) = 231
        /\ Xor(232, 1) = 233 /\ Xor(234, 1) = 235 /\ Xor(238, 0) = 238
    BY DEF Xor
  <2>2. QED
    BY <2>1, ClockedTable DEF Update
<1>9. /\ Update(240, 1) = 217 /\ Update(245, 15) = 232 /\ Update(246, 7) = 217
  <2>1. /\ Xor(240, 1) = 241 /\ Xor(245, 15) = 250 /\ Xor(246, 7) = 241
    BY DEF Xor
  <2>2. QED
    BY <2>1, ClockedTable DEF Update
<1>10. QED
  BY <1>1, <1>2, <1>3, <1>4, <1>5, <1>6, <1>7, <1>8, <1>9

(* What a phase's CRC is computed of, without the CRC. *)
LEMMA CrcSteps ==
    ASSUME NEW bytes \in Seq(Byte), bytes # << >>
    PROVE  /\ Compute(Front(bytes)) = Registers(Front(bytes))[Len(bytes) - 1]
           /\ Registers(Front(bytes))[0] = 0
           /\ \A n \in 1..Len(bytes) - 1 :
                  Registers(Front(bytes))[n] = Update(Registers(Front(bytes))[n - 1], bytes[n])
<1>1. /\ Len(Front(bytes)) = Len(bytes) - 1 /\ Len(bytes) - 1 \in Nat
      /\ \A n \in 1..Len(bytes) - 1 : Front(bytes)[n] = bytes[n]
  <2>1. Len(bytes) \in Nat /\ Len(bytes) > 0
    OBVIOUS
  <2>2. Front(bytes) = [n \in 1..Len(bytes) - 1 |-> bytes[n]]
    BY <2>1 DEF Front
  <2>3. QED
    BY <2>1, <2>2
<1>2. QED
  BY <1>1, RegisterSteps DEF Compute

(* The length of a phase of no element, of one, and of two. *)
LEMMA SizeOfPhase ==
    ASSUME NEW elements, NEW bytes
    PROVE  /\ Len(elements) = 0 => PhaseBytes(elements, bytes) = 1
           /\ Len(elements) = 1 =>
                  PhaseBytes(elements, bytes) = 1 + ElementSize(elements[1], bytes[2])
           /\ Len(elements) = 2 =>
                  LET one == 1 + ElementSize(elements[1], bytes[2])
                  IN  PhaseBytes(elements, bytes) = one + ElementSize(elements[2], bytes[one + 1])
<1> DEFINE Sizes(f, N) ==
               f = [n \in 0..N |->
                        IF n = 0 THEN 1
                        ELSE f[n - 1] + ElementSize(elements[n], bytes[f[n - 1] + 1])]
           one == 1 + ElementSize(elements[1], bytes[1 + 1])
           two == one + ElementSize(elements[2], bytes[one + 1])
<1>1. Sizes([n \in 0..0 |-> 1], 0)
  OBVIOUS
<1>2. Sizes([n \in 0..1 |-> IF n = 0 THEN 1 ELSE one], 1)
  <2> DEFINE g == [n \in 0..1 |-> IF n = 0 THEN 1 ELSE one]
  <2> HIDE DEF one
  <2>1. g[0] = 1 /\ g[1] = one
    OBVIOUS
  <2>2. g = [n \in 0..1 |-> IF n = 0 THEN 1
                            ELSE g[n - 1] + ElementSize(elements[n], bytes[g[n - 1] + 1])]
    <3>1. \A n \in 0..1 : n = 0 \/ (n = 1 /\ n - 1 = 0)
      OBVIOUS
    <3>2. one = g[1 - 1] + ElementSize(elements[1], bytes[g[1 - 1] + 1])
      BY <2>1 DEF one
    <3>3. QED
      BY <2>1, <3>1, <3>2
  <2>3. QED
    BY <2>2
<1>3. Sizes([n \in 0..2 |-> IF n = 0 THEN 1 ELSE IF n = 1 THEN one ELSE two], 2)
  <2> DEFINE g == [n \in 0..2 |-> IF n = 0 THEN 1 ELSE IF n = 1 THEN one ELSE two]
  <2> HIDE DEF one, two
  <2>1. g[0] = 1 /\ g[1] = one /\ g[2] = two
    OBVIOUS
  <2>2. g = [n \in 0..2 |-> IF n = 0 THEN 1
                            ELSE g[n - 1] + ElementSize(elements[n], bytes[g[n - 1] + 1])]
    <3>1. \A n \in 0..2 : n = 0 \/ (n = 1 /\ n - 1 = 0) \/ (n = 2 /\ n - 1 = 1)
      OBVIOUS
    <3>2. one = g[1 - 1] + ElementSize(elements[1], bytes[g[1 - 1] + 1])
      BY <2>1 DEF one
    <3>3. two = g[2 - 1] + ElementSize(elements[2], bytes[g[2 - 1] + 1])
      BY <2>1 DEF two
    <3>4. QED
      BY <2>1, <3>1, <3>2, <3>3
  <2>3. QED
    BY <2>2
<1> HIDE DEF Sizes, one, two
<1>4. \A N : (\E f : Sizes(f, N)) => Sizes(CHOOSE f : Sizes(f, N), N)
  OBVIOUS
<1>5. \A N : (CHOOSE f : Sizes(f, N))
             = CHOOSE upTo : upTo = [n \in 0..N |->
                   IF n = 0 THEN 1
                   ELSE upTo[n - 1] + ElementSize(elements[n], bytes[upTo[n - 1] + 1])]
  BY DEF Sizes
<1>6. ASSUME NEW N, N = Len(elements)
      PROVE  PhaseBytes(elements, bytes) = (CHOOSE f : Sizes(f, N))[N]
  BY <1>5, <1>6 DEF PhaseBytes
<1>7. \A f : Sizes(f, 0) => f[0] = 1
  BY DEF Sizes
<1>8. \A f : Sizes(f, 1) => f[1] = one
  <2> SUFFICES ASSUME NEW f, Sizes(f, 1) PROVE f[1] = one
    OBVIOUS
  <2>1. f[0] = 1 /\ f[1] = f[1 - 1] + ElementSize(elements[1], bytes[f[1 - 1] + 1])
    BY DEF Sizes
  <2>2. QED
    BY <2>1 DEF one
<1>9. \A f : Sizes(f, 2) => f[2] = two
  <2> SUFFICES ASSUME NEW f, Sizes(f, 2) PROVE f[2] = two
    OBVIOUS
  <2>1. /\ f[0] = 1 /\ f[1] = f[1 - 1] + ElementSize(elements[1], bytes[f[1 - 1] + 1])
        /\ f[2] = f[2 - 1] + ElementSize(elements[2], bytes[f[2 - 1] + 1])
    BY DEF Sizes
  <2>2. f[1] = one
    BY <2>1 DEF one
  <2>3. QED
    BY <2>1, <2>2 DEF two
<1>10. QED
  BY <1>1, <1>2, <1>3, <1>4, <1>6, <1>7, <1>8, <1>9, SMTT(30) DEF one, two

(* The CRC of a short phase, written out: of two bytes, *)
LEMMA CrcOfTwo ==
    ASSUME NEW bytes \in Seq(Byte), Len(bytes) = 2
    PROVE  /\ Last(bytes) = bytes[2]
           /\ Compute(Front(bytes)) = Update(0, bytes[1])
<1> DEFINE r == Registers(Front(bytes))
<1>1. r[0] = 0 /\ Compute(Front(bytes)) = r[1]
      /\ \A n \in 1..1 : r[n] = Update(r[n - 1], bytes[n])
  <2>1. /\ Compute(Front(bytes)) = r[Len(bytes) - 1] /\ r[0] = 0
        /\ \A n \in 1..Len(bytes) - 1 : r[n] = Update(r[n - 1], bytes[n])
    <3>1. bytes # << >>
      BY SMTT(30)
    <3>2. QED
      BY <3>1, CrcSteps
  <2>2. Len(bytes) - 1 = 1
    OBVIOUS
  <2>3. QED
    BY <2>1, <2>2
<1> HIDE DEF r
<1>2. /\ r[1] = Update(r[0], bytes[1])
  BY <1>1
<1>3. Last(bytes) = bytes[2]
  BY DEF Last
<1>4. QED
  BY <1>1, <1>2, <1>3

(* of four, *)
LEMMA CrcOfFour ==
    ASSUME NEW bytes \in Seq(Byte), Len(bytes) = 4
    PROVE  /\ Last(bytes) = bytes[4]
           /\ Compute(Front(bytes)) = Update(Update(Update(0, bytes[1]), bytes[2]), bytes[3])
<1> DEFINE r == Registers(Front(bytes))
<1>1. r[0] = 0 /\ Compute(Front(bytes)) = r[3]
      /\ \A n \in 1..3 : r[n] = Update(r[n - 1], bytes[n])
  <2>1. /\ Compute(Front(bytes)) = r[Len(bytes) - 1] /\ r[0] = 0
        /\ \A n \in 1..Len(bytes) - 1 : r[n] = Update(r[n - 1], bytes[n])
    <3>1. bytes # << >>
      BY SMTT(30)
    <3>2. QED
      BY <3>1, CrcSteps
  <2>2. Len(bytes) - 1 = 3
    OBVIOUS
  <2>3. QED
    BY <2>1, <2>2
<1> HIDE DEF r
<1>2. /\ r[1] = Update(r[0], bytes[1]) /\ r[2] = Update(r[1], bytes[2])
      /\ r[3] = Update(r[2], bytes[3])
  BY <1>1
<1>3. Last(bytes) = bytes[4]
  BY DEF Last
<1>4. QED
  BY <1>1, <1>2, <1>3

(* of seven, *)
LEMMA CrcOfSeven ==
    ASSUME NEW bytes \in Seq(Byte), Len(bytes) = 7
    PROVE  LET four == Update(Update(Update(Update(0, bytes[1]), bytes[2]), bytes[3]), bytes[4])
           IN  /\ Last(bytes) = bytes[7]
               /\ Compute(Front(bytes)) = Update(Update(four, bytes[5]), bytes[6])
<1> DEFINE r == Registers(Front(bytes))
<1>1. r[0] = 0 /\ Compute(Front(bytes)) = r[6]
      /\ \A n \in 1..6 : r[n] = Update(r[n - 1], bytes[n])
  <2>1. /\ Compute(Front(bytes)) = r[Len(bytes) - 1] /\ r[0] = 0
        /\ \A n \in 1..Len(bytes) - 1 : r[n] = Update(r[n - 1], bytes[n])
    <3>1. bytes # << >>
      BY SMTT(30)
    <3>2. QED
      BY <3>1, CrcSteps
  <2>2. Len(bytes) - 1 = 6
    OBVIOUS
  <2>3. QED
    BY <2>1, <2>2
<1> HIDE DEF r
<1>2. /\ r[1] = Update(r[0], bytes[1]) /\ r[2] = Update(r[1], bytes[2])
      /\ r[3] = Update(r[2], bytes[3]) /\ r[4] = Update(r[3], bytes[4])
      /\ r[5] = Update(r[4], bytes[5]) /\ r[6] = Update(r[5], bytes[6])
  BY <1>1
<1>3. Last(bytes) = bytes[7]
  BY DEF Last
<1>4. QED
  BY <1>1, <1>2, <1>3

(* and of eight. *)
LEMMA CrcOfEight ==
    ASSUME NEW bytes \in Seq(Byte), Len(bytes) = 8
    PROVE  LET four == Update(Update(Update(Update(0, bytes[1]), bytes[2]), bytes[3]), bytes[4])
           IN  /\ Last(bytes) = bytes[8]
               /\ Compute(Front(bytes)) = Update(Update(Update(four, bytes[5]), bytes[6]), bytes[7])
<1> DEFINE r == Registers(Front(bytes))
<1>1. r[0] = 0 /\ Compute(Front(bytes)) = r[7]
      /\ \A n \in 1..7 : r[n] = Update(r[n - 1], bytes[n])
  <2>1. /\ Compute(Front(bytes)) = r[Len(bytes) - 1] /\ r[0] = 0
        /\ \A n \in 1..Len(bytes) - 1 : r[n] = Update(r[n - 1], bytes[n])
    <3>1. bytes # << >>
      BY SMTT(30)
    <3>2. QED
      BY <3>1, CrcSteps
  <2>2. Len(bytes) - 1 = 7
    OBVIOUS
  <2>3. QED
    BY <2>1, <2>2
<1> HIDE DEF r
<1>2. /\ r[1] = Update(r[0], bytes[1]) /\ r[2] = Update(r[1], bytes[2])
      /\ r[3] = Update(r[2], bytes[3]) /\ r[4] = Update(r[3], bytes[4])
      /\ r[5] = Update(r[4], bytes[5]) /\ r[6] = Update(r[5], bytes[6])
      /\ r[7] = Update(r[6], bytes[7])
  BY <1>1
<1>3. Last(bytes) = bytes[8]
  BY DEF Last
<1>4. QED
  BY <1>1, <1>2, <1>3

(* The literal commands are cut where their shapes say, and end in their    *)
(* CRC.                                                                     *)
LEMMA CleanCommands ==
    /\ CleanPhase(<<"Addr16">>, <<33, 0, 32, 200>>)
    /\ CleanPhase(<<"Addr16", "Data32">>, <<34, 0, 32, 1, 0, 7, 0, 1>>)
    /\ CleanPhase(<< >>, <<5, 27>>)
    /\ CleanPhase(<<"Addr16">>, <<33, 0, 48, 184>>)
    /\ CleanPhase(<<"Addr16", "Data32">>, <<34, 0, 48, 1, 1, 0, 0, 51>>)
    /\ CleanPhase(<<"Addr16", "Data32">>, <<34, 0, 8, 15, 0, 52, 139, 198>>)
<1>1. CleanPhase(<<"Addr16">>, <<33, 0, 32, 200>>)
  <2> DEFINE bytes == <<33, 0, 32, 200>>
             elements == <<"Addr16">>
  <2>1. /\ bytes \in Seq(Byte) /\ Len(bytes) = 4
        /\ bytes[1] = 33 /\ bytes[2] = 0 /\ bytes[3] = 32 /\ bytes[4] = 200
    BY DEF Byte
  <2>2. Len(elements) = 1 /\ elements[1] = "Addr16"
    OBVIOUS
  <2> HIDE DEF bytes, elements
  <2>3. Compute(Front(bytes)) = Last(bytes)
    <3>1. Last(bytes) = 200 /\ Compute(Front(bytes)) = Update(Update(Update(0, 33), 0), 32)
      BY <2>1, CrcOfFour
    <3>2. QED
      BY <3>1, UpdateTable
  <2>4. PhaseBytes(elements, bytes) = 3
    <3>1. ElementSize("Addr16", 0) = 2
      BY DEF ElementSize, ElementFixedSize
    <3>2. QED
      BY <2>1, <2>2, <3>1, SizeOfPhase
  <2>5. CleanPhase(elements, bytes)
    BY <2>1, <2>3, <2>4 DEF CleanPhase
  <2>6. QED
    BY <2>5 DEF bytes, elements
<1>2. CleanPhase(<<"Addr16", "Data32">>, <<34, 0, 32, 1, 0, 7, 0, 1>>)
  <2> DEFINE bytes == <<34, 0, 32, 1, 0, 7, 0, 1>>
             elements == <<"Addr16", "Data32">>
  <2>1. /\ bytes \in Seq(Byte) /\ Len(bytes) = 8
        /\ bytes[1] = 34 /\ bytes[2] = 0 /\ bytes[3] = 32 /\ bytes[4] = 1
        /\ bytes[5] = 0 /\ bytes[6] = 7 /\ bytes[7] = 0 /\ bytes[8] = 1
    BY DEF Byte
  <2>2. Len(elements) = 2 /\ elements[1] = "Addr16" /\ elements[2] = "Data32"
    OBVIOUS
  <2> HIDE DEF bytes, elements
  <2>3. Compute(Front(bytes)) = Last(bytes)
    <3>1. Update(Update(Update(Update(0, 34), 0), 32), 1) = 75
      BY UpdateTable
    <3>2. Last(bytes) = 1 /\ Compute(Front(bytes)) = Update(Update(Update(75, 0), 7), 0)
      BY <2>1, <3>1, CrcOfEight
    <3>3. QED
      BY <3>2, UpdateTable
  <2>4. PhaseBytes(elements, bytes) = 7
    <3>1. ElementSize("Addr16", 0) = 2 /\ ElementSize("Data32", 1) = 4
      BY DEF ElementSize, ElementFixedSize
    <3>2. QED
      BY <2>1, <2>2, <3>1, SizeOfPhase
  <2>5. CleanPhase(elements, bytes)
    BY <2>1, <2>3, <2>4 DEF CleanPhase
  <2>6. QED
    BY <2>5 DEF bytes, elements
<1>3. CleanPhase(<< >>, <<5, 27>>)
  <2> DEFINE bytes == <<5, 27>>
             elements == << >>
  <2>1. /\ bytes \in Seq(Byte) /\ Len(bytes) = 2
        /\ bytes[1] = 5 /\ bytes[2] = 27
    BY DEF Byte
  <2>2. Len(elements) = 0
    OBVIOUS
  <2> HIDE DEF bytes, elements
  <2>3. Compute(Front(bytes)) = Last(bytes)
    <3>1. Last(bytes) = 27 /\ Compute(Front(bytes)) = Update(0, 5)
      BY <2>1, CrcOfTwo
    <3>2. QED
      BY <3>1, UpdateTable
  <2>4. PhaseBytes(elements, bytes) = 1
    BY <2>2, SizeOfPhase
  <2>5. CleanPhase(elements, bytes)
    BY <2>1, <2>3, <2>4 DEF CleanPhase
  <2>6. QED
    BY <2>5 DEF bytes, elements
<1>4. CleanPhase(<<"Addr16">>, <<33, 0, 48, 184>>)
  <2> DEFINE bytes == <<33, 0, 48, 184>>
             elements == <<"Addr16">>
  <2>1. /\ bytes \in Seq(Byte) /\ Len(bytes) = 4
        /\ bytes[1] = 33 /\ bytes[2] = 0 /\ bytes[3] = 48 /\ bytes[4] = 184
    BY DEF Byte
  <2>2. Len(elements) = 1 /\ elements[1] = "Addr16"
    OBVIOUS
  <2> HIDE DEF bytes, elements
  <2>3. Compute(Front(bytes)) = Last(bytes)
    <3>1. Last(bytes) = 184 /\ Compute(Front(bytes)) = Update(Update(Update(0, 33), 0), 48)
      BY <2>1, CrcOfFour
    <3>2. QED
      BY <3>1, UpdateTable
  <2>4. PhaseBytes(elements, bytes) = 3
    <3>1. ElementSize("Addr16", 0) = 2
      BY DEF ElementSize, ElementFixedSize
    <3>2. QED
      BY <2>1, <2>2, <3>1, SizeOfPhase
  <2>5. CleanPhase(elements, bytes)
    BY <2>1, <2>3, <2>4 DEF CleanPhase
  <2>6. QED
    BY <2>5 DEF bytes, elements
<1>5. CleanPhase(<<"Addr16", "Data32">>, <<34, 0, 48, 1, 1, 0, 0, 51>>)
  <2> DEFINE bytes == <<34, 0, 48, 1, 1, 0, 0, 51>>
             elements == <<"Addr16", "Data32">>
  <2>1. /\ bytes \in Seq(Byte) /\ Len(bytes) = 8
        /\ bytes[1] = 34 /\ bytes[2] = 0 /\ bytes[3] = 48 /\ bytes[4] = 1
        /\ bytes[5] = 1 /\ bytes[6] = 0 /\ bytes[7] = 0 /\ bytes[8] = 51
    BY DEF Byte
  <2>2. Len(elements) = 2 /\ elements[1] = "Addr16" /\ elements[2] = "Data32"
    OBVIOUS
  <2> HIDE DEF bytes, elements
  <2>3. Compute(Front(bytes)) = Last(bytes)
    <3>1. Update(Update(Update(Update(0, 34), 0), 48), 1) = 28
      BY UpdateTable
    <3>2. Last(bytes) = 51 /\ Compute(Front(bytes)) = Update(Update(Update(28, 1), 0), 0)
      BY <2>1, <3>1, CrcOfEight
    <3>3. QED
      BY <3>2, UpdateTable
  <2>4. PhaseBytes(elements, bytes) = 7
    <3>1. ElementSize("Addr16", 0) = 2 /\ ElementSize("Data32", 1) = 4
      BY DEF ElementSize, ElementFixedSize
    <3>2. QED
      BY <2>1, <2>2, <3>1, SizeOfPhase
  <2>5. CleanPhase(elements, bytes)
    BY <2>1, <2>3, <2>4 DEF CleanPhase
  <2>6. QED
    BY <2>5 DEF bytes, elements
<1>6. CleanPhase(<<"Addr16", "Data32">>, <<34, 0, 8, 15, 0, 52, 139, 198>>)
  <2> DEFINE bytes == <<34, 0, 8, 15, 0, 52, 139, 198>>
             elements == <<"Addr16", "Data32">>
  <2>1. /\ bytes \in Seq(Byte) /\ Len(bytes) = 8
        /\ bytes[1] = 34 /\ bytes[2] = 0 /\ bytes[3] = 8 /\ bytes[4] = 15
        /\ bytes[5] = 0 /\ bytes[6] = 52 /\ bytes[7] = 139 /\ bytes[8] = 198
    BY DEF Byte
  <2>2. Len(elements) = 2 /\ elements[1] = "Addr16" /\ elements[2] = "Data32"
    OBVIOUS
  <2> HIDE DEF bytes, elements
  <2>3. Compute(Front(bytes)) = Last(bytes)
    <3>1. Update(Update(Update(Update(0, 34), 0), 8), 15) = 103
      BY UpdateTable
    <3>2. Last(bytes) = 198 /\ Compute(Front(bytes)) = Update(Update(Update(103, 0), 52), 139)
      BY <2>1, <3>1, CrcOfEight
    <3>3. QED
      BY <3>2, UpdateTable
  <2>4. PhaseBytes(elements, bytes) = 7
    <3>1. ElementSize("Addr16", 0) = 2 /\ ElementSize("Data32", 15) = 4
      BY DEF ElementSize, ElementFixedSize
    <3>2. QED
      BY <2>1, <2>2, <3>1, SizeOfPhase
  <2>5. CleanPhase(elements, bytes)
    BY <2>1, <2>3, <2>4 DEF CleanPhase
  <2>6. QED
    BY <2>5 DEF bytes, elements
<1>7. QED
  BY <1>1, <1>2, <1>3, <1>4, <1>5, <1>6

(* And so are the responses. *)
LEMMA CleanResponses ==
    /\ CleanPhase(<<"Data32", "Status16">>, <<8, 0, 11, 0, 0, 15, 1, 145>>)
    /\ CleanPhase(<<"Status16">>, <<8, 15, 1, 149>>)
    /\ CleanPhase(<<"VwirePacket", "Status16">>, <<8, 0, 5, 136, 15, 1, 159>>)
    /\ CleanPhase(<<"Data32", "Status16">>, <<8, 16, 1, 0, 0, 15, 1, 210>>)
    /\ CleanPhase(<<"VwirePacket", "Status16">>, <<8, 0, 5, 25, 15, 1, 93>>)
    /\ CleanPhase(<<"VwirePacket", "Status16">>, <<8, 0, 64, 17, 15, 1, 217>>)
    /\ CleanPhase(<<"VwirePacket", "Status16">>, <<8, 0, 64, 16, 15, 1, 178>>)
<1>1. CleanPhase(<<"Data32", "Status16">>, <<8, 0, 11, 0, 0, 15, 1, 145>>)
  <2> DEFINE bytes == <<8, 0, 11, 0, 0, 15, 1, 145>>
             elements == <<"Data32", "Status16">>
  <2>1. /\ bytes \in Seq(Byte) /\ Len(bytes) = 8
        /\ bytes[1] = 8 /\ bytes[2] = 0 /\ bytes[3] = 11 /\ bytes[4] = 0
        /\ bytes[5] = 0 /\ bytes[6] = 15 /\ bytes[7] = 1 /\ bytes[8] = 145
    BY DEF Byte
  <2>2. Len(elements) = 2 /\ elements[1] = "Data32" /\ elements[2] = "Status16"
    OBVIOUS
  <2> HIDE DEF bytes, elements
  <2>3. Compute(Front(bytes)) = Last(bytes)
    <3>1. Update(Update(Update(Update(0, 8), 0), 11), 0) = 39
      BY UpdateTable
    <3>2. Last(bytes) = 145 /\ Compute(Front(bytes)) = Update(Update(Update(39, 0), 15), 1)
      BY <2>1, <3>1, CrcOfEight
    <3>3. QED
      BY <3>2, UpdateTable
  <2>4. PhaseBytes(elements, bytes) = 7
    <3>1. ElementSize("Data32", 0) = 4 /\ ElementSize("Status16", 15) = 2
      BY DEF ElementSize, ElementFixedSize
    <3>2. QED
      BY <2>1, <2>2, <3>1, SizeOfPhase
  <2>5. CleanPhase(elements, bytes)
    BY <2>1, <2>3, <2>4 DEF CleanPhase
  <2>6. QED
    BY <2>5 DEF bytes, elements
<1>2. CleanPhase(<<"Status16">>, <<8, 15, 1, 149>>)
  <2> DEFINE bytes == <<8, 15, 1, 149>>
             elements == <<"Status16">>
  <2>1. /\ bytes \in Seq(Byte) /\ Len(bytes) = 4
        /\ bytes[1] = 8 /\ bytes[2] = 15 /\ bytes[3] = 1 /\ bytes[4] = 149
    BY DEF Byte
  <2>2. Len(elements) = 1 /\ elements[1] = "Status16"
    OBVIOUS
  <2> HIDE DEF bytes, elements
  <2>3. Compute(Front(bytes)) = Last(bytes)
    <3>1. Last(bytes) = 149 /\ Compute(Front(bytes)) = Update(Update(Update(0, 8), 15), 1)
      BY <2>1, CrcOfFour
    <3>2. QED
      BY <3>1, UpdateTable
  <2>4. PhaseBytes(elements, bytes) = 3
    <3>1. ElementSize("Status16", 15) = 2
      BY DEF ElementSize, ElementFixedSize
    <3>2. QED
      BY <2>1, <2>2, <3>1, SizeOfPhase
  <2>5. CleanPhase(elements, bytes)
    BY <2>1, <2>3, <2>4 DEF CleanPhase
  <2>6. QED
    BY <2>5 DEF bytes, elements
<1>3. CleanPhase(<<"VwirePacket", "Status16">>, <<8, 0, 5, 136, 15, 1, 159>>)
  <2> DEFINE bytes == <<8, 0, 5, 136, 15, 1, 159>>
             elements == <<"VwirePacket", "Status16">>
  <2>1. /\ bytes \in Seq(Byte) /\ Len(bytes) = 7
        /\ bytes[1] = 8 /\ bytes[2] = 0 /\ bytes[3] = 5 /\ bytes[4] = 136
        /\ bytes[5] = 15 /\ bytes[6] = 1 /\ bytes[7] = 159
    BY DEF Byte
  <2>2. Len(elements) = 2 /\ elements[1] = "VwirePacket" /\ elements[2] = "Status16"
    OBVIOUS
  <2> HIDE DEF bytes, elements
  <2>3. Compute(Front(bytes)) = Last(bytes)
    <3>1. Update(Update(Update(Update(0, 8), 0), 5), 136) = 64
      BY UpdateTable
    <3>2. Last(bytes) = 159 /\ Compute(Front(bytes)) = Update(Update(64, 15), 1)
      BY <2>1, <3>1, CrcOfSeven
    <3>3. QED
      BY <3>2, UpdateTable
  <2>4. PhaseBytes(elements, bytes) = 6
    <3>1. ElementSize("VwirePacket", 0) = 3 /\ ElementSize("Status16", 15) = 2
      BY DEF ElementSize, ElementFixedSize
    <3>2. QED
      BY <2>1, <2>2, <3>1, SizeOfPhase
  <2>5. CleanPhase(elements, bytes)
    BY <2>1, <2>3, <2>4 DEF CleanPhase
  <2>6. QED
    BY <2>5 DEF bytes, elements
<1>4. CleanPhase(<<"Data32", "Status16">>, <<8, 16, 1, 0, 0, 15, 1, 210>>)
  <2> DEFINE bytes == <<8, 16, 1, 0, 0, 15, 1, 210>>
             elements == <<"Data32", "Status16">>
  <2>1. /\ bytes \in Seq(Byte) /\ Len(bytes) = 8
        /\ bytes[1] = 8 /\ bytes[2] = 16 /\ bytes[3] = 1 /\ bytes[4] = 0
        /\ bytes[5] = 0 /\ bytes[6] = 15 /\ bytes[7] = 1 /\ bytes[8] = 210
    BY DEF Byte
  <2>2. Len(elements) = 2 /\ elements[1] = "Data32" /\ elements[2] = "Status16"
    OBVIOUS
  <2> HIDE DEF bytes, elements
  <2>3. Compute(Front(bytes)) = Last(bytes)
    <3>1. Update(Update(Update(Update(0, 8), 16), 1), 0) = 7
      BY UpdateTable
    <3>2. Last(bytes) = 210 /\ Compute(Front(bytes)) = Update(Update(Update(7, 0), 15), 1)
      BY <2>1, <3>1, CrcOfEight
    <3>3. QED
      BY <3>2, UpdateTable
  <2>4. PhaseBytes(elements, bytes) = 7
    <3>1. ElementSize("Data32", 16) = 4 /\ ElementSize("Status16", 15) = 2
      BY DEF ElementSize, ElementFixedSize
    <3>2. QED
      BY <2>1, <2>2, <3>1, SizeOfPhase
  <2>5. CleanPhase(elements, bytes)
    BY <2>1, <2>3, <2>4 DEF CleanPhase
  <2>6. QED
    BY <2>5 DEF bytes, elements
<1>5. CleanPhase(<<"VwirePacket", "Status16">>, <<8, 0, 5, 25, 15, 1, 93>>)
  <2> DEFINE bytes == <<8, 0, 5, 25, 15, 1, 93>>
             elements == <<"VwirePacket", "Status16">>
  <2>1. /\ bytes \in Seq(Byte) /\ Len(bytes) = 7
        /\ bytes[1] = 8 /\ bytes[2] = 0 /\ bytes[3] = 5 /\ bytes[4] = 25
        /\ bytes[5] = 15 /\ bytes[6] = 1 /\ bytes[7] = 93
    BY DEF Byte
  <2>2. Len(elements) = 2 /\ elements[1] = "VwirePacket" /\ elements[2] = "Status16"
    OBVIOUS
  <2> HIDE DEF bytes, elements
  <2>3. Compute(Front(bytes)) = Last(bytes)
    <3>1. Update(Update(Update(Update(0, 8), 0), 5), 25) = 190
      BY UpdateTable
    <3>2. Last(bytes) = 93 /\ Compute(Front(bytes)) = Update(Update(190, 15), 1)
      BY <2>1, <3>1, CrcOfSeven
    <3>3. QED
      BY <3>2, UpdateTable
  <2>4. PhaseBytes(elements, bytes) = 6
    <3>1. ElementSize("VwirePacket", 0) = 3 /\ ElementSize("Status16", 15) = 2
      BY DEF ElementSize, ElementFixedSize
    <3>2. QED
      BY <2>1, <2>2, <3>1, SizeOfPhase
  <2>5. CleanPhase(elements, bytes)
    BY <2>1, <2>3, <2>4 DEF CleanPhase
  <2>6. QED
    BY <2>5 DEF bytes, elements
<1>6. CleanPhase(<<"VwirePacket", "Status16">>, <<8, 0, 64, 17, 15, 1, 217>>)
  <2> DEFINE bytes == <<8, 0, 64, 17, 15, 1, 217>>
             elements == <<"VwirePacket", "Status16">>
  <2>1. /\ bytes \in Seq(Byte) /\ Len(bytes) = 7
        /\ bytes[1] = 8 /\ bytes[2] = 0 /\ bytes[3] = 64 /\ bytes[4] = 17
        /\ bytes[5] = 15 /\ bytes[6] = 1 /\ bytes[7] = 217
    BY DEF Byte
  <2>2. Len(elements) = 2 /\ elements[1] = "VwirePacket" /\ elements[2] = "Status16"
    OBVIOUS
  <2> HIDE DEF bytes, elements
  <2>3. Compute(Front(bytes)) = Last(bytes)
    <3>1. Update(Update(Update(Update(0, 8), 0), 64), 17) = 156
      BY UpdateTable
    <3>2. Last(bytes) = 217 /\ Compute(Front(bytes)) = Update(Update(156, 15), 1)
      BY <2>1, <3>1, CrcOfSeven
    <3>3. QED
      BY <3>2, UpdateTable
  <2>4. PhaseBytes(elements, bytes) = 6
    <3>1. ElementSize("VwirePacket", 0) = 3 /\ ElementSize("Status16", 15) = 2
      BY DEF ElementSize, ElementFixedSize
    <3>2. QED
      BY <2>1, <2>2, <3>1, SizeOfPhase
  <2>5. CleanPhase(elements, bytes)
    BY <2>1, <2>3, <2>4 DEF CleanPhase
  <2>6. QED
    BY <2>5 DEF bytes, elements
<1>7. CleanPhase(<<"VwirePacket", "Status16">>, <<8, 0, 64, 16, 15, 1, 178>>)
  <2> DEFINE bytes == <<8, 0, 64, 16, 15, 1, 178>>
             elements == <<"VwirePacket", "Status16">>
  <2>1. /\ bytes \in Seq(Byte) /\ Len(bytes) = 7
        /\ bytes[1] = 8 /\ bytes[2] = 0 /\ bytes[3] = 64 /\ bytes[4] = 16
        /\ bytes[5] = 15 /\ bytes[6] = 1 /\ bytes[7] = 178
    BY DEF Byte
  <2>2. Len(elements) = 2 /\ elements[1] = "VwirePacket" /\ elements[2] = "Status16"
    OBVIOUS
  <2> HIDE DEF bytes, elements
  <2>3. Compute(Front(bytes)) = Last(bytes)
    <3>1. Update(Update(Update(Update(0, 8), 0), 64), 16) = 155
      BY UpdateTable
    <3>2. Last(bytes) = 178 /\ Compute(Front(bytes)) = Update(Update(155, 15), 1)
      BY <2>1, <3>1, CrcOfSeven
    <3>3. QED
      BY <3>2, UpdateTable
  <2>4. PhaseBytes(elements, bytes) = 6
    <3>1. ElementSize("VwirePacket", 0) = 3 /\ ElementSize("Status16", 15) = 2
      BY DEF ElementSize, ElementFixedSize
    <3>2. QED
      BY <2>1, <2>2, <3>1, SizeOfPhase
  <2>5. CleanPhase(elements, bytes)
    BY <2>1, <2>3, <2>4 DEF CleanPhase
  <2>6. QED
    BY <2>5 DEF bytes, elements
<1>8. QED
  BY <1>1, <1>2, <1>3, <1>4, <1>5, <1>6, <1>7

-----------------------------------------------------------------------------
(* The script *)

(* The modes it is drawn in: up to the write of the ninth transaction in    *)
(* Single, then in Quad until the reset is over.                            *)
LEMMA ScriptModes ==
    /\ Len(SimulationScript) = 11
    /\ \A i \in 1..9 : SimulationScript[i].mode = "Single"
    /\ \A i \in {10, 11} : SimulationScript[i].mode = "Quad"
<1>1. /\ Len(SimulationScript) = 11
      /\ SimulationScript[1].mode = "Single" /\ SimulationScript[2].mode = "Single"
      /\ SimulationScript[3].mode = "Single" /\ SimulationScript[4].mode = "Single"
      /\ SimulationScript[5].mode = "Single" /\ SimulationScript[6].mode = "Single"
      /\ SimulationScript[7].mode = "Single" /\ SimulationScript[8].mode = "Single"
      /\ SimulationScript[9].mode = "Single" /\ SimulationScript[10].mode = "Quad"
      /\ SimulationScript[11].mode = "Quad"
  BY DEF SimulationScript, Transaction
<1>2. \A i \in 1..9 : i \in {1, 2, 3, 4, 5, 6, 7, 8, 9}
  OBVIOUS
<1>3. QED
  BY <1>1, <1>2

(* The opcodes of the script are in the table. *)
LEMMA ScriptOpcodes ==
    /\ KnownOpcode(5) /\ KnownOpcode(33) /\ KnownOpcode(34) /\ KnownOpcode(255)
    /\ LookupOpcode(5).name = "GET_VWIRE"
    /\ LookupOpcode(33).name = "GET_CONFIGURATION"
    /\ LookupOpcode(34).name = "SET_CONFIGURATION"
    /\ LookupOpcode(255).name = "RESET"
<1>1. KnownOpcode(5) /\ KnownOpcode(33) /\ KnownOpcode(34) /\ KnownOpcode(255)
  BY DEF KnownOpcode, Opcodes, Opcode, MatchesOpcode
<1>2. 5 \in Byte /\ 33 \in Byte /\ 34 \in Byte /\ 255 \in Byte
  BY DEF Byte
<1>3. LookupOpcode(5).name = "GET_VWIRE"
  BY <1>1, <1>2, LookedUpOpcode DEF Opcodes, Opcode, MatchesOpcode
<1>4. LookupOpcode(33).name = "GET_CONFIGURATION"
  BY <1>1, <1>2, LookedUpOpcode DEF Opcodes, Opcode, MatchesOpcode
<1>5. QED
  BY <1>1, <1>2, <1>3, <1>4, OpcodeNames

(* What each transaction is to the session: of those before the excursion   *)
(* the writes are to other registers, the ninth is the write of Quad, the   *)
(* last the reset.                                                          *)
LEMMA BeforeExcursion ==
    ASSUME NEW i \in 1..8, NEW t,
           t.command = SimulationScript[i].command
    PROVE  UpdateOf(t) = NoUpdate
<1>1. CASE i \in {1, 3, 4, 6, 7, 8}
  <2>1. /\ SimulationScript[1].command[1] = 33 /\ SimulationScript[3].command[1] = 5
        /\ SimulationScript[4].command[1] = 33 /\ SimulationScript[6].command[1] = 5
        /\ SimulationScript[7].command[1] = 5 /\ SimulationScript[8].command[1] = 5
    BY DEF SimulationScript, Transaction
  <2>2. OpcodeName(t) \notin {"RESET", "SET_CONFIGURATION"}
    BY <1>1, <2>1, ScriptOpcodes DEF OpcodeName
  <2>3. QED
    BY <2>2 DEF UpdateOf
<1>2. CASE i \in {2, 5}
  <2>1. /\ SimulationScript[2].command[1] = 34 /\ SimulationScript[2].command[2] = 0
        /\ SimulationScript[2].command[3] = 32
        /\ SimulationScript[5].command[1] = 34 /\ SimulationScript[5].command[2] = 0
        /\ SimulationScript[5].command[3] = 48
    BY DEF SimulationScript, Transaction
  <2>2. OpcodeName(t) = "SET_CONFIGURATION"
    BY <1>2, <2>1, ScriptOpcodes DEF OpcodeName
  <2>3. ~IsGeneralConfigAddress(Address(t))
    BY <1>2, <2>1 DEF Address, IsGeneralConfigAddress
  <2>4. QED
    BY <2>2, <2>3 DEF UpdateOf
<1>3. i \in {1, 3, 4, 6, 7, 8} \cup {2, 5}
  OBVIOUS
<1>4. QED
  BY <1>1, <1>2, <1>3

LEMMA Excursion ==
    /\ UpdateOf(SimulationScript[9]) = WrittenUpdate([enc |-> 2, crc |-> TRUE])
    /\ UpdateOf(SimulationScript[10]) = NoUpdate
    /\ UpdateOf(SimulationScript[11]) = ResetUpdate
<1>1. UpdateOf(SimulationScript[9]) = WrittenUpdate([enc |-> 2, crc |-> TRUE])
  <2>1. /\ SimulationScript[9].command[1] = 34 /\ SimulationScript[9].command[2] = 0
        /\ SimulationScript[9].command[3] = 8 /\ SimulationScript[9].command[7] = 139
        /\ SimulationScript[9].response[1] = 8
    BY DEF SimulationScript, Transaction
  <2>2. OpcodeName(SimulationScript[9]) = "SET_CONFIGURATION"
    BY <2>1, ScriptOpcodes DEF OpcodeName
  <2>3. IsGeneralConfigAddress(Address(SimulationScript[9]))
    BY <2>1 DEF Address, IsGeneralConfigAddress
  <2>4. LookupResponse(8) = "ACCEPT"
    BY DEF LookupResponse, ResponseCodes, NoResponseByte
  <2>5. WrittenConfig(SimulationScript[9]) = [enc |-> 2, crc |-> TRUE]
    <3>1. (139 \div 4) % 4 = 2 /\ (139 >= 128) = TRUE
      OBVIOUS
    <3>2. QED
      BY <2>1, <3>1, Zenon DEF WrittenConfig
  <2>6. QED
    BY <2>1, <2>2, <2>3, <2>4, <2>5 DEF UpdateOf
<1>2. UpdateOf(SimulationScript[10]) = NoUpdate
  <2>1. SimulationScript[10].command[1] = 33
    BY DEF SimulationScript, Transaction
  <2>2. OpcodeName(SimulationScript[10]) \notin {"RESET", "SET_CONFIGURATION"}
    BY <2>1, ScriptOpcodes DEF OpcodeName
  <2>3. QED
    BY <2>2 DEF UpdateOf
<1>3. UpdateOf(SimulationScript[11]) = ResetUpdate
  <2>1. SimulationScript[11].command[1] = 255
    BY DEF SimulationScript, Transaction
  <2>2. OpcodeName(SimulationScript[11]) = "RESET"
    BY <2>1, ScriptOpcodes DEF OpcodeName
  <2>3. QED
    BY <2>2 DEF UpdateOf
<1>4. QED
  BY <1>1, <1>2, <1>3

(* A transaction's phases are sequences, so its samples can be counted. *)
LEMMA ScriptLengths ==
    \A i \in 1..11 : /\ Len(SimulationScript[i].command) \in Nat
                     /\ Len(SimulationScript[i].response) \in Nat
                     /\ SimulationScript[i].turnaround \in BOOLEAN
<1> DEFINE Counted(i) == /\ Len(SimulationScript[i].command) \in Nat
                         /\ Len(SimulationScript[i].response) \in Nat
                         /\ SimulationScript[i].turnaround \in BOOLEAN
<1>1. Counted(1) /\ Counted(2) /\ Counted(3) /\ Counted(4) /\ Counted(5) /\ Counted(6)
  BY DEF SimulationScript, Transaction
<1>2. Counted(7) /\ Counted(8) /\ Counted(9) /\ Counted(10)
  BY DEF SimulationScript, Transaction
<1>3. Counted(11)
  <2>1. /\ SimulationScript[11].command = [k \in 1..8 |-> 255]
        /\ SimulationScript[11].response = << >> /\ ~SimulationScript[11].turnaround
    BY DEF SimulationScript, Transaction
  <2>2. Len([k \in 1..8 |-> 255]) = 8
    OBVIOUS
  <2>3. SimulationScript[11].turnaround \in BOOLEAN
    BY DEF SimulationScript, Transaction
  <2>4. QED
    BY <2>1, <2>2, <2>3
<1>4. \A i \in 1..11 : i \in {1, 2, 3, 4, 5, 6, 7, 8, 9, 10, 11}
  OBVIOUS
<1> HIDE DEF Counted
<1>5. \A i \in 1..11 : Counted(i)
  BY <1>1, <1>2, <1>3, <1>4
<1>6. QED
  BY <1>5 DEF Counted

(* The part of the script without the excursion, in one mode. *)
LEMMA PartScript ==
    ASSUME NEW mode \in IoMode, NEW lanes, ~(mode = "Single" /\ lanes = 4)
    PROVE  LET script == SimulationScriptFrom(mode, lanes)
           IN  /\ Len(script) = 8
               /\ \A i \in 1..8 : /\ script[i].mode = mode
                                  /\ script[i].command = SimulationScript[i].command
                                  /\ script[i].response = SimulationScript[i].response
                                  /\ script[i].turnaround = SimulationScript[i].turnaround
<1>1. SimulationScriptFrom(mode, lanes)
          = [i \in 1..8 |-> [SimulationScript[i] EXCEPT !.mode = mode]]
  BY ScriptModes DEF SimulationScriptFrom, ModeExcursionEntries
<1>2. \A i \in 1..8 : SimulationScript[i] = [command    |-> SimulationScript[i].command,
                                             turnaround |-> SimulationScript[i].turnaround,
                                             response   |-> SimulationScript[i].response,
                                             mode       |-> SimulationScript[i].mode]
  <2> DEFINE Complete(i) ==
                 SimulationScript[i] = [command    |-> SimulationScript[i].command,
                                        turnaround |-> SimulationScript[i].turnaround,
                                        response   |-> SimulationScript[i].response,
                                        mode       |-> SimulationScript[i].mode]
  <2>1. Complete(1) /\ Complete(2) /\ Complete(3) /\ Complete(4)
    BY DEF SimulationScript, Transaction
  <2>2. Complete(5) /\ Complete(6) /\ Complete(7) /\ Complete(8)
    BY DEF SimulationScript, Transaction
  <2>3. \A i \in 1..8 : i \in {1, 2, 3, 4, 5, 6, 7, 8}
    OBVIOUS
  <2> HIDE DEF Complete
  <2>4. \A i \in 1..8 : Complete(i)
    BY <2>1, <2>2, <2>3
  <2>5. QED
    BY <2>4 DEF Complete
<1>3. QED
  BY <1>1, <1>2

(* The whole script. *)
LEMMA WholeScript ==
    ASSUME NEW lanes, lanes = 4
    PROVE  SimulationScriptFrom("Single", lanes) = SimulationScript
BY DEF SimulationScriptFrom

(* What the reader makes of a transaction. *)
Decodes(t) ==
    /\ KnownOpcode(t.command[1])
    /\ IF OpcodeName(t) = "RESET" THEN CleanReset(t) ELSE CleanExchange(t)

(* Literal phases as those of CleanCommands and CleanResponses decode. *)
LEMMA CleanDecodes ==
    ASSUME NEW t, t.turnaround, t.response[1] = 8,
           \/ /\ t.command[1] = 33 /\ CleanPhase(<<"Addr16">>, t.command)
              /\ CleanPhase(<<"Data32", "Status16">>, t.response)
           \/ /\ t.command[1] = 34 /\ CleanPhase(<<"Addr16", "Data32">>, t.command)
              /\ CleanPhase(<<"Status16">>, t.response)
           \/ /\ t.command[1] = 5 /\ CleanPhase(<< >>, t.command)
              /\ CleanPhase(<<"VwirePacket", "Status16">>, t.response)
    PROVE  Decodes(t)
<1>1. LookupResponse(t.response[1]) = "ACCEPT"
  <2>1. LookupResponse(8) = "ACCEPT"
    BY DEF LookupResponse, ResponseCodes, NoResponseByte
  <2>2. QED
    BY <2>1
<1>2. /\ CommandElements("GET_CONFIGURATION") = <<"Addr16">>
      /\ ResponseElements("GET_CONFIGURATION") = <<"Data32", "Status16">>
      /\ CommandElements("SET_CONFIGURATION") = <<"Addr16", "Data32">>
      /\ ResponseElements("SET_CONFIGURATION") = <<"Status16">>
      /\ CommandElements("GET_VWIRE") = << >>
      /\ ResponseElements("GET_VWIRE") = <<"VwirePacket", "Status16">>
  BY DEF CommandElements, ResponseElements
<1>3. CASE t.command[1] = 33
  <2>1. OpcodeName(t) = "GET_CONFIGURATION" /\ KnownOpcode(t.command[1])
    BY <1>3, ScriptOpcodes DEF OpcodeName
  <2>2. QED
    BY <1>1, <1>2, <1>3, <2>1 DEF Decodes, CleanExchange
<1>4. CASE t.command[1] = 34
  <2>1. OpcodeName(t) = "SET_CONFIGURATION" /\ KnownOpcode(t.command[1])
    BY <1>4, ScriptOpcodes DEF OpcodeName
  <2>2. QED
    BY <1>1, <1>2, <1>4, <2>1 DEF Decodes, CleanExchange
<1>5. CASE t.command[1] = 5
  <2>1. OpcodeName(t) = "GET_VWIRE" /\ KnownOpcode(t.command[1])
    BY <1>5, ScriptOpcodes DEF OpcodeName
  <2>2. QED
    BY <1>1, <1>2, <1>5, <2>1 DEF Decodes, CleanExchange
<1>6. QED
  BY <1>3, <1>4, <1>5

(* A transaction of the script decodes, in whatever mode it is drawn when   *)
(* it is not the reset.                                                     *)
LEMMA ScriptClean ==
    ASSUME NEW i \in 1..10, NEW t,
           t.command = SimulationScript[i].command, t.response = SimulationScript[i].response,
           t.turnaround = SimulationScript[i].turnaround
    PROVE  Decodes(t)
<1>1. CASE i = 1
  <2>1. /\ t.command = <<33, 0, 32, 200>>
        /\ t.response = <<8, 0, 11, 0, 0, 15, 1, 145>>
        /\ t.turnaround = TRUE
    BY <1>1 DEF SimulationScript, Transaction
  <2>2. t.command[1] = 33 /\ t.response[1] = 8
    BY <2>1
  <2>3. CleanPhase(<<"Addr16">>, t.command)
    BY <2>1, CleanCommands
  <2>4. CleanPhase(<<"Data32", "Status16">>, t.response)
    BY <2>1, CleanResponses
  <2>5. QED
    BY <2>1, <2>2, <2>3, <2>4, CleanDecodes
<1>2. CASE i = 2
  <2>1. /\ t.command = <<34, 0, 32, 1, 0, 7, 0, 1>>
        /\ t.response = <<8, 15, 1, 149>>
        /\ t.turnaround = TRUE
    BY <1>2 DEF SimulationScript, Transaction
  <2>2. t.command[1] = 34 /\ t.response[1] = 8
    BY <2>1
  <2>3. CleanPhase(<<"Addr16", "Data32">>, t.command)
    BY <2>1, CleanCommands
  <2>4. CleanPhase(<<"Status16">>, t.response)
    BY <2>1, CleanResponses
  <2>5. QED
    BY <2>1, <2>2, <2>3, <2>4, CleanDecodes
<1>3. CASE i = 3
  <2>1. /\ t.command = <<5, 27>>
        /\ t.response = <<8, 0, 5, 136, 15, 1, 159>>
        /\ t.turnaround = TRUE
    BY <1>3 DEF SimulationScript, Transaction
  <2>2. t.command[1] = 5 /\ t.response[1] = 8
    BY <2>1
  <2>3. CleanPhase(<< >>, t.command)
    BY <2>1, CleanCommands
  <2>4. CleanPhase(<<"VwirePacket", "Status16">>, t.response)
    BY <2>1, CleanResponses
  <2>5. QED
    BY <2>1, <2>2, <2>3, <2>4, CleanDecodes
<1>4. CASE i = 4
  <2>1. /\ t.command = <<33, 0, 48, 184>>
        /\ t.response = <<8, 16, 1, 0, 0, 15, 1, 210>>
        /\ t.turnaround = TRUE
    BY <1>4 DEF SimulationScript, Transaction
  <2>2. t.command[1] = 33 /\ t.response[1] = 8
    BY <2>1
  <2>3. CleanPhase(<<"Addr16">>, t.command)
    BY <2>1, CleanCommands
  <2>4. CleanPhase(<<"Data32", "Status16">>, t.response)
    BY <2>1, CleanResponses
  <2>5. QED
    BY <2>1, <2>2, <2>3, <2>4, CleanDecodes
<1>5. CASE i = 5
  <2>1. /\ t.command = <<34, 0, 48, 1, 1, 0, 0, 51>>
        /\ t.response = <<8, 15, 1, 149>>
        /\ t.turnaround = TRUE
    BY <1>5 DEF SimulationScript, Transaction
  <2>2. t.command[1] = 34 /\ t.response[1] = 8
    BY <2>1
  <2>3. CleanPhase(<<"Addr16", "Data32">>, t.command)
    BY <2>1, CleanCommands
  <2>4. CleanPhase(<<"Status16">>, t.response)
    BY <2>1, CleanResponses
  <2>5. QED
    BY <2>1, <2>2, <2>3, <2>4, CleanDecodes
<1>6. CASE i = 6
  <2>1. /\ t.command = <<5, 27>>
        /\ t.response = <<8, 0, 5, 25, 15, 1, 93>>
        /\ t.turnaround = TRUE
    BY <1>6 DEF SimulationScript, Transaction
  <2>2. t.command[1] = 5 /\ t.response[1] = 8
    BY <2>1
  <2>3. CleanPhase(<< >>, t.command)
    BY <2>1, CleanCommands
  <2>4. CleanPhase(<<"VwirePacket", "Status16">>, t.response)
    BY <2>1, CleanResponses
  <2>5. QED
    BY <2>1, <2>2, <2>3, <2>4, CleanDecodes
<1>7. CASE i = 7
  <2>1. /\ t.command = <<5, 27>>
        /\ t.response = <<8, 0, 64, 17, 15, 1, 217>>
        /\ t.turnaround = TRUE
    BY <1>7 DEF SimulationScript, Transaction
  <2>2. t.command[1] = 5 /\ t.response[1] = 8
    BY <2>1
  <2>3. CleanPhase(<< >>, t.command)
    BY <2>1, CleanCommands
  <2>4. CleanPhase(<<"VwirePacket", "Status16">>, t.response)
    BY <2>1, CleanResponses
  <2>5. QED
    BY <2>1, <2>2, <2>3, <2>4, CleanDecodes
<1>8. CASE i = 8
  <2>1. /\ t.command = <<5, 27>>
        /\ t.response = <<8, 0, 64, 16, 15, 1, 178>>
        /\ t.turnaround = TRUE
    BY <1>8 DEF SimulationScript, Transaction
  <2>2. t.command[1] = 5 /\ t.response[1] = 8
    BY <2>1
  <2>3. CleanPhase(<< >>, t.command)
    BY <2>1, CleanCommands
  <2>4. CleanPhase(<<"VwirePacket", "Status16">>, t.response)
    BY <2>1, CleanResponses
  <2>5. QED
    BY <2>1, <2>2, <2>3, <2>4, CleanDecodes
<1>9. CASE i = 9
  <2>1. /\ t.command = <<34, 0, 8, 15, 0, 52, 139, 198>>
        /\ t.response = <<8, 15, 1, 149>>
        /\ t.turnaround = TRUE
    BY <1>9 DEF SimulationScript, Transaction
  <2>2. t.command[1] = 34 /\ t.response[1] = 8
    BY <2>1
  <2>3. CleanPhase(<<"Addr16", "Data32">>, t.command)
    BY <2>1, CleanCommands
  <2>4. CleanPhase(<<"Status16">>, t.response)
    BY <2>1, CleanResponses
  <2>5. QED
    BY <2>1, <2>2, <2>3, <2>4, CleanDecodes
<1>10. CASE i = 10
  <2>1. /\ t.command = <<33, 0, 32, 200>>
        /\ t.response = <<8, 0, 11, 0, 0, 15, 1, 145>>
        /\ t.turnaround = TRUE
    BY <1>10 DEF SimulationScript, Transaction
  <2>2. t.command[1] = 33 /\ t.response[1] = 8
    BY <2>1
  <2>3. CleanPhase(<<"Addr16">>, t.command)
    BY <2>1, CleanCommands
  <2>4. CleanPhase(<<"Data32", "Status16">>, t.response)
    BY <2>1, CleanResponses
  <2>5. QED
    BY <2>1, <2>2, <2>3, <2>4, CleanDecodes
<1>11. i \in {1, 2, 3, 4, 5, 6, 7, 8, 9, 10}
  OBVIOUS
<1>12. QED
  BY <1>1, <1>2, <1>3, <1>4, <1>5, <1>6, <1>7, <1>8, <1>9, <1>10, <1>11

(* The reset, all ones for sixteen clocks of Quad. *)
LEMMA ResetClean == Decodes(SimulationScript[11])
<1> DEFINE t == SimulationScript[11]
<1>1. /\ t.command = [k \in 1..8 |-> 255] /\ t.response = << >> /\ ~t.turnaround
      /\ t.mode = "Quad"
  BY DEF SimulationScript, Transaction
<1> HIDE DEF t
<1>2. Range(t.command) = {255}
  <2>1. 1 \in DOMAIN t.command /\ \A k \in DOMAIN t.command : t.command[k] = 255
    BY <1>1
  <2>2. QED
    BY <2>1 DEF Range
<1>3. Len(t.command) = 8
  BY <1>1
<1>4. ClocksPerByte("Quad") = 2
  BY DEF ClocksPerByte, BitsPerClock
<1>5. CleanReset(t)
  BY <1>1, <1>2, <1>3, <1>4 DEF CleanReset
<1>6. t.command[1] = 255
  BY <1>1
<1>7. OpcodeName(t) = "RESET" /\ KnownOpcode(t.command[1])
  BY <1>6, ScriptOpcodes DEF OpcodeName
<1>8. Decodes(t)
  BY <1>5, <1>7 DEF Decodes
<1>9. QED
  BY <1>8 DEF t

(* Every transaction of the script the settings choose decodes. *)
LEMMA ChosenDecodes ==
    ASSUME NEW mode \in IoMode, NEW lanes, NEW i \in 1..Len(SimulationScriptFrom(mode, lanes))
    PROVE  Decodes(SimulationScriptFrom(mode, lanes)[i])
<1> DEFINE script == SimulationScriptFrom(mode, lanes)
<1>1. CASE ~(mode = "Single" /\ lanes = 4)
  <2>1. /\ Len(script) = 8
        /\ \A k \in 1..8 : /\ script[k].command = SimulationScript[k].command
                           /\ script[k].response = SimulationScript[k].response
                           /\ script[k].turnaround = SimulationScript[k].turnaround
    BY <1>1, PartScript
  <2> HIDE DEF script
  <2>2. i \in 1..8 /\ i \in 1..10
    BY <2>1 DEF script
  <2>3. Decodes(script[i])
    BY <2>1, <2>2, ScriptClean
  <2>4. QED
    BY <2>3 DEF script
<1>2. CASE mode = "Single" /\ lanes = 4
  <2>1. script = SimulationScript
    BY <1>2, WholeScript
  <2>2. i \in 1..10 \/ i = 11
    BY <2>1, ScriptModes
  <2>3. QED
    BY <2>1, <2>2, ScriptClean, ResetClean
<1>3. QED
  BY <1>1, <1>2


(* What a session makes of an update keeps it a session. *)
LEMMA AppliedTyped ==
    ASSUME NEW s \in SessionState
    PROVE  /\ Apply(s, NoUpdate) = s
           /\ Apply(s, ResetUpdate) \in SessionState /\ Apply(s, ResetUpdate).mode = "Single"
           /\ LET quad == Apply(s, WrittenUpdate([enc |-> 2, crc |-> TRUE]))
              IN  quad \in SessionState /\ quad.mode = "Quad"
<1>1. Apply(s, NoUpdate) = s
  BY DEF Apply, NoUpdate
<1>2. ASSUME NEW u \in SessionUpdate, u.change \in {"GeneralConfigWritten", "InbandReset"},
             ~ModeReserved(u.config)
      PROVE  Apply(s, u) \in SessionState /\ Apply(s, u).mode = DecodedMode(u.config)
  BY <1>2 DEF Apply, Adopt, SessionState, SessionUpdate, GeneralConfig, DecodedMode, IoMode
<1>3. /\ ResetUpdate \in SessionUpdate /\ ResetUpdate.change = "InbandReset"
      /\ ~ModeReserved(ResetUpdate.config) /\ DecodedMode(ResetUpdate.config) = "Single"
  BY DEF ResetUpdate, SessionUpdate, Change, GeneralConfig, GeneralConfigResetState,
         ModeReserved, DecodedMode
<1>4. \A config \in GeneralConfig :
          config.enc = 2 => /\ WrittenUpdate(config) \in SessionUpdate
                            /\ WrittenUpdate(config).change = "GeneralConfigWritten"
                            /\ WrittenUpdate(config).config = config
                            /\ ~ModeReserved(config) /\ DecodedMode(config) = "Quad"
  BY DEF WrittenUpdate, SessionUpdate, Change, GeneralConfig, ModeReserved, DecodedMode
<1>5. [enc |-> 2, crc |-> TRUE] \in GeneralConfig /\ [enc |-> 2, crc |-> TRUE].enc = 2
  BY DEF GeneralConfig
<1>6. QED
  BY <1>1, <1>2, <1>3, <1>4, <1>5

(* The transaction after the i-th, of a script that is turned over. *)
After(script, i) == (i % Len(script)) + 1

(* SimulationScript.h, "the mode it ends in has to be the mode it begins    *)
(* in": a session in the mode of a transaction is, once that is applied, in *)
(* the mode of the next.                                                    *)
LEMMA NextInMode ==
    ASSUME NEW mode \in IoMode, NEW lanes, NEW i \in 1..Len(SimulationScriptFrom(mode, lanes)),
           NEW s \in SessionState, s.mode = SimulationScriptFrom(mode, lanes)[i].mode
    PROVE  LET script == SimulationScriptFrom(mode, lanes)
               next   == Apply(s, UpdateOf(script[i]))
           IN  next \in SessionState /\ next.mode = script[After(script, i)].mode
<1> DEFINE script == SimulationScriptFrom(mode, lanes)
           next == Apply(s, UpdateOf(script[i]))
<1>1. CASE ~(mode = "Single" /\ lanes = 4)
  <2>1. /\ Len(script) = 8
        /\ \A k \in 1..8 : script[k].mode = mode
        /\ \A k \in 1..8 : script[k].command = SimulationScript[k].command
    BY <1>1, PartScript
  <2> HIDE DEF script
  <2>2. i \in 1..8 /\ After(script, i) \in 1..8
    BY <2>1 DEF After, script
  <2>3. UpdateOf(script[i]) = NoUpdate
    BY <2>1, <2>2, BeforeExcursion
  <2>4. s.mode = mode
    BY <2>1, <2>2 DEF script
  <2>5. QED
    BY <2>1, <2>2, <2>3, <2>4, AppliedTyped DEF script
<1>2. CASE mode = "Single" /\ lanes = 4
  <2>1. script = SimulationScript
    BY <1>2, WholeScript
  <2>2. i \in 1..11 /\ s.mode = SimulationScript[i].mode
    BY <2>1, ScriptModes
  <2>3. CASE i \in 1..8
    <3>1. After(SimulationScript, i) = i + 1
      <4>1. i % 11 = i
        BY <2>3
      <4>2. QED
        BY <4>1, ScriptModes DEF After
    <3>2. UpdateOf(SimulationScript[i]) = NoUpdate
      BY <2>3, BeforeExcursion
    <3>3. i + 1 \in 1..9 /\ i \in 1..9
      BY <2>3
    <3>4. QED
      BY <2>1, <2>2, <3>1, <3>2, <3>3, ScriptModes, AppliedTyped
  <2>4. CASE i = 9
    <3>1. After(SimulationScript, 9) = 10
      BY ScriptModes DEF After
    <3>2. QED
      BY <2>1, <2>4, <3>1, ScriptModes, Excursion, AppliedTyped
  <2>5. CASE i = 10
    <3>1. After(SimulationScript, 10) = 11
      BY ScriptModes DEF After
    <3>2. QED
      BY <2>1, <2>2, <2>5, <3>1, ScriptModes, Excursion, AppliedTyped
  <2>6. CASE i = 11
    <3>1. After(SimulationScript, 11) = 1
      BY ScriptModes DEF After
    <3>2. 1 \in 1..9
      OBVIOUS
    <3>3. QED
      BY <2>1, <2>6, <3>1, <3>2, ScriptModes, Excursion, AppliedTyped
  <2>7. QED
    BY <2>2, <2>3, <2>4, <2>5, <2>6
<1>3. QED
  BY <1>1, <1>2

-----------------------------------------------------------------------------
(* Settings and samples *)

(* Lanes that are assigned from the first up are all counted. *)
LEMMA LanesCounted ==
    ASSUME NEW io \in SUBSET Lane, NEW m \in 1..4, 0..m - 1 \subseteq io
    PROVE  LanesAssigned(io) \in Nat /\ LanesAssigned(io) >= m
<1> DEFINE counted == {lane \in Lane : 0..lane \subseteq io}
<1>1. IsFiniteSet(counted) /\ Cardinality(counted) \in Nat
  <2>1. IsFiniteSet(Lane)
    <3>1. 0 \in Int /\ 3 \in Int
      OBVIOUS
    <3>2. QED
      BY <3>1, FS_Interval, Zenon DEF Lane
  <2>2. counted \in SUBSET Lane
    OBVIOUS
  <2>3. IsFiniteSet(counted)
    BY <2>1, <2>2, FS_Subset
  <2>4. QED
    BY <2>3, FS_CardinalityType
<1>2. 0..m - 1 \in SUBSET counted
  BY DEF Lane
<1>3. Cardinality(0..m - 1) = m
  BY FS_Interval
<1>4. Cardinality(0..m - 1) <= Cardinality(counted)
  BY <1>1, <1>2, FS_Subset
<1>5. QED
  BY <1>1, <1>3, <1>4 DEF LanesAssigned

(* What the dialog accepts has the lanes of its own mode, and the excursion *)
(* into Quad is only in the script when all four are there.                 *)
LEMMA ScriptFits ==
    ASSUME NEW s \in Settings, Acceptable(s),
           NEW i \in 1..Len(SimulationScriptFrom(s.mode, LanesAssigned(s.io)))
    PROVE  LET lanes == LanesAssigned(s.io)
           IN  /\ lanes \in Nat /\ LanesNeeded(s.mode) <= lanes
               /\ LanesNeeded(SimulationScriptFrom(s.mode, lanes)[i].mode) <= lanes
<1> DEFINE lanes == LanesAssigned(s.io)
<1>1. s.io \in SUBSET Lane /\ s.mode \in IoMode
  BY DEF Settings
<1>2. LanesNeeded(s.mode) \in 1..4 /\ LanesNeeded("Single") = 2 /\ LanesNeeded("Quad") = 4
  BY <1>1 DEF LanesNeeded, IoMode, BitsPerClock
<1>3. lanes \in Nat /\ LanesNeeded(s.mode) <= lanes
  BY <1>1, <1>2, LanesCounted DEF Acceptable
<1>4. CASE ~(s.mode = "Single" /\ lanes = 4)
  <2>1. SimulationScriptFrom(s.mode, lanes)[i].mode = s.mode
    <3> HIDE DEF lanes
    <3>1. /\ Len(SimulationScriptFrom(s.mode, lanes)) = 8
          /\ \A k \in 1..8 : SimulationScriptFrom(s.mode, lanes)[k].mode = s.mode
      BY <1>1, <1>4, PartScript, SMTT(30) DEF lanes
    <3>2. i \in 1..8
      BY <3>1 DEF lanes
    <3>3. QED
      BY <3>1, <3>2
  <2>2. QED
    BY <1>3, <2>1
<1>5. CASE s.mode = "Single" /\ lanes = 4
  <2>1. SimulationScriptFrom(s.mode, lanes) = SimulationScript
    BY <1>5, WholeScript
  <2>2. i \in 1..9 \cup {10, 11}
    BY <2>1, ScriptModes
  <2>3. SimulationScript[i].mode \in {"Single", "Quad"}
    BY <2>2, ScriptModes
  <2>4. QED
    BY <1>2, <1>3, <1>5, <2>1, <2>3
<1>6. QED
  BY <1>4, <1>5

(* A half clock period is some samples. *)
LEMMA HalfPeriodTyped == ASSUME NEW rate \in Nat PROVE HalfPeriodFor(rate) \in Nat \ {0}
BY DEF HalfPeriodFor, SimulationClock

(* The script has a place for each of its transactions. *)
LEMMA ScriptIsSequence ==
    ASSUME NEW mode \in IoMode, NEW lanes
    PROVE  LET script == SimulationScriptFrom(mode, lanes)
           IN  DOMAIN script = 1..Len(script)
<1>1. CASE ~(mode = "Single" /\ lanes = 4)
  <2>1. SimulationScriptFrom(mode, lanes)
            = [i \in 1..8 |-> [SimulationScript[i] EXCEPT !.mode = mode]]
    BY <1>1, ScriptModes DEF SimulationScriptFrom, ModeExcursionEntries
  <2>2. QED
    BY <2>1
<1>2. CASE mode = "Single" /\ lanes = 4
  <2>1. DOMAIN SimulationScript = 1..11
    BY DEF SimulationScript
  <2>2. QED
    BY <1>2, <2>1, WholeScript, ScriptModes
<1>3. QED
  BY <1>1, <1>2

(* The script chosen is one of two lengths and begins in the mode it is for. *)
LEMMA ScriptShape ==
    ASSUME NEW mode \in IoMode, NEW lanes
    PROVE  LET script == SimulationScriptFrom(mode, lanes)
           IN  /\ Len(script) \in {8, 11} /\ script[1].mode = mode
               /\ \A i \in 1..Len(script) : /\ script[i].mode \in IoMode
                                            /\ Len(script[i].command) \in Nat
                                            /\ Len(script[i].response) \in Nat
<1> DEFINE script == SimulationScriptFrom(mode, lanes)
<1>1. /\ Len(script) \in {8, 11} /\ script[1].mode = mode
      /\ \A i \in 1..Len(script) : /\ script[i].mode \in IoMode
                                   /\ Len(script[i].command) \in Nat
                                   /\ Len(script[i].response) \in Nat
  <2>1. CASE ~(mode = "Single" /\ lanes = 4)
    <3>1. /\ Len(script) = 8
          /\ \A i \in 1..8 : /\ script[i].mode = mode
                             /\ script[i].command = SimulationScript[i].command
                             /\ script[i].response = SimulationScript[i].response
      BY <2>1, PartScript
    <3>2. \A i \in 1..8 : i \in 1..11
      OBVIOUS
    <3>3. 1 \in 1..8
      OBVIOUS
    <3> HIDE DEF script
    <3>4. QED
      BY <3>1, <3>2, <3>3, ScriptLengths
  <2>2. CASE mode = "Single" /\ lanes = 4
    <3>1. script = SimulationScript
      BY <2>2, WholeScript
    <3>2. \A i \in 1..11 : i \in 1..9 \/ i \in {10, 11}
      OBVIOUS
    <3>3. 1 \in 1..9
      OBVIOUS
    <3> HIDE DEF script
    <3>4. QED
      BY <2>2, <3>1, <3>2, <3>3, ScriptModes, ScriptLengths DEF IoMode
  <2>3. QED
    BY <2>1, <2>2
<1>2. QED
  BY <1>1, Zenon

(* What most of its users need of that. *)
LEMMA ScriptTyped ==
    ASSUME NEW mode \in IoMode, NEW lanes
    PROVE  LET script == SimulationScriptFrom(mode, lanes)
           IN  Len(script) \in {8, 11} /\ script[1].mode = mode
BY ScriptShape, Zenon

(* A transaction takes samples, unless half a clock is none. *)
LEMMA SamplesTyped ==
    ASSUME NEW t, NEW halfPeriod \in Nat, t.mode \in IoMode,
           Len(t.command) \in Nat, Len(t.response) \in Nat
    PROVE  /\ SamplesOf(t, halfPeriod) \in Nat
           /\ halfPeriod # 0 => SamplesOf(t, halfPeriod) # 0
<1> DEFINE bytes == Len(t.command) + Len(t.response)
           clocks == ClocksPerByte(t.mode) * bytes
                       + (IF t.turnaround THEN TurnAroundClocks ELSE 0)
<1>1. ClocksPerByte(t.mode) \in {2, 4, 8}
  BY DEF ClocksPerByte, BitsPerClock, IoMode
<1>2. bytes \in Nat
  <2>1. \A a, b \in Nat : a + b \in Nat
    OBVIOUS
  <2>2. QED
    BY <2>1, Zenon
<1> HIDE DEF bytes
<1>3. clocks \in Nat
  BY <1>1, <1>2 DEF TurnAroundClocks
<1> HIDE DEF clocks
<1>4. 2 + 2 * clocks + 2 + 2 * IdleClocks \in Nat \ {0}
  BY <1>3 DEF IdleClocks
<1>5. /\ halfPeriod * (2 + 2 * clocks + 2 + 2 * IdleClocks) \in Nat
      /\ halfPeriod # 0 => halfPeriod * (2 + 2 * clocks + 2 + 2 * IdleClocks) # 0
  <2>1. \A h, m \in Nat : h * m \in Nat /\ (h # 0 /\ m # 0 => h * m # 0)
    OBVIOUS
  <2>2. QED
    BY <1>4, <2>1, Zenon
<1>6. QED
  BY <1>5 DEF SamplesOf, clocks, bytes

(* Each transaction of a script takes some. *)
LEMMA ScriptDraws ==
    ASSUME NEW mode \in IoMode, NEW lanes, NEW script, script = SimulationScriptFrom(mode, lanes),
           NEW i \in 1..Len(script), NEW halfPeriod \in Nat
    PROVE  /\ SamplesOf(script[i], halfPeriod) \in Nat
           /\ halfPeriod # 0 => SamplesOf(script[i], halfPeriod) # 0
<1> DEFINE from == SimulationScriptFrom(mode, lanes)
<1>1. \A j \in 1..Len(from) : /\ from[j].mode \in IoMode
                              /\ Len(from[j].command) \in Nat
                              /\ Len(from[j].response) \in Nat
  BY ScriptShape, Zenon
<1> HIDE DEF from
<1>2. script = from
  BY DEF from
<1>3. QED
  BY <1>1, <1>2, SamplesTyped, Zenon

-----------------------------------------------------------------------------
(* The inductive invariant *)

(* Once a run has begun to draw, the script is the one its settings call    *)
(* for; before that nothing is drawn, waited for or read.                   *)
Chosen ==
    IF generator.ready
    THEN /\ generator \in [ready : BOOLEAN,
                           script : {SimulationScriptFrom(settings.mode,
                                                          LanesAssigned(settings.io))},
                           rate : SimulationRates, halfPeriod : Nat, cursor : Nat, sample : Nat]
         /\ generator.cursor \in 0..Len(generator.script) - 1
    ELSE /\ generator = NoGenerator
         /\ target = None /\ drawn = << >> /\ session = None

(* What is drawn is the script, turned over, and goes on where it stands.   *)
Wave ==
    generator.ready =>
        /\ drawn \in Seq({generator.script[i] : i \in 1..Len(generator.script)})
        /\ \A i \in 1..Len(drawn) :
               drawn[i] = generator.script[((i - 1) % Len(generator.script)) + 1]
        /\ Len(drawn) < MaxDrawn => generator.cursor = Len(drawn) % Len(generator.script)

(* The session is in the mode of the transaction it has come to. *)
Following ==
    IF session = None THEN read = 0
    ELSE session.mode = generator.script[(read % Len(generator.script)) + 1].mode

(* Settings with channels have been through the dialog, here or before they *)
(* were archived.                                                           *)
Dialog == settings.channels => Acceptable(settings)

IInv == TypeOK /\ Chosen /\ Wave /\ Following /\ Dialog

LEMMA InitIInv == Init => IInv
<1> SUFFICES ASSUME Init PROVE IInv
  OBVIOUS
<1>1. DefaultSettings \in Settings
  BY DEF DefaultSettings, Settings, IoMode
<1>2. TypeOK
  BY <1>1 DEF Init, TypeOK, NoGenerator
<1>3. Chosen /\ Wave /\ Following
  BY DEF Init, Chosen, Wave, Following, NoGenerator
<1>4. Dialog
  BY DEF Init, Dialog, DefaultSettings
<1>5. QED
  BY <1>2, <1>3, <1>4 DEF IInv

(* EspiAnalyzerSettings.cpp: settings change only while nothing is drawn,   *)
(* to what the dialog accepts or to what an archive held.                   *)
LEMMA SettingsKept ==
    ASSUME IInv, ~generator.ready, settings' \in Settings,
           settings'.channels => Acceptable(settings'),
           UNCHANGED <<generator, target, drawn, given, read, session>>
    PROVE  IInv'
<1>1. TypeOK'
  BY DEF IInv, TypeOK
<1>2. Chosen' /\ Wave' /\ Following'
  BY DEF IInv, Chosen, Wave, Following
<1>3. Dialog'
  BY DEF Dialog
<1>4. QED
  BY <1>1, <1>2, <1>3 DEF IInv

LEMMA DialogKeeps ==
    ASSUME IInv, NEW new \in Settings, SetSettingsFromInterfaces(new)
    PROVE  IInv'
BY SettingsKept DEF SetSettingsFromInterfaces

(* The mode comes back from its bits per clock. *)
LEMMA LoadKeeps ==
    ASSUME IInv, NEW saved \in {new \in Settings : Acceptable(new)} \cup {DefaultSettings},
           LoadSettings(Archive(saved))
    PROVE  IInv'
<1>1. saved \in Settings /\ (saved.channels => Acceptable(saved))
  <2>1. DefaultSettings \in Settings /\ ~DefaultSettings.channels
    BY DEF DefaultSettings, Settings, IoMode
  <2>2. QED
    BY <2>1, Zenon
<1>2. saved.mode \in IoMode
  BY <1>1 DEF Settings
<1>3. NumberToMode(BitsPerClock(saved.mode)) = saved.mode
  BY <1>2 DEF NumberToMode, BitsPerClock, IoMode
<1>4. settings' = [channels |-> saved.channels, io |-> saved.io, mode |-> saved.mode]
  BY <1>3 DEF LoadSettings, Archive
<1>5. settings' = saved
  BY <1>1, <1>4 DEF Settings
<1>6. QED
  BY <1>1, <1>5, SettingsKept DEF LoadSettings

(* Initialize chooses the script or leaves the generator as it was. *)
LEMMA InitializedForm ==
    ASSUME TypeOK, Dialog, NEW rate \in SimulationRates
    PROVE  LET initialized == Initialized(rate)
               script      == SimulationScriptFrom(settings.mode, LanesAssigned(settings.io))
           IN  \/ initialized = NoGenerator
               \/ /\ initialized = [ready |-> TRUE, script |-> script, rate |-> rate,
                                    halfPeriod |-> HalfPeriodFor(rate), cursor |-> 0,
                                    sample |-> LeadInClocks * 2 * HalfPeriodFor(rate)]
                  /\ initialized.ready /\ initialized.script = script
                  /\ initialized.cursor = 0 /\ initialized.halfPeriod \in Nat
                  /\ initialized.sample \in Nat
                  /\ initialized \in [ready : BOOLEAN, script : {script}, rate : SimulationRates,
                                      halfPeriod : Nat, cursor : Nat, sample : Nat]
<1> DEFINE initialized == Initialized(rate)
           script == SimulationScriptFrom(settings.mode, LanesAssigned(settings.io))
           half == HalfPeriodFor(rate)
           started == [ready |-> TRUE, script |-> script, rate |-> rate, halfPeriod |-> half,
                       cursor |-> 0, sample |-> LeadInClocks * 2 * half]
<1>1. initialized = NoGenerator \/ initialized = started
  BY DEF Initialized
<1>2. half \in Nat
  BY SimulationAssumption, HalfPeriodTyped
<1> HIDE DEF half, script, initialized
<1>3. LeadInClocks * 2 * half \in Nat
  BY <1>2 DEF LeadInClocks
<1>4. started \in [ready : BOOLEAN, script : {script}, rate : SimulationRates,
                   halfPeriod : Nat, cursor : Nat, sample : Nat]
  BY <1>2, <1>3
<1>5. /\ started.ready /\ started.script = script /\ started.cursor = 0
      /\ started.halfPeriod = half /\ started.sample = LeadInClocks * 2 * half
  OBVIOUS
<1>6. QED
  BY <1>1, <1>2, <1>3, <1>4, <1>5, Zenon DEF initialized, script, half

(* The host's request in samples of the waveform. *)
LEMMA TargetTyped ==
    ASSUME NEW newest \in Nat, NEW rate \in Nat \ {0}, NEW deviceRate \in Nat \ {0}
    PROVE  TargetSample(newest, rate, deviceRate) \in Nat
<1>1. CASE deviceRate > rate
  <2>1. deviceRate \div rate \in Nat \ {0}
    BY <1>1
  <2>2. \A k \in Nat \ {0} : newest \div k \in Nat
    OBVIOUS
  <2>3. QED
    BY <1>1, <2>1, <2>2 DEF TargetSample
<1>2. CASE ~(deviceRate > rate)
  BY <1>2 DEF TargetSample
<1>3. QED
  BY <1>1, <1>2

(* A request sets the generator up, or finds it set up, and waits. *)
LEMMA RequestKeeps ==
    ASSUME IInv, NEW newest \in Requests, NEW rate \in SimulationRates,
           NEW deviceRate \in DeviceRates, Request(newest, rate, deviceRate)
    PROVE  IInv'
<1> DEFINE script == SimulationScriptFrom(settings.mode, LanesAssigned(settings.io))
<1>1. UNCHANGED <<settings, drawn, given, read, session>>
  BY DEF Request
<1>2. settings.mode \in IoMode
  BY DEF IInv, TypeOK, Settings
<1>3. Len(script) \in {8, 11} /\ 0 \in 0..Len(script) - 1
  BY <1>2, ScriptTyped
<1> HIDE DEF script
<1>4. CASE generator.ready
  <2>1. generator' = generator
        /\ target' = TargetSample(newest, generator.rate, deviceRate)
    BY <1>4 DEF Request
  <2>2. generator.rate \in SimulationRates
    BY <1>4 DEF IInv, Chosen
  <2>3. target' \in Nat
    BY <2>1, <2>2, TargetTyped, SimulationAssumption
  <2>4. TypeOK'
    BY <1>1, <2>1, <2>3 DEF IInv, TypeOK
  <2>5. Chosen' /\ Wave' /\ Following' /\ Dialog'
    BY <1>1, <1>4, <2>1 DEF IInv, Chosen, Wave, Following, Dialog
  <2>6. QED
    BY <2>4, <2>5 DEF IInv
<1>5. CASE ~generator.ready
  <2>1. generator' = Initialized(rate)
        /\ target' = IF Initialized(rate).ready
                     THEN TargetSample(newest, Initialized(rate).rate, deviceRate) ELSE None
    BY <1>5 DEF Request
  <2>2. drawn = << >> /\ session = None /\ given = 0 /\ read = 0
    BY <1>5 DEF IInv, Chosen, TypeOK
  <2>3. CASE Initialized(rate) = NoGenerator
    <3>1. generator' = generator /\ target' = None
      BY <1>5, <2>1, <2>3 DEF IInv, Chosen, NoGenerator
    <3>2. TypeOK'
      BY <1>1, <3>1 DEF IInv, TypeOK
    <3>3. Chosen' /\ Wave' /\ Following' /\ Dialog'
      BY <1>1, <1>5, <3>1 DEF IInv, Chosen, Wave, Following, Dialog
    <3>4. QED
      BY <3>2, <3>3 DEF IInv
  <2>4. CASE Initialized(rate) # NoGenerator
    <3>1. /\ generator'.ready /\ generator'.script = script /\ generator'.cursor = 0
          /\ generator'.halfPeriod \in Nat /\ generator'.sample \in Nat
          /\ generator' \in [ready : BOOLEAN, script : {script}, rate : SimulationRates,
                             halfPeriod : Nat, cursor : Nat, sample : Nat]
      BY <2>1, <2>4, InitializedForm DEF IInv, script
    <3>2. target' \in Nat
      BY <2>1, <3>1, TargetTyped, SimulationAssumption
    <3>3. TypeOK'
      BY <1>1, <1>3, <3>1, <3>2 DEF IInv, TypeOK
    <3>4. Chosen'
      BY <1>1, <1>3, <3>1 DEF Chosen, script
    <3>5. Wave'
      <4>1. drawn' = << >> /\ Len(drawn') = 0 /\ 0 % 8 = 0 /\ 0 % 11 = 0
        BY <1>1, <2>2
      <4>2. QED
        BY <1>3, <3>1, <4>1 DEF Wave
    <3>6. Following' /\ Dialog'
      BY <1>1, <2>2 DEF IInv, Following, Dialog
    <3>7. QED
      BY <3>3, <3>4, <3>5, <3>6 DEF IInv
  <2>5. QED
    BY <2>3, <2>4
<1>6. QED
  BY <1>4, <1>5

(* A turn of the loop draws the transaction the cursor is at and moves on,  *)
(* past the end of the script to its beginning.                             *)
LEMMA EmitKeeps ==
    ASSUME IInv, EmitTransaction
    PROVE  IInv'
<1> DEFINE script == generator.script
           at     == generator.cursor + 1
           taken  == SamplesOf(script[at], generator.halfPeriod)
<1>1. generator.ready
  BY DEF EmitTransaction, IInv, Chosen
<1>2. /\ drawn' = Drawn(script[at])
      /\ generator' = [generator EXCEPT !.sample = @ + taken,
                                        !.cursor = (@ + 1) % Len(script)]
      /\ UNCHANGED <<settings, target, given, read, session>>
  BY DEF EmitTransaction
<1>3. /\ generator \in [ready : BOOLEAN,
                        script : {SimulationScriptFrom(settings.mode, LanesAssigned(settings.io))},
                        rate : SimulationRates, halfPeriod : Nat, cursor : Nat, sample : Nat]
      /\ script = SimulationScriptFrom(settings.mode, LanesAssigned(settings.io))
      /\ generator.cursor \in 0..Len(script) - 1
  BY <1>1 DEF IInv, Chosen
<1>4. Len(script) \in {8, 11} /\ at \in 1..Len(script) /\ taken \in Nat
  <2>1. settings.mode \in IoMode /\ generator.halfPeriod \in Nat
    BY <1>3 DEF IInv, TypeOK, Settings
  <2>2. Len(script) \in {8, 11}
    BY <1>3, <2>1, ScriptTyped
  <2>3. at \in 1..Len(script)
    BY <1>3, <2>2
  <2>4. \A i \in 1..Len(script), halfPeriod \in Nat : SamplesOf(script[i], halfPeriod) \in Nat
    BY <1>3, <2>1, ScriptDraws
  <2> HIDE DEF script
  <2>5. QED
    BY <2>1, <2>2, <2>3, <2>4
<1>5. (generator.cursor + 1) % Len(script) \in 0..Len(script) - 1
  BY <1>3, <1>4
<1> HIDE DEF taken, at, script
<1>6. /\ generator'.ready = generator.ready /\ generator'.script = script
      /\ generator'.cursor = (generator.cursor + 1) % Len(script)
      /\ generator'.halfPeriod = generator.halfPeriod
      /\ generator'.sample = generator.sample + taken
      /\ generator' \in [ready : BOOLEAN,
                         script : {SimulationScriptFrom(settings.mode, LanesAssigned(settings.io))},
                         rate : SimulationRates, halfPeriod : Nat, cursor : Nat, sample : Nat]
  <2>1. (generator.cursor + 1) % Len(script) \in Nat
    BY <1>4, <1>5
  <2>2. generator.sample + taken \in Nat
    BY <1>3, <1>4
  <2>3. QED
    BY <1>2, <1>3, <2>1, <2>2 DEF script
<1>7. /\ drawn \in Seq({script[i] : i \in 1..Len(script)})
      /\ \A i \in 1..Len(drawn) : drawn[i] = script[((i - 1) % Len(script)) + 1]
      /\ Len(drawn) < MaxDrawn => generator.cursor = Len(drawn) % Len(script)
  BY <1>1 DEF IInv, Wave, script
<1>8. \/ drawn' = drawn /\ ~(Len(drawn) < MaxDrawn)
      \/ drawn' = Append(drawn, script[at]) /\ Len(drawn) < MaxDrawn
  BY <1>2 DEF Drawn
<1>9. /\ drawn' \in Seq({script[i] : i \in 1..Len(script)})
      /\ Len(drawn) \in Nat /\ Len(drawn') \in Nat /\ Len(drawn') >= Len(drawn)
  <2> DEFINE S == {script[i] : i \in 1..Len(script)}
  <2>1. script[at] \in S /\ drawn \in Seq(S)
    BY <1>4, <1>7
  <2> HIDE DEF S
  <2>2. drawn' \in Seq(S) /\ Len(drawn) \in Nat /\ Len(drawn') \in Nat /\ Len(drawn') >= Len(drawn)
    BY <1>8, <2>1
  <2>3. QED
    BY <2>2 DEF S
<1>10. TypeOK'
  <2>1. read' \in 0..given' /\ given' \in 0..Len(drawn')
    BY <1>2, <1>9 DEF IInv, TypeOK
  <2>2. generator'.ready \in BOOLEAN /\ generator'.sample \in Nat
        /\ generator'.halfPeriod \in Nat /\ generator'.cursor \in 0..Len(generator'.script) - 1
    BY <1>5, <1>6
  <2>3. QED
    BY <1>2, <2>1, <2>2 DEF IInv, TypeOK
<1>11. Chosen'
  BY <1>1, <1>2, <1>5, <1>6 DEF Chosen
<1>12. Wave'
  <2>1. CASE drawn' = drawn /\ ~(Len(drawn) < MaxDrawn)
    BY <1>6, <1>7, <2>1 DEF Wave
  <2>2. CASE drawn' = Append(drawn, script[at]) /\ Len(drawn) < MaxDrawn
    <3>1. Len(drawn') = Len(drawn) + 1 /\ drawn'[Len(drawn) + 1] = script[at]
          /\ \A i \in 1..Len(drawn) : drawn'[i] = drawn[i]
      BY <1>7, <2>2
    <3>2. at = (Len(drawn) % Len(script)) + 1
      BY <1>7, <2>2 DEF at
    <3>3. ASSUME NEW i \in 1..Len(drawn')
          PROVE  drawn'[i] = script[((i - 1) % Len(script)) + 1]
      <4>1. CASE i \in 1..Len(drawn)
        BY <1>7, <3>1, <4>1
      <4>2. CASE i = Len(drawn) + 1
        <5>1. i - 1 = Len(drawn)
          BY <1>9, <4>2
        <5>2. QED
          BY <3>1, <3>2, <4>2, <5>1
      <4>3. i \in 1..Len(drawn) \/ i = Len(drawn) + 1
        BY <1>9, <3>1
      <4>4. QED
        BY <4>1, <4>2, <4>3
    <3>4. generator'.cursor = Len(drawn') % Len(script)
      <4>1. generator.cursor = Len(drawn) % Len(script)
        BY <1>7, <2>2
      <4>2. \A n \in Nat : /\ ((n % 8) + 1) % 8 = (n + 1) % 8
                           /\ ((n % 11) + 1) % 11 = (n + 1) % 11
        OBVIOUS
      <4>3. CASE Len(script) = 8
        BY <1>6, <1>9, <3>1, <4>1, <4>2, <4>3, SMTT(30)
      <4>4. CASE Len(script) = 11
        BY <1>6, <1>9, <3>1, <4>1, <4>2, <4>4, SMTT(30)
      <4>5. QED
        BY <1>4, <4>3, <4>4
    <3>5. QED
      BY <1>6, <1>9, <3>3, <3>4 DEF Wave
  <2>3. QED
    BY <1>8, <2>1, <2>2
<1>13. Following' /\ Dialog'
  BY <1>2, <1>6 DEF IInv, Following, Dialog, script
<1>14. QED
  BY <1>10, <1>11, <1>12, <1>13 DEF IInv

LEMMA HandOverKeeps ==
    ASSUME IInv, HandOver
    PROVE  IInv'
<1>1. target' = None /\ given' = Len(drawn)
      /\ UNCHANGED <<settings, generator, drawn, read, session>>
  BY DEF HandOver
<1>2. generator.ready
  BY DEF HandOver, IInv, Chosen
<1>3. Len(drawn) \in Nat
  BY <1>2 DEF IInv, Wave
<1>4. TypeOK'
  BY <1>1, <1>3 DEF IInv, TypeOK
<1>5. Chosen' /\ Wave' /\ Following' /\ Dialog'
  BY <1>1, <1>2 DEF IInv, Chosen, Wave, Following, Dialog
<1>6. QED
  BY <1>4, <1>5 DEF IInv

(* The worker starts in the user's mode, which is that of the script. *)
LEMMA StartKeeps ==
    ASSUME IInv, StartWorker
    PROVE  IInv'
<1>1. /\ generator.ready /\ session = None /\ session' = InitialSession(settings.mode)
      /\ UNCHANGED <<settings, generator, target, drawn, given, read>>
  BY DEF StartWorker
<1>2. settings.mode \in IoMode
  BY DEF IInv, TypeOK, Settings
<1>3. session' \in SessionState /\ session'.mode = settings.mode
  BY <1>1, <1>2 DEF InitialSession, SessionState
<1>4. TypeOK'
  BY <1>1, <1>3 DEF IInv, TypeOK
<1>5. Chosen' /\ Wave' /\ Dialog'
  BY <1>1 DEF IInv, Chosen, Wave, Dialog
<1>6. Following'
  <2> DEFINE script == generator.script
  <2>1. read = 0 /\ read' = 0 /\ generator' = generator /\ session' # None
    BY <1>1, <1>3, NoneAssumption DEF IInv, Following
  <2>2. Len(script) \in {8, 11} /\ script[1].mode = settings.mode
    BY <1>1, <1>2, ScriptTyped DEF IInv, Chosen
  <2> HIDE DEF script
  <2>3. (0 % Len(script)) + 1 = 1
    BY <2>2
  <2>4. QED
    BY <1>3, <2>1, <2>2, <2>3 DEF Following, script
<1>7. QED
  BY <1>4, <1>5, <1>6 DEF IInv

(* What the worker has read of the waveform leaves it in the mode of what   *)
(* it reads next, in this turn of the script and over to the next.          *)
LEMMA DecodeKeeps ==
    ASSUME IInv, DecodeAndApply
    PROVE  IInv'
<1> DEFINE script == generator.script
           at     == (read % Len(script)) + 1
<1>1. /\ session # None /\ read < given /\ session.mode = drawn[read + 1].mode
      /\ session' = Apply(session, UpdateOf(drawn[read + 1]))
      /\ read' = read + 1
      /\ UNCHANGED <<settings, generator, target, drawn, given>>
  BY DEF DecodeAndApply
<1>2. session \in SessionState /\ settings.mode \in IoMode
      /\ read \in Nat /\ given \in Nat /\ given <= Len(drawn)
  BY <1>1 DEF IInv, TypeOK, Settings
<1>3. generator.ready
  BY <1>1 DEF IInv, Chosen
<1>4. script = SimulationScriptFrom(settings.mode, LanesAssigned(settings.io))
  BY <1>3 DEF IInv, Chosen
<1>5. Len(script) \in {8, 11}
  BY <1>2, <1>4, ScriptTyped
<1> HIDE DEF script
<1>6. at \in 1..Len(script)
  <2>1. read % 8 \in 0..7 /\ read % 11 \in 0..10
    BY <1>2
  <2>2. CASE Len(script) = 8
    BY <2>1, <2>2
  <2>3. CASE Len(script) = 11
    BY <2>1, <2>3
  <2>4. QED
    BY <1>5, <2>2, <2>3
<1>7. drawn[read + 1] = script[at]
  <2>1. read + 1 \in 1..Len(drawn) /\ (read + 1) - 1 = read
    <3>1. Len(drawn) \in Nat
      BY <1>3 DEF IInv, Wave
    <3>2. QED
      BY <1>1, <1>2, <3>1
  <2>2. drawn[read + 1] = script[(((read + 1) - 1) % Len(script)) + 1]
    BY <1>3, <2>1 DEF IInv, Wave, script
  <2>3. QED
    BY <2>1, <2>2
<1> HIDE DEF at
<1>8. session' \in SessionState /\ session'.mode = script[After(script, at)].mode
  BY <1>1, <1>2, <1>4, <1>6, <1>7, NextInMode
<1>9. After(script, at) = (read' % Len(script)) + 1
  <2>1. \A n \in Nat : /\ ((n % 8) + 1) % 8 = (n + 1) % 8
                       /\ ((n % 11) + 1) % 11 = (n + 1) % 11
    OBVIOUS
  <2>2. QED
    BY <1>1, <1>2, <1>5, <2>1 DEF After, at
<1>10. TypeOK'
  BY <1>1, <1>2, <1>8 DEF IInv, TypeOK
<1>11. Chosen' /\ Wave' /\ Dialog'
  BY <1>1, <1>3 DEF IInv, Chosen, Wave, Dialog
<1>12. Following'
  <2>1. session' # None /\ generator' = generator
    BY <1>1, <1>8, NoneAssumption
  <2>2. QED
    BY <1>8, <1>9, <2>1 DEF Following, script
<1>13. QED
  BY <1>10, <1>11, <1>12 DEF IInv

LEMMA StutterKeeps ==
    ASSUME IInv, UNCHANGED vars
    PROVE  IInv'
<1>1. TypeOK'
  BY DEF IInv, TypeOK, vars
<1>2. Chosen' /\ Wave' /\ Following' /\ Dialog'
  BY DEF IInv, Chosen, Wave, Following, Dialog, vars
<1>3. QED
  BY <1>1, <1>2 DEF IInv

-----------------------------------------------------------------------------
(* Theorems *)

(* However often the script is turned over, drawing and reading are at the  *)
(* places of it that the invariant says.                                    *)
THEOREM Invariance == Spec => []IInv
<1>1. Init => IInv
  BY InitIInv
<1>2. IInv /\ [Next]_vars => IInv'
  <2> SUFFICES ASSUME IInv, [Next]_vars PROVE IInv'
    OBVIOUS
  <2>1. CASE \E new \in Settings : SetSettingsFromInterfaces(new)
    BY <2>1, DialogKeeps
  <2>2. CASE \E saved \in {new \in Settings : Acceptable(new)} \cup {DefaultSettings} :
                 LoadSettings(Archive(saved))
    BY <2>2, LoadKeeps
  <2>3. CASE \E newest \in Requests, rate \in SimulationRates, deviceRate \in DeviceRates :
                 Request(newest, rate, deviceRate)
    BY <2>3, RequestKeeps
  <2>4. CASE EmitTransaction
    BY <2>4, EmitKeeps
  <2>5. CASE HandOver
    BY <2>5, HandOverKeeps
  <2>6. CASE StartWorker
    BY <2>6, StartKeeps
  <2>7. CASE DecodeAndApply
    BY <2>7, DecodeKeeps
  <2>8. CASE UNCHANGED vars
    BY <2>8, StutterKeeps
  <2>9. QED
    BY <2>1, <2>2, <2>3, <2>4, <2>5, <2>6, <2>7, <2>8 DEF Next
<1>3. QED
  BY <1>1, <1>2, PTL DEF Spec

(* Every variable keeps its type, and the cursor is on a transaction of the *)
(* script.                                                                  *)
THEOREM TypeCorrect == Spec => []TypeOK
<1>1. IInv => TypeOK
  BY DEF IInv
<1>2. QED
  BY <1>1, Invariance, PTL

(* SimulationScript.h: "the mode it ends in has to be the mode it begins    *)
(* in". For any rates and requests and any number of turns of the script    *)
(* the worker, which knows the starting mode and what it has read, is in    *)
(* the mode of the transaction it reads next.                               *)
THEOREM ReadsInMode == Spec => []ReaderInMode
<1>1. IInv => ReaderInMode
  <2> SUFFICES ASSUME IInv, session # None, read < Len(drawn)
               PROVE  session.mode = drawn[read + 1].mode
    BY DEF ReaderInMode
  <2> DEFINE script == generator.script
  <2>1. generator.ready
    BY DEF IInv, Chosen
  <2>2. read + 1 \in 1..Len(drawn) /\ (read + 1) - 1 = read
    <3>1. Len(drawn) \in Nat /\ read \in Nat
      BY <2>1 DEF IInv, Wave, TypeOK
    <3>2. QED
      BY <3>1
  <2>3. drawn[read + 1] = script[(((read + 1) - 1) % Len(script)) + 1]
    BY <2>1, <2>2 DEF IInv, Wave
  <2>4. session.mode = script[(read % Len(script)) + 1].mode
    BY DEF IInv, Following
  <2>5. QED
    BY <2>2, <2>3, <2>4
<1>2. QED
  BY <1>1, Invariance, PTL

(* SimulationScript.h: the literal bytes are cut where the decoder cuts     *)
(* them. In any turn of the script, for any rates and requests, what the    *)
(* worker reads next has a known opcode, phases as long as their shapes say *)
(* with the CRC the decoder computes, or is a reset of sixteen clocks.      *)
THEOREM ScriptReads == Spec => []ScriptDecodes
<1>1. IInv => ScriptDecodes
  <2> SUFFICES ASSUME IInv, read < Len(drawn)
               PROVE  Decodes(drawn[read + 1])
    BY DEF ScriptDecodes, Decodes
  <2> DEFINE script == generator.script
             at     == (read % Len(script)) + 1
  <2>1. read \in Nat
    BY DEF IInv, TypeOK
  <2>2. generator.ready
    BY <2>1 DEF IInv, Chosen
  <2>3. script = SimulationScriptFrom(settings.mode, LanesAssigned(settings.io))
        /\ settings.mode \in IoMode
    BY <2>2 DEF IInv, Chosen, TypeOK, Settings
  <2>4. Len(script) \in {8, 11}
    BY <2>3, ScriptTyped
  <2>5. drawn[read + 1] = script[at]
    <3>1. read + 1 \in 1..Len(drawn) /\ (read + 1) - 1 = read
      <4>1. Len(drawn) \in Nat
        BY <2>2 DEF IInv, Wave
      <4>2. QED
        BY <2>1, <4>1
    <3>2. drawn[read + 1] = script[(((read + 1) - 1) % Len(script)) + 1]
      BY <2>2, <3>1 DEF IInv, Wave
    <3>3. QED
      BY <3>1, <3>2
  <2> HIDE DEF script
  <2>6. at \in 1..Len(script)
    <3>1. read % 8 \in 0..7 /\ read % 11 \in 0..10
      BY <2>1
    <3>2. CASE Len(script) = 8
      BY <3>1, <3>2
    <3>3. CASE Len(script) = 11
      BY <3>1, <3>3
    <3>4. QED
      BY <2>4, <3>2, <3>3
  <2> HIDE DEF at
  <2>7. QED
    BY <2>3, <2>5, <2>6, ChosenDecodes
<1>2. QED
  BY <1>1, Invariance, PTL

(* EspiSimulationGenerator.cpp:70-86: at any rate, the generator draws for  *)
(* all settings the dialog accepts: no transaction of the script it chooses *)
(* needs a lane that is not assigned.                                       *)
THEOREM AcceptedDraw == Spec => []AcceptedSettingsDraw
<1>1. IInv => AcceptedSettingsDraw
  <2> SUFFICES ASSUME IInv, settings.channels, NEW rate \in SimulationRates
               PROVE  Initialized(rate).ready
    BY DEF AcceptedSettingsDraw
  <2> DEFINE lanes  == LanesAssigned(settings.io)
             script == SimulationScriptFrom(settings.mode, lanes)
             needed == {LanesNeeded(settings.mode)} \cup {LanesNeeded(t.mode) : t \in Range(script)}
  <2>1. settings \in Settings /\ Acceptable(settings) /\ settings.mode \in IoMode
    BY DEF IInv, TypeOK, Dialog, Settings
  <2>2. LanesNeeded(settings.mode) <= lanes
    <3>1. 1 \in 1..Len(script)
      BY <2>1, ScriptTyped
    <3>2. QED
      BY <2>1, <3>1, ScriptFits
  <2>3. ASSUME NEW t \in Range(script) PROVE LanesNeeded(t.mode) <= lanes
    <3>1. PICK i \in DOMAIN script : t = script[i]
      BY DEF Range
    <3>2. DOMAIN script = 1..Len(script)
      BY <2>1, ScriptIsSequence
    <3>3. i \in 1..Len(script)
      BY <3>2
    <3>4. QED
      BY <2>1, <3>1, <3>3, ScriptFits
  <2>4. \A count \in needed : count <= lanes
    BY <2>2, <2>3
  <2>5. QED
    BY <2>4 DEF Initialized
<1>2. QED
  BY <1>1, Invariance, PTL

(* The generator's half period, once it has one, is not zero. *)
Floored == generator.ready => generator.halfPeriod # 0

(* Each step leaves the half period as it is, or takes it from a rate. *)
LEMMA FlooredKept ==
    ASSUME IInv, Floored, [Next]_vars
    PROVE  Floored'
<1>1. CASE generator' = generator
  BY <1>1 DEF Floored
<1>2. CASE EmitTransaction
  <2>1. generator.ready
    BY <1>2 DEF EmitTransaction, IInv, Chosen
  <2>2. generator'.halfPeriod = generator.halfPeriod
    <3>1. generator \in [ready : BOOLEAN,
                         script : {SimulationScriptFrom(settings.mode,
                                                        LanesAssigned(settings.io))},
                         rate : SimulationRates, halfPeriod : Nat, cursor : Nat, sample : Nat]
      BY <2>1 DEF IInv, Chosen
    <3>2. QED
      BY <1>2, <3>1 DEF EmitTransaction
  <2>3. QED
    BY <2>1, <2>2 DEF Floored
<1>3. ASSUME NEW newest \in Requests, NEW rate \in SimulationRates, NEW deviceRate \in DeviceRates,
             Request(newest, rate, deviceRate), ~generator.ready
      PROVE  Floored'
  <2>1. generator' = Initialized(rate)
    BY <1>3 DEF Request
  <2>2. HalfPeriodFor(rate) # 0
    BY HalfPeriodTyped, SimulationAssumption
  <2>3. \/ Initialized(rate) = NoGenerator
        \/ Initialized(rate).halfPeriod = HalfPeriodFor(rate)
    BY DEF Initialized
  <2>4. QED
    BY <2>1, <2>2, <2>3 DEF Floored, NoGenerator
<1>4. QED
  <2>1. CASE \E new \in Settings : SetSettingsFromInterfaces(new)
    BY <1>1, <2>1 DEF SetSettingsFromInterfaces
  <2>2. CASE \E saved \in {new \in Settings : Acceptable(new)} \cup {DefaultSettings} :
                 LoadSettings(Archive(saved))
    BY <1>1, <2>2 DEF LoadSettings
  <2>3. CASE \E newest \in Requests, rate \in SimulationRates, deviceRate \in DeviceRates :
                 Request(newest, rate, deviceRate)
    BY <1>1, <1>3, <2>3 DEF Request
  <2>4. CASE HandOver \/ StartWorker \/ DecodeAndApply \/ UNCHANGED vars
    BY <1>1, <2>4 DEF HandOver, StartWorker, DecodeAndApply, vars
  <2>5. QED
    BY <1>2, <2>1, <2>2, <2>3, <2>4 DEF Next

(* EspiSimulationGenerator.cpp:28, :215-219: the loop that draws up to a    *)
(* sample gets nearer to it with every turn, at any rate and in any script  *)
(* the settings choose.                                                     *)
THEOREM TurnsAdvance == Spec => EveryTurnDraws
<1>1. Init => Floored
  BY DEF Init, NoGenerator, Floored
<1>2. IInv /\ Floored /\ [Next]_vars => Floored'
  BY FlooredKept
<1>3. IInv /\ Floored /\ [Next]_vars
      => [EmitTransaction => generator'.sample > generator.sample]_vars
  <2> SUFFICES ASSUME IInv, Floored, EmitTransaction
               PROVE  generator'.sample > generator.sample
    OBVIOUS
  <2> DEFINE script == generator.script
             at     == generator.cursor + 1
             taken  == SamplesOf(script[at], generator.halfPeriod)
  <2>1. /\ generator.ready
        /\ generator \in [ready : BOOLEAN,
                          script : {SimulationScriptFrom(settings.mode,
                                                         LanesAssigned(settings.io))},
                          rate : SimulationRates, halfPeriod : Nat, cursor : Nat, sample : Nat]
        /\ generator.cursor \in 0..Len(script) - 1
    BY DEF EmitTransaction, IInv, Chosen
  <2>2. /\ script = SimulationScriptFrom(settings.mode, LanesAssigned(settings.io))
        /\ settings.mode \in IoMode /\ generator.halfPeriod \in Nat
        /\ generator.sample \in Nat
    BY <2>1 DEF IInv, TypeOK, Settings
  <2>3. generator'.sample = generator.sample + taken
    BY <2>1 DEF EmitTransaction
  <2> HIDE DEF script
  <2>4. Len(script) \in {8, 11}
    BY <2>2, ScriptTyped
  <2>5. at \in 1..Len(script) /\ generator.halfPeriod # 0
    BY <2>1, <2>4 DEF Floored
  <2> HIDE DEF at
  <2>6. taken \in Nat /\ taken # 0
    BY <2>2, <2>5, ScriptDraws
  <2> HIDE DEF taken
  <2>7. QED
    BY <2>2, <2>3, <2>6
<1>4. QED
  BY <1>1, <1>2, <1>3, Invariance, PTL DEF Spec, EveryTurnDraws

(* However long the phase, however many wait states and whatever the wire  *)
(* does, the two registers differ as the invariant says.                    *)
THEOREM PhaseInvariance == PhaseSpec => []PhaseInv
<1>1. PhaseInit => PhaseInv
  <2> SUFFICES ASSUME PhaseInit PROVE PhaseInv
    OBVIOUS
  <2>1. PhaseTypeOK
    <3>1. 0 \in Byte /\ 0 \in 0..Several
      BY DEF Byte, Several
    <3>2. QED
      BY <3>1, Zenon DEF PhaseInit, PhaseTypeOK, Seed
  <2>2. ~((Ones(0) + Ones(0)) % 2 = 1)
    BY DEF Ones
  <2>3. Register
    <3>1. laid = 0 /\ mCrc = 0 /\ damaged = 0 /\ damaged # 1 /\ odd = FALSE
      BY DEF PhaseInit, Seed
    <3>2. odd = ((Ones(laid) + Ones(mCrc)) % 2 = 1)
      BY <2>2, <3>1, Zenon
    <3>3. QED
      BY <3>1, <3>2, Zenon DEF Register
  <2>4. FieldTells /\ OddDamageShows
    BY DEF PhaseInit, FieldTells, OddDamageShows
  <2>5. QED
    BY <2>1, <2>3, <2>4 DEF PhaseInv
<1>2. PhaseInv /\ [PhaseNext]_phaseVars => PhaseInv'
  <2> SUFFICES ASSUME PhaseInv, [PhaseNext]_phaseVars PROVE PhaseInv'
    OBVIOUS
  <2>1. ASSUME NEW sent \in Contents, NEW seen \in Seen(sent), WaitState(sent, seen)
        PROVE  PhaseInv'
    <3>1. PhaseTypeOK'
      BY <2>1 DEF WaitState, PhaseInv, PhaseTypeOK
    <3>2. Register'
      BY <2>1 DEF WaitState, PhaseInv, Register
    <3>3. FieldTells' /\ OddDamageShows'
      BY <2>1 DEF WaitState, FieldTells, OddDamageShows
    <3>4. QED
      BY <3>1, <3>2, <3>3 DEF PhaseInv
  <2>2. ASSUME NEW sent \in Contents, NEW seen \in Seen(sent), FirstByte(sent, seen)
        PROVE  PhaseInv'
    BY <2>2, ContentsTyped, ReadKeeps DEF FirstByte
  <2>3. ASSUME NEW sent \in Contents, NEW seen \in Seen(sent), ElementByte(sent, seen)
        PROVE  PhaseInv'
    BY <2>3, ContentsTyped, ReadKeeps DEF ElementByte
  <2>4. ASSUME NEW seen \in Seen(laid), ReadCrc(seen)
        PROVE  PhaseInv'
    <3>1. laid \in Byte
      BY DEF PhaseInv, PhaseTypeOK
    <3>2. QED
      BY <2>4, <3>1, SeenTyped, ReadCrcKeeps
  <2>5. CASE UNCHANGED phaseVars
    <3>1. PhaseTypeOK'
      BY <2>5 DEF phaseVars, PhaseInv, PhaseTypeOK
    <3>2. Register'
      BY <2>5 DEF phaseVars, PhaseInv, Register
    <3>3. FieldTells' /\ OddDamageShows'
      BY <2>5 DEF phaseVars, PhaseInv, FieldTells, OddDamageShows
    <3>4. QED
      BY <3>1, <3>2, <3>3 DEF PhaseInv
  <2>6. QED
    BY <2>1, <2>2, <2>3, <2>4, <2>5 DEF PhaseNext
<1>3. QED
  BY <1>1, <1>2, PTL DEF PhaseSpec

(* The registers are bytes, the histories what they are said to be. *)
THEOREM PhaseTypeCorrect == PhaseSpec => []PhaseTypeOK
<1>1. PhaseInv => PhaseTypeOK
  BY DEF PhaseInv
<1>2. QED
  BY <1>1, PhaseInvariance, PTL

(* Crc8.cpp:6-15, and Crc8.h, "excluding any WAIT_STATE response bytes": of a *)
(* phase of any length that came over as it was sent, or with one byte changed *)
(* in any way, the CRC field says which.                                       *)
THEOREM FieldIsRight == PhaseSpec => []FieldTells
<1>1. PhaseInv => FieldTells
  BY DEF PhaseInv
<1>2. QED
  BY <1>1, PhaseInvariance, PTL

(* Crc8.h:40: an odd number of bits inverted, in any number of bytes, shows.*)
THEOREM OddDamageCaught == PhaseSpec => []OddDamageShows
<1>1. PhaseInv => OddDamageShows
  BY DEF PhaseInv
<1>2. QED
  BY <1>1, PhaseInvariance, PTL

=============================================================================
