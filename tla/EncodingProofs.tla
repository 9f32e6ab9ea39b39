---------------------------- MODULE EncodingProofs ---------------------------
(***************************************************************************)
(* Theorems of module Encoding, for every line: any instruction with any   *)
(* operands and an immediate of any size, and any values in the registers  *)
(* of up to 30 bits.  First come numbers and their bits, then the fields   *)
(* of a word and the way back through the decoder, format by format, then  *)
(* the names of registers and the invariant, and last what the expansions  *)
(* compute.                                                                *)
(***************************************************************************)
EXTENDS Encoding, WellFoundedInduction, TLAPS

-----------------------------------------------------------------------------
(* Powers of two                                                           *)

(* Induction, for a set in place of a predicate.                           *)
LEMMA SetInduction ==
    ASSUME NEW T, 0 \in T, \A n \in Nat : n \in T => n + 1 \in T
    PROVE  \A n \in Nat : n \in T
  <1> DEFINE R == {p \in Nat \X Nat : p[1] < p[2]}
             U == Nat \ T
  <1>1. IsWellFoundedOn(R, Nat)
    BY NatLessThanWellFounded DEF OpToRel
  <1>2. ASSUME U # {} PROVE FALSE
    <2>1. PICK n \in U : \A m \in U : ~(<<m, n>> \in R)
      <3>1. U \subseteq Nat
        OBVIOUS
      <3> HIDE DEF R, U
      <3> QED
        BY <1>1, <1>2, <3>1, WFMin
    <2>2. n # 0 /\ n \in Nat
      OBVIOUS
    <2>3. n - 1 \in Nat /\ n - 1 \notin T
      BY <2>2
    <2>4. <<n - 1, n>> \in R
      BY <2>2, <2>3
    <2> QED
      BY <2>1, <2>3, <2>4
  <1> QED
    BY <1>2

(* A name for them, since the provers know powers only of literals.        *)
Pow(i) == 2^i

(* The powers a word has bits for.                                         *)
LEMMA Powers ==
    /\ Pow(0) = 1 /\ Pow(1) = 2 /\ Pow(2) = 4 /\ Pow(3) = 8 /\ Pow(4) = 16 /\ Pow(5) = 32
    /\ Pow(6) = 64 /\ Pow(7) = 128 /\ Pow(8) = 256 /\ Pow(9) = 512 /\ Pow(10) = 1024
    /\ Pow(11) = 2048 /\ Pow(12) = 4096 /\ Pow(13) = 8192 /\ Pow(14) = 16384
    /\ Pow(15) = 32768 /\ Pow(16) = 65536 /\ Pow(17) = 131072 /\ Pow(18) = 262144
    /\ Pow(19) = 524288 /\ Pow(20) = 1048576 /\ Pow(21) = 2097152 /\ Pow(22) = 4194304
    /\ Pow(23) = 8388608 /\ Pow(24) = 16777216 /\ Pow(25) = 33554432
    /\ Pow(26) = 67108864 /\ Pow(27) = 134217728 /\ Pow(28) = 268435456
    /\ Pow(29) = 536870912 /\ Pow(30) = 1073741824
  BY DEF Pow

(* Each is twice the one before.                                           *)
LEMMA Doubles ==
    \A i \in 0..29 : Pow(i) \in Nat /\ Pow(i) > 0 /\ Pow(i + 1) = 2 * Pow(i)
  <1> SUFFICES ASSUME NEW i \in 0..29
               PROVE  Pow(i) \in Nat /\ Pow(i) > 0 /\ Pow(i + 1) = 2 * Pow(i)
    OBVIOUS
  <1>1. \/ i = 0 \/ i = 1 \/ i = 2 \/ i = 3 \/ i = 4 \/ i = 5 \/ i = 6 \/ i = 7 \/ i = 8 \/ i = 9
        \/ i = 10 \/ i = 11 \/ i = 12 \/ i = 13 \/ i = 14 \/ i = 15 \/ i = 16 \/ i = 17
        \/ i = 18 \/ i = 19 \/ i = 20 \/ i = 21 \/ i = 22 \/ i = 23 \/ i = 24 \/ i = 25
        \/ i = 26 \/ i = 27 \/ i = 28 \/ i = 29
    OBVIOUS
  <1> QED
    BY <1>1, Powers

(* They are positive and grow.                                             *)
LEMMA Grows ==
    /\ \A i \in 0..30 : Pow(i) \in Nat /\ Pow(i) > 0
    /\ \A k \in 0..30 : \A i \in k..30 : Pow(k) <= Pow(i)
  <1>1. \A i \in 0..30 : Pow(i) \in Nat /\ Pow(i) > 0
    <2> SUFFICES ASSUME NEW i \in 0..30 PROVE Pow(i) \in Nat /\ Pow(i) > 0
      OBVIOUS
    <2>1. CASE i = 30
      BY <2>1, Powers
    <2>2. CASE i # 30
      BY <2>2, Doubles
    <2> QED
      BY <2>1, <2>2
  <1>2. ASSUME NEW k \in 0..30 PROVE \A i \in k..30 : Pow(k) <= Pow(i)
    <2> DEFINE T == {n \in Nat : k + n <= 30 => Pow(k) <= Pow(k + n)}
    <2>1. 0 \in T
      BY <1>1
    <2>2. ASSUME NEW n \in Nat, n \in T PROVE n + 1 \in T
      <3> SUFFICES ASSUME k + (n + 1) <= 30 PROVE Pow(k) <= Pow(k + (n + 1))
        OBVIOUS
      <3>1. k + n \in 0..29 /\ k + (n + 1) = (k + n) + 1
        OBVIOUS
      <3>2. Pow(k + (n + 1)) = 2 * Pow(k + n) /\ Pow(k + n) \in Nat /\ Pow(k) <= Pow(k + n)
        BY <2>2, <3>1, Doubles
      <3> QED
        BY <1>1, <3>2
    <2>3. \A n \in Nat : n \in T
      <3> HIDE DEF T
      <3> QED
        BY <2>1, <2>2, SetInduction
    <2> SUFFICES ASSUME NEW i \in k..30 PROVE Pow(k) <= Pow(i)
      OBVIOUS
    <2>4. i - k \in T /\ k + (i - k) = i
      BY <2>3
    <2> QED
      BY <2>4
  <1> QED
    BY <1>1, <1>2

(* The quotient by one power is half the quotient by the one before.       *)
LEMMA Halves ==
    ASSUME NEW v \in Int, NEW i \in 0..29
    PROVE  v \div Pow(i + 1) = (v \div Pow(i)) \div 2
  <1>1. \/ i = 0 \/ i = 1 \/ i = 2 \/ i = 3 \/ i = 4 \/ i = 5 \/ i = 6 \/ i = 7 \/ i = 8 \/ i = 9
        \/ i = 10 \/ i = 11 \/ i = 12 \/ i = 13 \/ i = 14 \/ i = 15 \/ i = 16 \/ i = 17
        \/ i = 18 \/ i = 19 \/ i = 20 \/ i = 21 \/ i = 22 \/ i = 23 \/ i = 24 \/ i = 25
        \/ i = 26 \/ i = 27 \/ i = 28 \/ i = 29
    OBVIOUS
  <1> QED
    BY <1>1, Powers

(* A quotient of 0 or -1 is that of a number below the power.              *)
LEMMA Below ==
    ASSUME NEW v \in Int, NEW k \in 0..30,
           v \div Pow(k) = IF v < 0 THEN -1 ELSE 0
    PROVE  -Pow(k) <= v /\ v < Pow(k)
  <1>1. \/ k = 0 \/ k = 1 \/ k = 2 \/ k = 3 \/ k = 4 \/ k = 5 \/ k = 6 \/ k = 7 \/ k = 8 \/ k = 9
        \/ k = 10 \/ k = 11 \/ k = 12 \/ k = 13 \/ k = 14 \/ k = 15 \/ k = 16 \/ k = 17
        \/ k = 18 \/ k = 19 \/ k = 20 \/ k = 21 \/ k = 22 \/ k = 23 \/ k = 24 \/ k = 25
        \/ k = 26 \/ k = 27 \/ k = 28 \/ k = 29 \/ k = 30
    OBVIOUS
  <1> QED
    BY <1>1, Powers

(* What a number below a power leaves when it is divided by it.            *)
LEMMA Quotient ==
    ASSUME NEW v \in Int, NEW p \in Nat, p > 0, -p <= v, v < p
    PROVE  v \div p = IF v < 0 THEN -1 ELSE 0
  OBVIOUS

-----------------------------------------------------------------------------
(* The bits of a number                                                    *)

(* The bits of a number, one by one.                                       *)
LEMMA BitIs ==
    ASSUME NEW v \in Int
    PROVE  /\ Bits(v) \subseteq 0..31
           /\ \A i \in 0..30 : i \in Bits(v) <=> (v \div Pow(i)) % 2 = 1
           /\ 31 \in Bits(v) <=> v < 0
  <1>1. Bits(v) = {i \in 0..30 : (v \div Pow(i)) % 2 = 1} \cup IF v < 0 THEN {31} ELSE {}
    BY DEF Bits, Pow
  <1> QED
    BY <1>1

(* From the k-th on, the bits of a number that k bits hold are its sign.   *)
LEMMA SignBits ==
    ASSUME NEW k \in 0..30, NEW v \in Int, -Pow(k) <= v, v < Pow(k), NEW i \in k..31
    PROVE  i \in Bits(v) <=> v < 0
  <1>1. CASE i = 31
    BY <1>1, BitIs
  <1>2. CASE i # 31
    <2>1. i \in 0..30 /\ Pow(k) <= Pow(i) /\ Pow(i) \in Nat /\ Pow(k) \in Nat /\ Pow(i) > 0
      BY <1>2, Grows
    <2>2. v \div Pow(i) = IF v < 0 THEN -1 ELSE 0
      <3>1. -Pow(i) <= v /\ v < Pow(i)
        BY <2>1
      <3> QED
        BY <2>1, <3>1, Quotient
    <2> QED
      BY <2>1, <2>2, BitIs
  <1> QED
    BY <1>1, <1>2

(* A number below a power has no bit from there on.                        *)
LEMMA SmallBits ==
    ASSUME NEW k \in 0..30, NEW v \in 0..(Pow(k) - 1)
    PROVE  Bits(v) \subseteq 0..(k - 1)
  <1>1. v \in Int /\ -Pow(k) <= v /\ v < Pow(k) /\ ~(v < 0)
    BY Grows
  <1>2. ASSUME NEW i \in Bits(v) PROVE i \in 0..(k - 1)
    <2>1. i \in 0..31
      BY <1>1, BitIs
    <2>2. i \notin k..31
      BY <1>1, SignBits
    <2> QED
      BY <2>1, <2>2
  <1> QED
    BY <1>2

(* A number is twice its half and its last bit.                            *)
LEMMA Doubled ==
    ASSUME NEW v \in Int, NEW i \in 0..29
    PROVE  /\ v \div Pow(i) \in Int /\ v \div Pow(i + 1) \in Int
           /\ v \div Pow(i) = 2 * (v \div Pow(i + 1)) + IF i \in Bits(v) THEN 1 ELSE 0
  <1> DEFINE h == v \div Pow(i)
  <1>1. h \in Int
    BY Grows
  <1>2. v \div Pow(i + 1) = h \div 2
    BY Halves
  <1>3. i \in Bits(v) <=> h % 2 = 1
    BY BitIs
  <1> HIDE DEF h
  <1>4. h \div 2 \in Int /\ h = 2 * (h \div 2) + IF h % 2 = 1 THEN 1 ELSE 0
    BY <1>1
  <1> QED
    BY <1>1, <1>2, <1>3, <1>4 DEF h

(* A number of 32 bits whose bits are all its sign from the k-th on is one *)
(* that k bits hold.                                                       *)
LEMMA NarrowBits ==
    ASSUME NEW k \in 0..30, NEW v \in Int, v \div Pow(30) \in -2..1,
           \A i \in k..30 : i \in Bits(v) <=> v < 0
    PROVE  -Pow(k) <= v /\ v < Pow(k)
  <1> DEFINE sign == IF v < 0 THEN -1 ELSE 0
             T == {n \in Nat : k + n <= 30 => v \div Pow(30 - n) = sign}
  <1>1. 0 \in T
    <2>1. (v \div Pow(30)) % 2 = 1 <=> v < 0
      BY BitIs
    <2>2. Pow(30) = 1073741824
      BY Powers
    <2>3. v \div Pow(30) = sign
      BY <2>1, <2>2
    <2> QED
      BY <2>3
  <1>2. ASSUME NEW n \in Nat, n \in T PROVE n + 1 \in T
    <2> SUFFICES ASSUME k + (n + 1) <= 30 PROVE v \div Pow(30 - (n + 1)) = sign
      OBVIOUS
    <2>1. PICK i \in 0..29 : i = 30 - (n + 1)
      OBVIOUS
    <2>2. i \in k..30 /\ 30 - n = i + 1
      BY <2>1
    <2>3. v \div Pow(i + 1) = sign
      BY <1>2, <2>2
    <2>4. v \div Pow(i) = 2 * (v \div Pow(i + 1)) + IF i \in Bits(v) THEN 1 ELSE 0
      BY Doubled
    <2> QED
      BY <2>1, <2>2, <2>3, <2>4
  <1>3. \A n \in Nat : n \in T
    <2> HIDE DEF T
    <2> QED
      BY <1>1, <1>2, SetInduction
  <1>4. 30 - k \in T /\ 30 - (30 - k) = k
    BY <1>3
  <1>5. v \div Pow(k) = sign
    BY <1>4
  <1> QED
    BY <1>5, Below

(* No two numbers that are not negative have the same bits.                *)
LEMMA SameBits ==
    ASSUME NEW k \in 0..30, NEW m \in 0..(Pow(k) - 1), NEW n \in 0..(Pow(k) - 1),
           Bits(m) = Bits(n)
    PROVE  m = n
  <1> DEFINE T == {j \in Nat : j <= 30 => m \div Pow(30 - j) = n \div Pow(30 - j)}
  <1>0. m \in Int /\ n \in Int /\ 0 <= m /\ 0 <= n /\ m < Pow(30) /\ n < Pow(30)
    BY Grows
  <1>1. 0 \in T
    <2>1. m \div Pow(30) = 0 /\ n \div Pow(30) = 0
      BY <1>0, Powers
    <2> QED
      BY <2>1
  <1>2. ASSUME NEW j \in Nat, j \in T PROVE j + 1 \in T
    <2> SUFFICES ASSUME j + 1 <= 30
                 PROVE  m \div Pow(30 - (j + 1)) = n \div Pow(30 - (j + 1))
      OBVIOUS
    <2>1. PICK i \in 0..29 : i = 30 - (j + 1)
      OBVIOUS
    <2>2. 30 - j = i + 1
      BY <2>1
    <2>3. m \div Pow(i + 1) = n \div Pow(i + 1)
      BY <1>2, <2>2
    <2>4. /\ m \div Pow(i) = 2 * (m \div Pow(i + 1)) + IF i \in Bits(m) THEN 1 ELSE 0
          /\ n \div Pow(i) = 2 * (n \div Pow(i + 1)) + IF i \in Bits(n) THEN 1 ELSE 0
      BY <1>0, Doubled
    <2> QED
      BY <2>1, <2>3, <2>4
  <1>3. \A j \in Nat : j \in T
    <2> HIDE DEF T
    <2> QED
      BY <1>1, <1>2, SetInduction
  <1>4. m \div Pow(0) = n \div Pow(0)
    <2>1. 30 \in T
      BY <1>3
    <2> QED
      BY <2>1
  <1> QED
    BY <1>0, <1>4, Powers

(* The fields of an instruction, and what a register or an opcode is in    *)
(* them.                                                                   *)
LEMMA FieldBits ==
    /\ \A v \in 0..7 : Bits(v) \subseteq 0..2
    /\ \A v \in 0..31 : Bits(v) \subseteq 0..4
    /\ \A v \in 0..127 : Bits(v) \subseteq 0..6
  <1>1. Pow(3) = 8 /\ Pow(5) = 32 /\ Pow(7) = 128
    BY Powers
  <1>2. ASSUME NEW v \in 0..7 PROVE Bits(v) \subseteq 0..2
    BY <1>1, SmallBits, 3 \in 0..30
  <1>3. ASSUME NEW v \in 0..31 PROVE Bits(v) \subseteq 0..4
    BY <1>1, SmallBits, 5 \in 0..30
  <1>4. ASSUME NEW v \in 0..127 PROVE Bits(v) \subseteq 0..6
    BY <1>1, SmallBits, 7 \in 0..30
  <1> QED
    BY <1>2, <1>3, <1>4

(* The number of some bits is the one that has them.                       *)
LEMMA NumberOf ==
    ASSUME NEW k \in 0..30, NEW n \in 0..(Pow(k) - 1)
    PROVE  Number(Bits(n), 0..(Pow(k) - 1)) = n
  <1>1. \A m \in 0..(Pow(k) - 1) : Bits(m) = Bits(n) => m = n
    BY SameBits
  <1> QED
    BY <1>1 DEF Number

-----------------------------------------------------------------------------
(* The fields of a word                                                    *)

(* A shift moves the bits.                                                 *)
LEMMA InLeft ==
    ASSUME NEW w, w \subseteq Int, NEW n \in Nat, NEW b \in Int
    PROVE  b \in Left(w, n) <=> b \in 0..31 /\ b - n \in w
  BY DEF Left, Mask

(* So does a shift the other way, whose bits fall out of the word.         *)
LEMMA InRight ==
    ASSUME NEW w, w \subseteq 0..31, NEW n \in Nat, NEW b \in Int
    PROVE  b \in Right(w, n) <=> b >= 0 /\ b + n \in w
  BY DEF Right, Mask

(* A field of the word, bit by bit.                                        *)
LEMMA FieldIs ==
    ASSUME NEW w, w \subseteq 0..31, NEW o \in Nat, NEW n \in Nat
    PROVE  Slice(w, o, n) = {b \in 0..(n - 1) : b + o \in w}
  <1>1. ASSUME NEW b \in Int PROVE b \in Right(w, o) <=> b >= 0 /\ b + o \in w
    BY InRight
  <1>2. Slice(w, o, n) \subseteq 0..(n - 1)
    BY DEF Slice, Mask
  <1>3. ASSUME NEW b \in 0..(n - 1) PROVE b \in Slice(w, o, n) <=> b + o \in w
    <2>1. b \in Int /\ b >= 0
      OBVIOUS
    <2> QED
      BY <1>1, <2>1 DEF Slice, Mask
  <1> QED
    BY <1>2, <1>3

(* A word has bits 0 to 31, and a field of it has some of the bits of B.   *)
IsWord(w) == w \subseteq 0..31
Agree(w, o, low, high, B) == \A b \in low..high : b + o \in w <=> b \in B

(* So a field is a set of bits if it has just these.                       *)
LEMMA FieldOf ==
    ASSUME NEW w, IsWord(w), NEW o \in Nat, NEW B
    PROVE  /\ B \subseteq 0..2 /\ Agree(w, o, 0, 2, B) => Slice(w, o, 3) = B
           /\ B \subseteq 0..4 /\ Agree(w, o, 0, 4, B) => Slice(w, o, 5) = B
           /\ B \subseteq 0..6 /\ Agree(w, o, 0, 6, B) => Slice(w, o, 7) = B
  <1>0. w \subseteq 0..31
    BY DEF IsWord
  <1>1. ASSUME B \subseteq 0..2, Agree(w, o, 0, 2, B)
        PROVE  Slice(w, o, 3) = B
    <2>1. Slice(w, o, 3) = {b \in 0..(3 - 1) : b + o \in w}
      BY <1>0, FieldIs
    <2>2. 3 - 1 = 2
      OBVIOUS
    <2> QED
      BY <1>1, <2>1, <2>2 DEF Agree
  <1>2. ASSUME B \subseteq 0..4, Agree(w, o, 0, 4, B)
        PROVE  Slice(w, o, 5) = B
    <2>1. Slice(w, o, 5) = {b \in 0..(5 - 1) : b + o \in w}
      BY <1>0, FieldIs
    <2>2. 5 - 1 = 4
      OBVIOUS
    <2> QED
      BY <1>2, <2>1, <2>2 DEF Agree
  <1>3. ASSUME B \subseteq 0..6, Agree(w, o, 0, 6, B)
        PROVE  Slice(w, o, 7) = B
    <2>1. Slice(w, o, 7) = {b \in 0..(7 - 1) : b + o \in w}
      BY <1>0, FieldIs
    <2>2. 7 - 1 = 6
      OBVIOUS
    <2> QED
      BY <1>3, <2>1, <2>2 DEF Agree
  <1> QED
    BY <1>1, <1>2, <1>3

(* The part of an immediate that the word has in one place.                *)
LEMMA InPart ==
    ASSUME NEW v, v \subseteq 0..31, NEW low \in Nat, NEW n \in Nat, NEW o \in Nat, NEW b \in Int
    PROVE  b \in Left(Right(v, low) \cap Mask(n), o)
               <=> b \in 0..31 /\ b - o \in 0..(n - 1) /\ b - o + low \in v
  <1>1. Right(v, low) \cap Mask(n) \subseteq Int
    BY DEF Mask
  <1>2. b - o \in Right(v, low) \cap Mask(n) <=> b - o \in 0..(n - 1) /\ b - o + low \in v
    <2>1. b - o \in Int
      OBVIOUS
    <2>2. b - o \in Right(v, low) <=> b - o >= 0 /\ b - o + low \in v
      BY <2>1, InRight
    <2> QED
      BY <2>1, <2>2 DEF Mask
  <1> QED
    BY <1>1, <1>2, InLeft

(* The same where the part starts at bit 0.                                *)
LEMMA InLowPart ==
    ASSUME NEW v, v \subseteq 0..31, NEW n \in Nat, NEW o \in Nat, NEW b \in Int
    PROVE  b \in Left(v \cap Mask(n), o)
               <=> b \in 0..31 /\ b - o \in 0..(n - 1) /\ b - o \in v
  <1>1. v \cap Mask(n) \subseteq Int
    BY DEF Mask
  <1> QED
    BY <1>1, InLeft DEF Mask

(* What the table has of an instruction fits its fields.                   *)
Wide(i) == i.opcode \in 0..127 /\ i.funct3 \in 0..7 /\ i.funct7 \in 0..127

(* Where the fields of an instruction go that it has from the table.       *)
LEMMA InOpcodes ==
    ASSUME NEW i, Wide(i), NEW b \in Int
    PROVE  /\ b \in Opcode(i) => b \in 0..6
           /\ b \in Opcode(i) <=> b \in Bits(i.opcode)
           /\ b \in Funct3(i) <=> b - 12 \in Bits(i.funct3)
           /\ b - 12 \in Bits(i.funct3) => b \in 12..14
           /\ b \in Funct7(i) <=> b - 25 \in Bits(i.funct7)
           /\ b - 25 \in Bits(i.funct7) => b \in 25..31
  <1>1. Bits(i.opcode) \subseteq 0..6 /\ Bits(i.funct3) \subseteq 0..2 /\ Bits(i.funct7) \subseteq 0..6
    BY FieldBits DEF Wide
  <1>2. b \in Funct3(i) <=> b \in 0..31 /\ b - 12 \in Bits(i.funct3)
    BY <1>1, InLeft DEF Funct3
  <1>3. b \in Funct7(i) <=> b \in 0..31 /\ b - 25 \in Bits(i.funct7)
    BY <1>1, InLeft DEF Funct7
  <1> QED
    BY <1>1, <1>2, <1>3 DEF Opcode

(* Where the registers go.                                                 *)
LEMMA InRegisters ==
    ASSUME NEW r \in 0..31, NEW b \in Int
    PROVE  /\ b \in Rd(r) <=> b - 7 \in Bits(r)
           /\ b \in Rs1(r) <=> b - 15 \in Bits(r)
           /\ b \in Rs2(r) <=> b - 20 \in Bits(r)
           /\ b \in Bits(r) => b \in 0..4
  <1>1. Bits(r) \subseteq 0..4
    BY FieldBits
  <1>2. b \in Rd(r) <=> b \in 0..31 /\ b - 7 \in Bits(r)
    BY <1>1, InLeft DEF Rd
  <1>3. b \in Rs1(r) <=> b \in 0..31 /\ b - 15 \in Bits(r)
    BY <1>1, InLeft DEF Rs1
  <1>4. b \in Rs2(r) <=> b \in 0..31 /\ b - 20 \in Bits(r)
    BY <1>1, InLeft DEF Rs2
  <1> QED
    BY <1>1, <1>2, <1>3, <1>4

(* A word of the R format, field by field.                                 *)
LEMMA WordR ==
    ASSUME NEW i, Wide(i), NEW rs2 \in Registers, NEW rs1 \in Registers, NEW rd \in Registers,
           NEW w, w = ASSEMBLE_R_TYPE(i, rs2, rs1, rd)
    PROVE  /\ IsWord(w)
           /\ Slice(w, 0, 7) = Bits(i.opcode)
           /\ Slice(w, 12, 3) = Bits(i.funct3)
           /\ Slice(w, 7, 5) = Bits(rd)
           /\ Slice(w, 15, 5) = Bits(rs1)
           /\ Slice(w, 20, 5) = Bits(rs2)
           /\ 30 \in w <=> 5 \in Bits(i.funct7)
  <1>0. rs2 \in 0..31 /\ rs1 \in 0..31 /\ rd \in 0..31
    BY DEF Registers
  <1>1. w \subseteq Int
    BY <1>0, FieldBits DEF ASSEMBLE_R_TYPE, Left, Mask, Funct7, Funct3, Rs2, Rs1, Rd, Opcode, Wide
  <1>2. ASSUME NEW b \in Int
        PROVE  b \in w <=> \/ b \in Bits(i.opcode)
                           \/ b - 12 \in Bits(i.funct3)
                           \/ b - 7 \in Bits(rd)
                           \/ b - 15 \in Bits(rs1)
                           \/ b - 20 \in Bits(rs2)
                           \/ b - 25 \in Bits(i.funct7)
    BY <1>0, InOpcodes, InRegisters DEF ASSEMBLE_R_TYPE
  <1>3. /\ Bits(i.opcode) \subseteq 0..6 /\ Bits(i.funct3) \subseteq 0..2
        /\ Bits(i.funct7) \subseteq 0..6
        /\ Bits(rs2) \subseteq 0..4 /\ Bits(rs1) \subseteq 0..4 /\ Bits(rd) \subseteq 0..4
    BY <1>0, FieldBits DEF Wide
  <1>4. w \subseteq 0..31 /\ IsWord(w)
    BY <1>1, <1>2, <1>3 DEF IsWord
  <1>5. Slice(w, 0, 7) = Bits(i.opcode)
    <2>1. \A b \in 0..6 : b + 0 \in w <=> b \in Bits(i.opcode)
      BY <1>2, <1>3
    <2>2. Agree(w, 0, 0, 6, Bits(i.opcode))
      BY <2>1 DEF Agree
    <2> QED
      BY <1>3, <1>4, <2>2, FieldOf
  <1>6. Slice(w, 12, 3) = Bits(i.funct3)
    <2>1. \A b \in 0..2 : b + 12 \in w <=> b \in Bits(i.funct3)
      BY <1>2, <1>3
    <2>2. Agree(w, 12, 0, 2, Bits(i.funct3))
      BY <2>1 DEF Agree
    <2> QED
      BY <1>3, <1>4, <2>2, FieldOf
  <1>7. Slice(w, 7, 5) = Bits(rd)
    <2>1. \A b \in 0..4 : b + 7 \in w <=> b \in Bits(rd)
      BY <1>2, <1>3
    <2>2. Agree(w, 7, 0, 4, Bits(rd))
      BY <2>1 DEF Agree
    <2> QED
      BY <1>3, <1>4, <2>2, FieldOf
  <1>8. Slice(w, 15, 5) = Bits(rs1)
    <2>1. \A b \in 0..4 : b + 15 \in w <=> b \in Bits(rs1)
      BY <1>2, <1>3
    <2>2. Agree(w, 15, 0, 4, Bits(rs1))
      BY <2>1 DEF Agree
    <2> QED
      BY <1>3, <1>4, <2>2, FieldOf
  <1>9. Slice(w, 20, 5) = Bits(rs2)
    <2>1. \A b \in 0..4 : b + 20 \in w <=> b \in Bits(rs2)
      BY <1>2, <1>3
    <2>2. Agree(w, 20, 0, 4, Bits(rs2))
      BY <2>1 DEF Agree
    <2> QED
      BY <1>3, <1>4, <2>2, FieldOf
  <1>10. 30 \in w <=> 5 \in Bits(i.funct7)
    BY <1>2, <1>3 DEF Agree
  <1> QED
    BY <1>4, <1>5, <1>6, <1>7, <1>8, <1>9, <1>10

(* One of the I format, with its immediate in one piece.                   *)
LEMMA WordI ==
    ASSUME NEW i, Wide(i), NEW rs1 \in Registers, NEW rd \in Registers,
           NEW imm, IsWord(imm),
           NEW w, w = ASSEMBLE_I_TYPE(i, rs1, imm, rd)
    PROVE  /\ IsWord(w)
           /\ Slice(w, 0, 7) = Bits(i.opcode)
           /\ Slice(w, 12, 3) = Bits(i.funct3)
           /\ Slice(w, 7, 5) = Bits(rd)
           /\ Slice(w, 15, 5) = Bits(rs1)
           /\ Agree(w, 20, 0, 11, imm)
  <1>0. rs1 \in 0..31 /\ rd \in 0..31 /\ imm \subseteq 0..31
    BY DEF Registers, IsWord
  <1>1. w \subseteq Int
    BY <1>0, FieldBits DEF ASSEMBLE_I_TYPE, Left, Mask, Funct3, Rs1, Rd, Opcode, Wide
  <1>2. ASSUME NEW b \in Int
        PROVE  b \in w <=> \/ b \in Bits(i.opcode)
                           \/ b - 12 \in Bits(i.funct3)
                           \/ b - 7 \in Bits(rd)
                           \/ b - 15 \in Bits(rs1)
                           \/ b - 20 \in 0..11 /\ b - 20 \in imm
    <2>1. b \in Left(imm \cap Mask(12), 20) <=> b - 20 \in 0..11 /\ b - 20 \in imm
      <3>1. b \in Left(imm \cap Mask(12), 20)
                <=> b \in 0..31 /\ b - 20 \in 0..(12 - 1) /\ b - 20 \in imm
        BY <1>0, InLowPart
      <3> QED
        BY <3>1
    <2> QED
      BY <1>0, InOpcodes, InRegisters, <2>1 DEF ASSEMBLE_I_TYPE
  <1>3. /\ Bits(i.opcode) \subseteq 0..6 /\ Bits(i.funct3) \subseteq 0..2
        /\ Bits(i.funct7) \subseteq 0..6
        /\ Bits(rs1) \subseteq 0..4 /\ Bits(rd) \subseteq 0..4
    BY <1>0, FieldBits DEF Wide
  <1>4. w \subseteq 0..31 /\ IsWord(w)
    BY <1>1, <1>2, <1>3 DEF IsWord
  <1>5. Slice(w, 0, 7) = Bits(i.opcode)
    <2>1. \A b \in 0..6 : b + 0 \in w <=> b \in Bits(i.opcode)
      BY <1>2, <1>3
    <2>2. Agree(w, 0, 0, 6, Bits(i.opcode))
      BY <2>1 DEF Agree
    <2> QED
      BY <1>3, <1>4, <2>2, FieldOf
  <1>6. Slice(w, 12, 3) = Bits(i.funct3)
    <2>1. \A b \in 0..2 : b + 12 \in w <=> b \in Bits(i.funct3)
      BY <1>2, <1>3
    <2>2. Agree(w, 12, 0, 2, Bits(i.funct3))
      BY <2>1 DEF Agree
    <2> QED
      BY <1>3, <1>4, <2>2, FieldOf
  <1>7. Slice(w, 7, 5) = Bits(rd)
    <2>1. \A b \in 0..4 : b + 7 \in w <=> b \in Bits(rd)
      BY <1>2, <1>3
    <2>2. Agree(w, 7, 0, 4, Bits(rd))
      BY <2>1 DEF Agree
    <2> QED
      BY <1>3, <1>4, <2>2, FieldOf
  <1>8. Slice(w, 15, 5) = Bits(rs1)
    <2>1. \A b \in 0..4 : b + 15 \in w <=> b \in Bits(rs1)
      BY <1>2, <1>3
    <2>2. Agree(w, 15, 0, 4, Bits(rs1))
      BY <2>1 DEF Agree
    <2> QED
      BY <1>3, <1>4, <2>2, FieldOf
  <1>9. Agree(w, 20, 0, 11, imm)
    BY <1>2, <1>3 DEF Agree
  <1> QED
    BY <1>4, <1>5, <1>6, <1>7, <1>8, <1>9

(* One of the S format, with its immediate in two.                         *)
LEMMA WordS ==
    ASSUME NEW i, Wide(i), NEW rs1 \in Registers, NEW rs2 \in Registers,
           NEW imm, IsWord(imm),
           NEW w, w = ASSEMBLE_S_TYPE(i, rs1, rs2, imm)
    PROVE  /\ IsWord(w)
           /\ Slice(w, 0, 7) = Bits(i.opcode)
           /\ Slice(w, 12, 3) = Bits(i.funct3)
           /\ Slice(w, 15, 5) = Bits(rs1)
           /\ Slice(w, 20, 5) = Bits(rs2)
           /\ Agree(w, 7, 0, 4, imm)
           /\ Agree(w, 20, 5, 11, imm)
  <1>0. rs1 \in 0..31 /\ rs2 \in 0..31 /\ imm \subseteq 0..31
    BY DEF Registers, IsWord
  <1>1. w \subseteq Int
    BY <1>0, FieldBits DEF ASSEMBLE_S_TYPE, Left, Mask, Funct3, Rs1, Rs2, Opcode, Wide
  <1>2. ASSUME NEW b \in Int
        PROVE  b \in w <=> \/ b \in Bits(i.opcode)
                           \/ b - 12 \in Bits(i.funct3)
                           \/ b - 15 \in Bits(rs1)
                           \/ b - 20 \in Bits(rs2)
                           \/ b - 7 \in 0..4 /\ b - 7 \in imm
                           \/ b - 25 \in 0..6 /\ b - 20 \in imm
    <2>1. b \in Left(imm \cap Mask(5), 7) <=> b - 7 \in 0..4 /\ b - 7 \in imm
      <3>1. b \in Left(imm \cap Mask(5), 7)
                <=> b \in 0..31 /\ b - 7 \in 0..(5 - 1) /\ b - 7 \in imm
        BY <1>0, InLowPart
      <3> QED
        BY <3>1
    <2>2. b \in Left(Right(imm, 5) \cap Mask(7), 25) <=> b - 25 \in 0..6 /\ b - 20 \in imm
      <3>1. b \in Left(Right(imm, 5) \cap Mask(7), 25)
                <=> b \in 0..31 /\ b - 25 \in 0..(7 - 1) /\ b - 25 + 5 \in imm
        BY <1>0, InPart
      <3> QED
        BY <3>1
    <2> QED
      BY <1>0, InOpcodes, InRegisters, <2>1, <2>2 DEF ASSEMBLE_S_TYPE
  <1>3. /\ Bits(i.opcode) \subseteq 0..6 /\ Bits(i.funct3) \subseteq 0..2
        /\ Bits(i.funct7) \subseteq 0..6
        /\ Bits(rs1) \subseteq 0..4 /\ Bits(rs2) \subseteq 0..4
    BY <1>0, FieldBits DEF Wide
  <1>4. w \subseteq 0..31 /\ IsWord(w)
    BY <1>1, <1>2, <1>3 DEF IsWord
  <1>5. Slice(w, 0, 7) = Bits(i.opcode)
    <2>1. \A b \in 0..6 : b + 0 \in w <=> b \in Bits(i.opcode)
      BY <1>2, <1>3
    <2>2. Agree(w, 0, 0, 6, Bits(i.opcode))
      BY <2>1 DEF Agree
    <2> QED
      BY <1>3, <1>4, <2>2, FieldOf
  <1>6. Slice(w, 12, 3) = Bits(i.funct3)
    <2>1. \A b \in 0..2 : b + 12 \in w <=> b \in Bits(i.funct3)
      BY <1>2, <1>3
    <2>2. Agree(w, 12, 0, 2, Bits(i.funct3))
      BY <2>1 DEF Agree
    <2> QED
      BY <1>3, <1>4, <2>2, FieldOf
  <1>7. Slice(w, 15, 5) = Bits(rs1)
    <2>1. \A b \in 0..4 : b + 15 \in w <=> b \in Bits(rs1)
      BY <1>2, <1>3
    <2>2. Agree(w, 15, 0, 4, Bits(rs1))
      BY <2>1 DEF Agree
    <2> QED
      BY <1>3, <1>4, <2>2, FieldOf
  <1>8. Slice(w, 20, 5) = Bits(rs2)
    <2>1. \A b \in 0..4 : b + 20 \in w <=> b \in Bits(rs2)
      BY <1>2, <1>3
    <2>2. Agree(w, 20, 0, 4, Bits(rs2))
      BY <2>1 DEF Agree
    <2> QED
      BY <1>3, <1>4, <2>2, FieldOf
  <1>9. Agree(w, 7, 0, 4, imm)
    BY <1>2, <1>3 DEF Agree
  <1>10. Agree(w, 20, 5, 11, imm)
    BY <1>2, <1>3 DEF Agree
  <1> QED
    BY <1>4, <1>5, <1>6, <1>7, <1>8, <1>9, <1>10

(* One of the B format, with its immediate in four.                        *)
LEMMA WordB ==
    ASSUME NEW i, Wide(i), NEW rs1 \in Registers, NEW rs2 \in Registers,
           NEW imm, IsWord(imm),
           NEW w, w = ASSEMBLE_B_TYPE(i, rs1, rs2, imm)
    PROVE  /\ IsWord(w)
           /\ Slice(w, 0, 7) = Bits(i.opcode)
           /\ Slice(w, 12, 3) = Bits(i.funct3)
           /\ Slice(w, 15, 5) = Bits(rs1)
           /\ Slice(w, 20, 5) = Bits(rs2)
           /\ Agree(w, 7, 1, 4, imm)
           /\ Agree(w, 20, 5, 10, imm)
           /\ 7 \in w <=> 11 \in imm
           /\ 31 \in w <=> 12 \in imm
  <1>0. rs1 \in 0..31 /\ rs2 \in 0..31 /\ imm \subseteq 0..31
    BY DEF Registers, IsWord
  <1>1. w \subseteq Int
    BY <1>0, FieldBits DEF ASSEMBLE_B_TYPE, Left, Mask, Funct3, Rs1, Rs2, Opcode, Wide
  <1>2. ASSUME NEW b \in Int
        PROVE  b \in w <=> \/ b \in Bits(i.opcode)
                           \/ b - 12 \in Bits(i.funct3)
                           \/ b - 15 \in Bits(rs1)
                           \/ b - 20 \in Bits(rs2)
                           \/ b = 31 /\ 12 \in imm
                           \/ b - 25 \in 0..5 /\ b - 20 \in imm
                           \/ b - 8 \in 0..3 /\ b - 7 \in imm
                           \/ b = 7 /\ 11 \in imm
    <2>1. b \in Left(Right(imm, 12) \cap Mask(1), 31) <=> b = 31 /\ 12 \in imm
      <3>1. b \in Left(Right(imm, 12) \cap Mask(1), 31)
                <=> b \in 0..31 /\ b - 31 \in 0..(1 - 1) /\ b - 31 + 12 \in imm
        BY <1>0, InPart
      <3> QED
        BY <3>1
    <2>2. b \in Left(Right(imm, 5) \cap Mask(6), 25) <=> b - 25 \in 0..5 /\ b - 20 \in imm
      <3>1. b \in Left(Right(imm, 5) \cap Mask(6), 25)
                <=> b \in 0..31 /\ b - 25 \in 0..(6 - 1) /\ b - 25 + 5 \in imm
        BY <1>0, InPart
      <3> QED
        BY <3>1
    <2>3. b \in Left(Right(imm, 1) \cap Mask(4), 8) <=> b - 8 \in 0..3 /\ b - 7 \in imm
      <3>1. b \in Left(Right(imm, 1) \cap Mask(4), 8)
                <=> b \in 0..31 /\ b - 8 \in 0..(4 - 1) /\ b - 8 + 1 \in imm
        BY <1>0, InPart
      <3> QED
        BY <3>1
    <2>4. b \in Left(Right(imm, 11) \cap Mask(1), 7) <=> b = 7 /\ 11 \in imm
      <3>1. b \in Left(Right(imm, 11) \cap Mask(1), 7)
                <=> b \in 0..31 /\ b - 7 \in 0..(1 - 1) /\ b - 7 + 11 \in imm
        BY <1>0, InPart
      <3> QED
        BY <3>1
    <2> QED
      BY <1>0, InOpcodes, InRegisters, <2>1, <2>2, <2>3, <2>4 DEF ASSEMBLE_B_TYPE
  <1>3. /\ Bits(i.opcode) \subseteq 0..6 /\ Bits(i.funct3) \subseteq 0..2
        /\ Bits(i.funct7) \subseteq 0..6
        /\ Bits(rs1) \subseteq 0..4 /\ Bits(rs2) \subseteq 0..4
    BY <1>0, FieldBits DEF Wide
  <1>4. w \subseteq 0..31 /\ IsWord(w)
    BY <1>1, <1>2, <1>3 DEF IsWord
  <1>5. Slice(w, 0, 7) = Bits(i.opcode)
    <2>1. \A b \in 0..6 : b + 0 \in w <=> b \in Bits(i.opcode)
      BY <1>2, <1>3
    <2>2. Agree(w, 0, 0, 6, Bits(i.opcode))
      BY <2>1 DEF Agree
    <2> QED
      BY <1>3, <1>4, <2>2, FieldOf
  <1>6. Slice(w, 12, 3) = Bits(i.funct3)
    <2>1. \A b \in 0..2 : b + 12 \in w <=> b \in Bits(i.funct3)
      BY <1>2, <1>3
    <2>2. Agree(w, 12, 0, 2, Bits(i.funct3))
      BY <2>1 DEF Agree
    <2> QED
      BY <1>3, <1>4, <2>2, FieldOf
  <1>7. Slice(w, 15, 5) = Bits(rs1)
    <2>1. \A b \in 0..4 : b + 15 \in w <=> b \in Bits(rs1)
      BY <1>2, <1>3
    <2>2. Agree(w, 15, 0, 4, Bits(rs1))
      BY <2>1 DEF Agree
    <2> QED
      BY <1>3, <1>4, <2>2, FieldOf
  <1>8. Slice(w, 20, 5) = Bits(rs2)
    <2>1. \A b \in 0..4 : b + 20 \in w <=> b \in Bits(rs2)
      BY <1>2, <1>3
    <2>2. Agree(w, 20, 0, 4, Bits(rs2))
      BY <2>1 DEF Agree
    <2> QED
      BY <1>3, <1>4, <2>2, FieldOf
  <1>9. Agree(w, 7, 1, 4, imm)
    BY <1>2, <1>3 DEF Agree
  <1>10. Agree(w, 20, 5, 10, imm)
    BY <1>2, <1>3 DEF Agree
  <1>11. 7 \in w <=> 11 \in imm
    BY <1>2, <1>3 DEF Agree
  <1>12. 31 \in w <=> 12 \in imm
    BY <1>2, <1>3 DEF Agree
  <1> QED
    BY <1>4, <1>5, <1>6, <1>7, <1>8, <1>9, <1>10, <1>11, <1>12

(* One of the U format, with the lower part of its immediate on top.       *)
LEMMA WordU ==
    ASSUME NEW i, Wide(i), NEW rd \in Registers,
           NEW imm, IsWord(imm),
           NEW w, w = ASSEMBLE_U_TYPE(i, rd, imm)
    PROVE  /\ IsWord(w)
           /\ Slice(w, 0, 7) = Bits(i.opcode)
           /\ Slice(w, 7, 5) = Bits(rd)
           /\ Agree(w, 12, 0, 19, imm)
  <1>0. rd \in 0..31 /\ imm \subseteq 0..31
    BY DEF Registers, IsWord
  <1>1. w \subseteq Int
    BY <1>0, FieldBits DEF ASSEMBLE_U_TYPE, Left, Mask, Rd, Opcode, Wide
  <1>2. ASSUME NEW b \in Int
        PROVE  b \in w <=> \/ b \in Bits(i.opcode)
                           \/ b - 7 \in Bits(rd)
                           \/ b - 12 \in 0..19 /\ b - 12 \in imm
    <2>1. b \in Left(imm \cap Mask(20), 12) <=> b - 12 \in 0..19 /\ b - 12 \in imm
      <3>1. b \in Left(imm \cap Mask(20), 12)
                <=> b \in 0..31 /\ b - 12 \in 0..(20 - 1) /\ b - 12 \in imm
        BY <1>0, InLowPart
      <3> QED
        BY <3>1
    <2> QED
      BY <1>0, InOpcodes, InRegisters, <2>1 DEF ASSEMBLE_U_TYPE
  <1>3. /\ Bits(i.opcode) \subseteq 0..6 /\ Bits(i.funct3) \subseteq 0..2
        /\ Bits(i.funct7) \subseteq 0..6
        /\ Bits(rd) \subseteq 0..4
    BY <1>0, FieldBits DEF Wide
  <1>4. w \subseteq 0..31 /\ IsWord(w)
    BY <1>1, <1>2, <1>3 DEF IsWord
  <1>5. Slice(w, 0, 7) = Bits(i.opcode)
    <2>1. \A b \in 0..6 : b + 0 \in w <=> b \in Bits(i.opcode)
      BY <1>2, <1>3
    <2>2. Agree(w, 0, 0, 6, Bits(i.opcode))
      BY <2>1 DEF Agree
    <2> QED
      BY <1>3, <1>4, <2>2, FieldOf
  <1>6. Slice(w, 7, 5) = Bits(rd)
    <2>1. \A b \in 0..4 : b + 7 \in w <=> b \in Bits(rd)
      BY <1>2, <1>3
    <2>2. Agree(w, 7, 0, 4, Bits(rd))
      BY <2>1 DEF Agree
    <2> QED
      BY <1>3, <1>4, <2>2, FieldOf
  <1>7. Agree(w, 12, 0, 19, imm)
    BY <1>2, <1>3 DEF Agree
  <1> QED
    BY <1>4, <1>5, <1>6, <1>7

(* And one without operands.                                               *)
LEMMA WordZ ==
    ASSUME NEW i, Wide(i),
           NEW w, w = ASSEMBLE_Z_TYPE(i)
    PROVE  /\ IsWord(w)
           /\ Slice(w, 0, 7) = Bits(i.opcode)
           /\ Slice(w, 12, 3) = Bits(i.funct3)
  <1>1. w \subseteq Int
    BY FieldBits DEF ASSEMBLE_Z_TYPE, Left, Mask, Funct7, Funct3, Opcode, Wide
  <1>2. ASSUME NEW b \in Int
        PROVE  b \in w <=> \/ b \in Bits(i.opcode)
                           \/ b - 12 \in Bits(i.funct3)
                           \/ b - 25 \in Bits(i.funct7)
    BY InOpcodes DEF ASSEMBLE_Z_TYPE
  <1>3. /\ Bits(i.opcode) \subseteq 0..6 /\ Bits(i.funct3) \subseteq 0..2
        /\ Bits(i.funct7) \subseteq 0..6
    BY FieldBits DEF Wide
  <1>4. w \subseteq 0..31 /\ IsWord(w)
    BY <1>1, <1>2, <1>3 DEF IsWord
  <1>5. Slice(w, 0, 7) = Bits(i.opcode)
    <2>1. \A b \in 0..6 : b + 0 \in w <=> b \in Bits(i.opcode)
      BY <1>2, <1>3
    <2>2. Agree(w, 0, 0, 6, Bits(i.opcode))
      BY <2>1 DEF Agree
    <2> QED
      BY <1>3, <1>4, <2>2, FieldOf
  <1>6. Slice(w, 12, 3) = Bits(i.funct3)
    <2>1. \A b \in 0..2 : b + 12 \in w <=> b \in Bits(i.funct3)
      BY <1>2, <1>3
    <2>2. Agree(w, 12, 0, 2, Bits(i.funct3))
      BY <2>1 DEF Agree
    <2> QED
      BY <1>3, <1>4, <2>2, FieldOf
  <1> QED
    BY <1>4, <1>5, <1>6

-----------------------------------------------------------------------------
(* The instruction table and the processor's                               *)

(* The name a processor has for an instruction before it looks at bit 30.  *)
Base(name) == CASE name = "sub"  -> "add"
                [] name = "sra"  -> "srl"
                [] name = "srai" -> "srli"
                [] OTHER         -> name

(* What the table has of an instruction fits its fields.                   *)
LEMMA TableWide ==
    ASSUME NEW name \in Plains
    PROVE  /\ Wide(Table[name])
           /\ Table[name].type \in {"R", "I", "S", "B", "U", "Z"}
  BY DEF Plains, Table, Opcodes, Wide

(* The instructions, opcode by opcode.                                     *)
LEMMA NamesAre ==
    ASSUME NEW name \in Plains
    PROVE  \/ name \in {"add", "sub", "xor", "or", "and", "sll", "srl", "sra", "slt", "sltu"}
           \/ name \in {"addi", "xori", "ori", "andi", "slli", "srli", "srai", "slti", "sltiu"}
           \/ name \in {"lb", "lh", "lw", "lbu", "lhu"}
           \/ name \in {"sb", "sh", "sw"}
           \/ name \in {"beq", "bne", "blt", "bge", "bltu", "bgeu"}
           \/ name \in {"auipc", "lui", "ecall"}
  BY DEF Plains, Table, Opcodes

(* The opcode map has each where the table puts it.                        *)
LEMMA InMajor ==
    ASSUME NEW name \in Plains
    PROVE  \E m \in Major : /\ m.code = Table[name].opcode
                            /\ m.type = Table[name].type
                            /\ m.names[Table[name].funct3 + 1] = Base(name)
                            /\ m.type \in {"U", "Z"} => \A f \in 1..8 : m.names[f] = name
  <1>1. CASE name \in {"add", "sub", "xor", "or", "and", "sll", "srl", "sra", "slt", "sltu"}
    <2> DEFINE m == [code |-> 51, type |-> "R", names |-> <<"add", "sll", "slt", "sltu", "xor", "srl", "or", "and">>]
    <2>1. m \in Major
      BY DEF Major
    <2>2. Table[name].opcode = 51 /\ Table[name].type = "R"
      BY <1>1 DEF Table, Opcodes
    <2>3. m.names[Table[name].funct3 + 1] = Base(name)
      <3>1. CASE name \in {"add", "sub", "xor", "or", "and"}
        BY <3>1 DEF Table, Opcodes, Base
      <3>2. CASE name \in {"sll", "srl", "sra", "slt", "sltu"}
        BY <3>2 DEF Table, Opcodes, Base
      <3> QED
        BY <1>1, <3>1, <3>2
    <2> QED
      BY <2>1, <2>2, <2>3
  <1>2. CASE name \in {"addi", "xori", "ori", "andi", "slli", "srli", "srai", "slti", "sltiu"}
    <2> DEFINE m == [code |-> 19, type |-> "I", names |-> <<"addi", "slli", "slti", "sltiu", "xori", "srli", "ori", "andi">>]
    <2>1. m \in Major
      BY DEF Major
    <2>2. Table[name].opcode = 19 /\ Table[name].type = "I"
      BY <1>2 DEF Table, Opcodes
    <2>3. m.names[Table[name].funct3 + 1] = Base(name)
      <3>1. CASE name \in {"addi", "xori", "ori", "andi"}
        BY <3>1 DEF Table, Opcodes, Base
      <3>2. CASE name \in {"slli", "srli", "srai", "slti", "sltiu"}
        BY <3>2 DEF Table, Opcodes, Base
      <3> QED
        BY <1>2, <3>1, <3>2
    <2> QED
      BY <2>1, <2>2, <2>3
  <1>3. CASE name \in {"lb", "lh", "lw", "lbu", "lhu"}
    <2> DEFINE m == [code |-> 3, type |-> "I", names |-> <<"lb", "lh", "lw", "ld", "lbu", "lhu", "lwu", "-">>]
    <2>1. m \in Major
      BY DEF Major
    <2>2. Table[name].opcode = 3 /\ Table[name].type = "I"
      BY <1>3 DEF Table, Opcodes
    <2>3. m.names[Table[name].funct3 + 1] = Base(name)
      BY <1>3 DEF Table, Opcodes, Base
    <2> QED
      BY <2>1, <2>2, <2>3
  <1>4. CASE name \in {"sb", "sh", "sw"}
    <2> DEFINE m == [code |-> 35, type |-> "S", names |-> <<"sb", "sh", "sw", "sd", "-", "-", "-", "-">>]
    <2>1. m \in Major
      BY DEF Major
    <2>2. Table[name].opcode = 35 /\ Table[name].type = "S"
      BY <1>4 DEF Table, Opcodes
    <2>3. m.names[Table[name].funct3 + 1] = Base(name)
      BY <1>4 DEF Table, Opcodes, Base
    <2> QED
      BY <2>1, <2>2, <2>3
  <1>5. CASE name \in {"beq", "bne", "blt", "bge", "bltu", "bgeu"}
    <2> DEFINE m == [code |-> 99, type |-> "B", names |-> <<"beq", "bne", "-", "-", "blt", "bge", "bltu", "bgeu">>]
    <2>1. m \in Major
      BY DEF Major
    <2>2. Table[name].opcode = 99 /\ Table[name].type = "B"
      BY <1>5 DEF Table, Opcodes
    <2>3. m.names[Table[name].funct3 + 1] = Base(name)
      BY <1>5 DEF Table, Opcodes, Base
    <2> QED
      BY <2>1, <2>2, <2>3
  <1>6. CASE name \in {"auipc", "lui", "ecall"}
    <2>1. CASE name = "auipc"
      <3> DEFINE m == [code |-> 23, type |-> "U", names |-> [f \in 1..8 |-> "auipc"]]
      <3>1. m \in Major
        BY DEF Major
      <3>2. Table[name].opcode = 23 /\ Table[name].type = "U" /\ Table[name].funct3 = 0
        BY <2>1 DEF Table, Opcodes
      <3>3. Base(name) = "auipc"
        BY <2>1 DEF Base
      <3> QED
        BY <2>1, <3>1, <3>2, <3>3
    <2>2. CASE name = "lui"
      <3> DEFINE m == [code |-> 55, type |-> "U", names |-> [f \in 1..8 |-> "lui"]]
      <3>1. m \in Major
        BY DEF Major
      <3>2. Table[name].opcode = 55 /\ Table[name].type = "U" /\ Table[name].funct3 = 0
        BY <2>2 DEF Table, Opcodes
      <3>3. Base(name) = "lui"
        BY <2>2 DEF Base
      <3> QED
        BY <2>2, <3>1, <3>2, <3>3
    <2>3. CASE name = "ecall"
      <3> DEFINE m == [code |-> 115, type |-> "Z", names |-> [f \in 1..8 |-> "ecall"]]
      <3>1. m \in Major
        BY DEF Major
      <3>2. Table[name].opcode = 115 /\ Table[name].type = "Z" /\ Table[name].funct3 = 0
        BY <2>3 DEF Table, Opcodes
      <3>3. Base(name) = "ecall"
        BY <2>3 DEF Base
      <3> QED
        BY <2>3, <3>1, <3>2, <3>3
    <2> QED
      BY <1>6, <2>1, <2>2, <2>3
  <1> QED
    BY <1>1, <1>2, <1>3, <1>4, <1>5, <1>6, NamesAre

(* No two of its entries have one code.                                    *)
LEMMA CodesDiffer ==
    /\ \A m \in Major : m.code \in 0..127
    /\ \A m, n \in Major : m.code = n.code => m = n
  BY DEF Major

(* Every set of three bits is that of a number.                            *)
LEMMA ThreeBits ==
    ASSUME NEW S, S \subseteq 0..2
    PROVE  \E n \in 0..7 : Bits(n) = S
  <1> DEFINE n == (IF 0 \in S THEN 1 ELSE 0) + (IF 1 \in S THEN 2 ELSE 0)
                      + (IF 2 \in S THEN 4 ELSE 0)
  <1>1. n \in 0..7
    OBVIOUS
  <1>2. /\ n % 2 = 1 <=> 0 \in S
        /\ (n \div 2) % 2 = 1 <=> 1 \in S
        /\ (n \div 4) % 2 = 1 <=> 2 \in S
    OBVIOUS
  <1> HIDE DEF n
  <1>3. /\ 0 \in Bits(n) <=> 0 \in S
        /\ 1 \in Bits(n) <=> 1 \in S
        /\ 2 \in Bits(n) <=> 2 \in S
    <2>1. \A i \in 0..30 : i \in Bits(n) <=> (n \div Pow(i)) % 2 = 1
      BY <1>1, BitIs
    <2>2. 0 \in Bits(n) <=> (n \div 1) % 2 = 1
      BY <2>1, Powers, 0 \in 0..30
    <2>3. 1 \in Bits(n) <=> (n \div 2) % 2 = 1
      BY <2>1, Powers, 1 \in 0..30
    <2>4. 2 \in Bits(n) <=> (n \div 4) % 2 = 1
      BY <2>1, Powers, 2 \in 0..30
    <2>5. n \div 1 = n
      BY <1>1
    <2> QED
      BY <1>2, <2>2, <2>3, <2>4, <2>5
  <1>4. Bits(n) \subseteq 0..2
    BY <1>1, FieldBits
  <1>5. ASSUME NEW b \in 0..2 PROVE b \in Bits(n) <=> b \in S
    <2>1. b = 0 \/ b = 1 \/ b = 2
      OBVIOUS
    <2> QED
      BY <1>3, <2>1
  <1>6. Bits(n) = S
    BY <1>4, <1>5
  <1> QED
    BY <1>1, <1>6

(* A processor that finds the opcode and what funct3 and bit 30 tell apart *)
(* knows the instruction, and reads its registers.                         *)
LEMMA Decoding ==
    ASSUME NEW name \in Plains, NEW w, IsWord(w),
           Slice(w, 0, 7) = Bits(Table[name].opcode),
           Table[name].type # "U" => Slice(w, 12, 3) = Bits(Table[name].funct3),
           Base(name) \in {"add", "srl", "srli"} =>
               (30 \in w <=> name \in {"sub", "sra", "srai"})
    PROVE  LET d == Decode(w)
               t == Table[name].type
           IN  /\ d = [name |-> d.name, rd |-> d.rd, rs1 |-> d.rs1, rs2 |-> d.rs2, imm |-> d.imm]
               /\ d.name = name
               /\ d.rd  = IF t \in {"R", "I", "U"} THEN Slice(w, 7, 5) ELSE {}
               /\ d.rs1 = IF t \in {"R", "I", "S", "B"} THEN Slice(w, 15, 5) ELSE {}
               /\ d.rs2 = IF t \in {"R", "S", "B"} THEN Slice(w, 20, 5) ELSE {}
               /\ d.imm = IF name \in Shifts THEN Slice(w, 20, 5)
                         ELSE IF t \in {"I", "S", "B", "U"} THEN Immediate(t, w)
                         ELSE {}
  <1>1. PICK m \in Major : /\ m.code = Table[name].opcode
                           /\ m.type = Table[name].type
                           /\ m.names[Table[name].funct3 + 1] = Base(name)
                           /\ m.type \in {"U", "Z"} => \A f \in 1..8 : m.names[f] = name
    BY InMajor
  <1>2. m = CHOOSE n \in Major : Bits(n.code) = Slice(w, 0, 7)
    <2>1. \A n \in Major : Bits(n.code) = Bits(m.code) => n = m
      <3> SUFFICES ASSUME NEW n \in Major, Bits(n.code) = Bits(m.code) PROVE n = m
        OBVIOUS
      <3>1. Pow(7) = 128 /\ 7 \in 0..30
        BY Powers
      <3>2. n.code \in 0..(Pow(7) - 1) /\ m.code \in 0..(Pow(7) - 1)
        BY <3>1, CodesDiffer
      <3>3. n.code = m.code
        BY <3>1, <3>2, SameBits
      <3> QED
        BY <3>3, CodesDiffer
    <2> QED
      BY <1>1, <2>1
  <1> DEFINE number == Number(Slice(w, 12, 3), 0..7)
             base == m.names[number + 1]
             read == IF base \in DOMAIN Alternate /\ 30 \in w THEN Alternate[base] ELSE base
  <1>3. number \in 0..7 /\ Bits(number) = Slice(w, 12, 3)
    <2>1. Slice(w, 12, 3) \subseteq 0..2
      BY DEF Slice, Mask
    <2>2. \E n \in 0..7 : Bits(n) = Slice(w, 12, 3)
      BY <2>1, ThreeBits
    <2> QED
      BY <2>2 DEF Number
  <1>4. base = Base(name)
    <2>1. CASE m.type \in {"U", "Z"}
      <3>1. base = name
        BY <1>1, <1>3, <2>1
      <3>2. name \notin {"sub", "sra", "srai"}
        BY <1>1, <2>1 DEF Table, Opcodes
      <3> QED
        BY <3>1, <3>2 DEF Base
    <2>2. CASE m.type \notin {"U", "Z"}
      <3>1. Table[name].funct3 \in 0..7
        BY TableWide DEF Wide
      <3>2. Pow(3) = 8 /\ 3 \in 0..30
        BY Powers
      <3>3. number = Table[name].funct3
        BY <1>1, <1>3, <2>2, <3>1, <3>2, SameBits
      <3> QED
        BY <1>1, <3>3
    <2> QED
      BY <2>1, <2>2
  <1>5. read = name
    <2>1. DOMAIN Alternate = {"add", "srl", "srli"}
      BY DEF Alternate
    <2>2. Alternate["add"] = "sub" /\ Alternate["srl"] = "sra" /\ Alternate["srli"] = "srai"
      BY DEF Alternate
    <2> QED
      BY <1>4, <2>1, <2>2 DEF Base
  <1>6. Decode(w) =
            [name |-> read,
             rd   |-> IF m.type \in {"R", "I", "U"} THEN Slice(w, 7, 5) ELSE {},
             rs1  |-> IF m.type \in {"R", "I", "S", "B"} THEN Slice(w, 15, 5) ELSE {},
             rs2  |-> IF m.type \in {"R", "S", "B"} THEN Slice(w, 20, 5) ELSE {},
             imm  |-> CASE read \in Shifts -> Slice(w, 20, 5)
                        [] read \notin Shifts /\ m.type \in {"I", "S", "B", "U"} -> Immediate(m.type, w)
                        [] OTHER -> {}]
    BY <1>2 DEF Decode
  <1> HIDE DEF read
  <1> QED
    BY <1>1, <1>5, <1>6

-----------------------------------------------------------------------------
(* Immediates, as a processor puts them together                           *)

(* The ranges of the immediates.                                           *)
Int12 == -2048..2047
Int13 == -4096..4095

(* They are numbers.                                                       *)
LEMMA Narrow == Int12 \subseteq Int /\ Int13 \subseteq Int
  BY DEF Int12, Int13

(* The I format: one field, and the sign.                                  *)
LEMMA ImmediateI ==
    ASSUME NEW v \in Int12, NEW w, IsWord(w),
           Agree(w, 20, 0, 11, Bits(v))
    PROVE  Immediate("I", w) = Bits(v)
  <1>0. /\ v \in Int /\ -2048 <= v /\ v < 2048 /\ w \subseteq 0..31
        /\ \A b \in 0..11 : b + 20 \in w <=> b \in Bits(v)
    BY DEF Int12, IsWord, Agree
  <1>1. Pow(11) = 2048
    BY Powers
  <1>2. \A b \in 11..31 : b \in Bits(v) <=> v < 0
    BY <1>0, <1>1, SignBits, 11 \in 0..30
  <1>3. ASSUME NEW b \in 0..31 PROVE ImmediateBit("I", b) \in w <=> b \in Bits(v)
    <2>1. CASE b <= 10
      BY <1>0, <2>1 DEF ImmediateBit
    <2>2. CASE b > 10
      <3>1. 31 \in w <=> 11 \in Bits(v)
        <4>1. 11 + 20 = 31
          OBVIOUS
        <4> QED
          BY <1>0, <4>1
      <3> QED
        BY <1>0, <1>2, <2>2, <3>1 DEF ImmediateBit
    <2> QED
      BY <1>0, <2>1, <2>2
  <1>4. Bits(v) \subseteq 0..31
    BY <1>0, BitIs
  <1> QED
    BY <1>0, <1>3, <1>4 DEF Immediate, Mask

(* The S format: two fields.                                               *)
LEMMA ImmediateS ==
    ASSUME NEW v \in Int12, NEW w, IsWord(w),
           Agree(w, 7, 0, 4, Bits(v)),
           Agree(w, 20, 5, 11, Bits(v))
    PROVE  Immediate("S", w) = Bits(v)
  <1>0. /\ v \in Int /\ -2048 <= v /\ v < 2048 /\ w \subseteq 0..31
        /\ \A b \in 0..4 : b + 7 \in w <=> b \in Bits(v)
        /\ \A b \in 5..11 : b + 20 \in w <=> b \in Bits(v)
    BY DEF Int12, IsWord, Agree
  <1>1. Pow(11) = 2048
    BY Powers
  <1>2. \A b \in 11..31 : b \in Bits(v) <=> v < 0
    BY <1>0, <1>1, SignBits, 11 \in 0..30
  <1>3. ASSUME NEW b \in 0..31 PROVE ImmediateBit("S", b) \in w <=> b \in Bits(v)
    <2>1. CASE b <= 4
      BY <1>0, <2>1 DEF ImmediateBit
    <2>2. CASE b \in 5..10
      BY <1>0, <2>2 DEF ImmediateBit
    <2>3. CASE b > 10
      <3>1. 31 \in w <=> 11 \in Bits(v)
        <4>1. 11 + 20 = 31
          OBVIOUS
        <4> QED
          BY <1>0, <4>1
      <3> QED
        BY <1>0, <1>2, <2>3, <3>1 DEF ImmediateBit
    <2> QED
      BY <1>0, <2>1, <2>2, <2>3
  <1>4. Bits(v) \subseteq 0..31
    BY <1>0, BitIs
  <1> QED
    BY <1>0, <1>3, <1>4 DEF Immediate, Mask

(* The B format: four, and no bit 0.                                       *)
LEMMA ImmediateB ==
    ASSUME NEW v \in Int13, v % 2 = 0, NEW w, IsWord(w),
           Agree(w, 7, 1, 4, Bits(v)),
           Agree(w, 20, 5, 10, Bits(v)),
           7 \in w <=> 11 \in Bits(v),
           31 \in w <=> 12 \in Bits(v)
    PROVE  Immediate("B", w) = Bits(v)
  <1>0. /\ v \in Int /\ -4096 <= v /\ v < 4096 /\ w \subseteq 0..31
        /\ \A b \in 1..4 : b + 7 \in w <=> b \in Bits(v)
        /\ \A b \in 5..10 : b + 20 \in w <=> b \in Bits(v)
    BY DEF Int13, IsWord, Agree
  <1>1. Pow(12) = 4096 /\ Pow(0) = 1
    BY Powers
  <1>2. \A b \in 12..31 : b \in Bits(v) <=> v < 0
    BY <1>0, <1>1, SignBits, 12 \in 0..30
  <1>3. 0 \notin Bits(v)
    <2>1. v \div 1 = v
      BY <1>0
    <2> QED
      BY <1>0, <1>1, <2>1, BitIs, 0 \in 0..30
  <1>4. ASSUME NEW b \in 0..31 PROVE ImmediateBit("B", b) \in w <=> b \in Bits(v)
    <2>1. CASE b = 0
      BY <1>0, <1>3, <2>1 DEF ImmediateBit, NoBit
    <2>2. CASE b \in 1..4
      BY <1>0, <2>2 DEF ImmediateBit
    <2>3. CASE b \in 5..10
      BY <1>0, <2>3 DEF ImmediateBit
    <2>4. CASE b = 11
      BY <1>0, <2>4 DEF ImmediateBit
    <2>5. CASE b > 11
      BY <1>0, <1>2, <2>5 DEF ImmediateBit
    <2> QED
      BY <1>0, <2>1, <2>2, <2>3, <2>4, <2>5
  <1>5. Bits(v) \subseteq 0..31
    BY <1>0, BitIs
  <1> QED
    BY <1>0, <1>4, <1>5 DEF Immediate, Mask

(* The U format: the upper part, whatever the lower 20 bits stood for.     *)
LEMMA ImmediateU ==
    ASSUME NEW v \in Int, NEW w, IsWord(w),
           Agree(w, 12, 0, 19, Bits(v))
    PROVE  Immediate("U", w) = Left(Bits(v), 12)
  <1>0. /\ v \in Int /\ w \subseteq 0..31
        /\ \A b \in 0..19 : b + 12 \in w <=> b \in Bits(v)
    BY DEF IsWord, Agree
  <1>1. Bits(v) \subseteq 0..31
    BY <1>0, BitIs
  <1>2. ASSUME NEW b \in 0..31 PROVE ImmediateBit("U", b) \in w <=> b \in Left(Bits(v), 12)
    <2>1. b \in Left(Bits(v), 12) <=> b - 12 \in Bits(v)
      BY <1>0, <1>1, InLeft
    <2>2. CASE b < 12
      BY <1>0, <1>1, <2>1, <2>2 DEF ImmediateBit, NoBit
    <2>3. CASE b >= 12
      <3>1. PICK c \in 0..19 : c = b - 12
        BY <1>0, <2>3
      <3>2. c + 12 = b
        BY <1>0, <3>1
      <3> QED
        BY <1>0, <2>1, <2>3, <3>1, <3>2 DEF ImmediateBit
    <2> QED
      BY <1>0, <2>2, <2>3
  <1>3. Left(Bits(v), 12) \subseteq 0..31
    BY DEF Left, Mask
  <1> QED
    BY <1>0, <1>2, <1>3 DEF Immediate, Mask

-----------------------------------------------------------------------------
(* What is encoded is what is decoded, format by format                    *)

(* Bit 5 of funct7 is what tells two instructions of the R format apart.   *)
LEMMA Funct7Is ==
    ASSUME NEW name \in Plains, Table[name].type = "R", Base(name) \in {"add", "srl", "srli"}
    PROVE  5 \in Bits(Table[name].funct7) <=> name \in {"sub", "sra", "srai"}
  <1>1. \/ name \in {"sub", "sra"} /\ Table[name].funct7 = 32
        \/ name \in {"add", "srl"} /\ Table[name].funct7 = 0
    BY DEF Base, Table, Opcodes
  <1>2. Pow(5) = 32 /\ 5 \in 0..30
    BY Powers
  <1>3. 5 \in Bits(32)
    <2>1. (32 \div 32) % 2 = 1
      OBVIOUS
    <2> QED
      BY <1>2, <2>1, BitIs
  <1>4. 5 \notin Bits(0)
    <2>1. (0 \div 32) % 2 = 0
      OBVIOUS
    <2> QED
      BY <1>2, <2>1, BitIs
  <1> QED
    BY <1>1, <1>3, <1>4

(* The R format.                                                           *)
LEMMA ReadsR ==
    ASSUME NEW name \in Plains, Table[name].type = "R",
           NEW rs2 \in Registers, NEW rs1 \in Registers, NEW rd \in Registers
    PROVE  Decode(ASSEMBLE_R_TYPE(Table[name], rs2, rs1, rd)) =
               [name |-> name, rd |-> Bits(rd), rs1 |-> Bits(rs1), rs2 |-> Bits(rs2), imm |-> {}]
  <1>1. PICK w : w = ASSEMBLE_R_TYPE(Table[name], rs2, rs1, rd)
    OBVIOUS
  <1>2. PICK i : i = Table[name]
    OBVIOUS
  <1>3. Wide(i)
    BY <1>2, TableWide
  <1>4. /\ IsWord(w)
        /\ Slice(w, 0, 7) = Bits(i.opcode)
        /\ Slice(w, 12, 3) = Bits(i.funct3)
        /\ Slice(w, 7, 5) = Bits(rd)
        /\ Slice(w, 15, 5) = Bits(rs1)
        /\ Slice(w, 20, 5) = Bits(rs2)
        /\ 30 \in w <=> 5 \in Bits(i.funct7)
    <2>1. w = ASSEMBLE_R_TYPE(i, rs2, rs1, rd)
      BY <1>1, <1>2
    <2> QED
      BY <1>3, <2>1, WordR
  <1>5. Base(name) \in {"add", "srl", "srli"} => (30 \in w <=> name \in {"sub", "sra", "srai"})
    BY <1>2, <1>4, Funct7Is
  <1>6. name \notin Shifts
    BY DEF Table, Opcodes, Shifts
  <1> DEFINE d == Decode(w)
  <1>7. /\ d = [name |-> d.name, rd |-> d.rd, rs1 |-> d.rs1, rs2 |-> d.rs2, imm |-> d.imm]
        /\ d.name = name
        /\ d.rd = Slice(w, 7, 5) /\ d.rs1 = Slice(w, 15, 5) /\ d.rs2 = Slice(w, 20, 5)
        /\ d.imm = {}
    BY <1>2, <1>4, <1>5, <1>6, Decoding
  <1> QED
    BY <1>1, <1>4, <1>7

(* The I format, but for srai and for shifts by more than 31.              *)
LEMMA ReadsI ==
    ASSUME NEW name \in Plains, Table[name].type = "I",
           NEW rs1 \in Registers, NEW v \in Int12, NEW rd \in Registers,
           name # "srai", name \in Shifts => v \in 0..31
    PROVE  Decode(ASSEMBLE_I_TYPE(Table[name], rs1, Bits(v), rd)) =
               [name |-> name, rd |-> Bits(rd), rs1 |-> Bits(rs1), rs2 |-> {}, imm |-> Bits(v)]
  <1>0. IsWord(Bits(v))
    <2>1. v \in Int
      BY Narrow
    <2> QED
      BY <2>1, BitIs DEF IsWord
  <1>1. PICK w : w = ASSEMBLE_I_TYPE(Table[name], rs1, Bits(v), rd)
    OBVIOUS
  <1>2. PICK i : i = Table[name]
    OBVIOUS
  <1>3. Wide(i)
    BY <1>2, TableWide
  <1>4. /\ IsWord(w)
        /\ Slice(w, 0, 7) = Bits(i.opcode)
        /\ Slice(w, 12, 3) = Bits(i.funct3)
        /\ Slice(w, 7, 5) = Bits(rd)
        /\ Slice(w, 15, 5) = Bits(rs1)
        /\ Agree(w, 20, 0, 11, Bits(v))
    <2>1. w = ASSEMBLE_I_TYPE(i, rs1, Bits(v), rd)
      BY <1>1, <1>2
    <2> QED
      BY <1>0, <1>3, <2>1, WordI
  <1>5. Base(name) \in {"add", "srl", "srli"} => (30 \in w <=> name \in {"sub", "sra", "srai"})
    <2> SUFFICES ASSUME Base(name) \in {"add", "srl", "srli"}
                 PROVE  30 \in w <=> name \in {"sub", "sra", "srai"}
      OBVIOUS
    <2>1. name = "srli"
      BY DEF Base, Table, Opcodes
    <2>2. 10 \notin Bits(v)
      <3>1. v \in 0..31
        BY <2>1 DEF Shifts
      <3> QED
        BY <3>1, FieldBits
    <2>3. 10 + 20 = 30 /\ 10 \in 0..11
      OBVIOUS
    <2>4. 30 \notin w
      BY <1>4, <2>2, <2>3 DEF Agree
    <2> QED
      BY <2>1, <2>4
  <1>6. name \in Shifts => Slice(w, 20, 5) = Bits(v)
    <2> SUFFICES ASSUME name \in Shifts PROVE Slice(w, 20, 5) = Bits(v)
      OBVIOUS
    <2>1. Bits(v) \subseteq 0..4
      BY FieldBits
    <2>2. Agree(w, 20, 0, 4, Bits(v))
      BY <1>4 DEF Agree
    <2>3. 20 \in Nat
      OBVIOUS
    <2> QED
      BY <1>4, <2>1, <2>2, <2>3, FieldOf
  <1>7. Immediate("I", w) = Bits(v)
    BY <1>4, ImmediateI
  <1> DEFINE d == Decode(w)
  <1>8. /\ d = [name |-> d.name, rd |-> d.rd, rs1 |-> d.rs1, rs2 |-> d.rs2, imm |-> d.imm]
        /\ d.name = name
        /\ d.rd = Slice(w, 7, 5) /\ d.rs1 = Slice(w, 15, 5) /\ d.rs2 = {}
        /\ d.imm = IF name \in Shifts THEN Slice(w, 20, 5) ELSE Immediate("I", w)
    BY <1>2, <1>4, <1>5, Decoding
  <1> QED
    BY <1>1, <1>4, <1>6, <1>7, <1>8

(* The S format.                                                           *)
LEMMA ReadsS ==
    ASSUME NEW name \in Plains, Table[name].type = "S",
           NEW rs1 \in Registers, NEW rs2 \in Registers, NEW v \in Int12
    PROVE  Decode(ASSEMBLE_S_TYPE(Table[name], rs1, rs2, Bits(v))) =
               [name |-> name, rd |-> {}, rs1 |-> Bits(rs1), rs2 |-> Bits(rs2), imm |-> Bits(v)]
  <1>0. IsWord(Bits(v))
    <2>1. v \in Int
      BY Narrow
    <2> QED
      BY <2>1, BitIs DEF IsWord
  <1>1. PICK w : w = ASSEMBLE_S_TYPE(Table[name], rs1, rs2, Bits(v))
    OBVIOUS
  <1>2. PICK i : i = Table[name]
    OBVIOUS
  <1>3. Wide(i)
    BY <1>2, TableWide
  <1>4. /\ IsWord(w)
        /\ Slice(w, 0, 7) = Bits(i.opcode)
        /\ Slice(w, 12, 3) = Bits(i.funct3)
        /\ Slice(w, 15, 5) = Bits(rs1)
        /\ Slice(w, 20, 5) = Bits(rs2)
        /\ Agree(w, 7, 0, 4, Bits(v))
        /\ Agree(w, 20, 5, 11, Bits(v))
    <2>1. w = ASSEMBLE_S_TYPE(i, rs1, rs2, Bits(v))
      BY <1>1, <1>2
    <2> QED
      BY <1>0, <1>3, <2>1, WordS
  <1>5. Base(name) \notin {"add", "srl", "srli"} /\ name \notin Shifts
    BY DEF Base, Table, Opcodes, Shifts
  <1>6. Immediate("S", w) = Bits(v)
    BY <1>4, ImmediateS
  <1> DEFINE d == Decode(w)
  <1>7. /\ d = [name |-> d.name, rd |-> d.rd, rs1 |-> d.rs1, rs2 |-> d.rs2, imm |-> d.imm]
        /\ d.name = name
        /\ d.rd = {} /\ d.rs1 = Slice(w, 15, 5) /\ d.rs2 = Slice(w, 20, 5)
        /\ d.imm = Immediate("S", w)
    BY <1>2, <1>4, <1>5, Decoding
  <1> QED
    BY <1>1, <1>4, <1>6, <1>7

(* The B format.                                                           *)
LEMMA ReadsB ==
    ASSUME NEW name \in Plains, Table[name].type = "B",
           NEW rs1 \in Registers, NEW rs2 \in Registers, NEW v \in Int13, v % 2 = 0
    PROVE  Decode(ASSEMBLE_B_TYPE(Table[name], rs1, rs2, Bits(v))) =
               [name |-> name, rd |-> {}, rs1 |-> Bits(rs1), rs2 |-> Bits(rs2), imm |-> Bits(v)]
  <1>0. IsWord(Bits(v))
    <2>1. v \in Int
      BY Narrow
    <2> QED
      BY <2>1, BitIs DEF IsWord
  <1>1. PICK w : w = ASSEMBLE_B_TYPE(Table[name], rs1, rs2, Bits(v))
    OBVIOUS
  <1>2. PICK i : i = Table[name]
    OBVIOUS
  <1>3. Wide(i)
    BY <1>2, TableWide
  <1>4. /\ IsWord(w)
        /\ Slice(w, 0, 7) = Bits(i.opcode)
        /\ Slice(w, 12, 3) = Bits(i.funct3)
        /\ Slice(w, 15, 5) = Bits(rs1)
        /\ Slice(w, 20, 5) = Bits(rs2)
        /\ Agree(w, 7, 1, 4, Bits(v))
        /\ Agree(w, 20, 5, 10, Bits(v))
        /\ 7 \in w <=> 11 \in Bits(v)
        /\ 31 \in w <=> 12 \in Bits(v)
    <2>1. w = ASSEMBLE_B_TYPE(i, rs1, rs2, Bits(v))
      BY <1>1, <1>2
    <2> QED
      BY <1>0, <1>3, <2>1, WordB
  <1>5. Base(name) \notin {"add", "srl", "srli"} /\ name \notin Shifts
    BY DEF Base, Table, Opcodes, Shifts
  <1>6. Immediate("B", w) = Bits(v)
    BY <1>4, ImmediateB
  <1> DEFINE d == Decode(w)
  <1>7. /\ d = [name |-> d.name, rd |-> d.rd, rs1 |-> d.rs1, rs2 |-> d.rs2, imm |-> d.imm]
        /\ d.name = name
        /\ d.rd = {} /\ d.rs1 = Slice(w, 15, 5) /\ d.rs2 = Slice(w, 20, 5)
        /\ d.imm = Immediate("B", w)
    BY <1>2, <1>4, <1>5, Decoding
  <1> QED
    BY <1>1, <1>4, <1>6, <1>7

(* The U format.                                                           *)
LEMMA ReadsU ==
    ASSUME NEW name \in Plains, Table[name].type = "U", NEW rd \in Registers, NEW v \in Int
    PROVE  Decode(ASSEMBLE_U_TYPE(Table[name], rd, Bits(v))) =
               [name |-> name, rd |-> Bits(rd), rs1 |-> {}, rs2 |-> {}, imm |-> Left(Bits(v), 12)]
  <1>0. IsWord(Bits(v))
    BY BitIs DEF IsWord
  <1>1. PICK w : w = ASSEMBLE_U_TYPE(Table[name], rd, Bits(v))
    OBVIOUS
  <1>2. PICK i : i = Table[name]
    OBVIOUS
  <1>3. Wide(i)
    BY <1>2, TableWide
  <1>4. /\ IsWord(w)
        /\ Slice(w, 0, 7) = Bits(i.opcode)
        /\ Slice(w, 7, 5) = Bits(rd)
        /\ Agree(w, 12, 0, 19, Bits(v))
    <2>1. w = ASSEMBLE_U_TYPE(i, rd, Bits(v))
      BY <1>1, <1>2
    <2> QED
      BY <1>0, <1>3, <2>1, WordU
  <1>5. Base(name) \notin {"add", "srl", "srli"} /\ name \notin Shifts
    BY DEF Base, Table, Opcodes, Shifts
  <1>6. Immediate("U", w) = Left(Bits(v), 12)
    BY <1>4, ImmediateU
  <1> DEFINE d == Decode(w)
  <1>7. /\ d = [name |-> d.name, rd |-> d.rd, rs1 |-> d.rs1, rs2 |-> d.rs2, imm |-> d.imm]
        /\ d.name = name
        /\ d.rd = Slice(w, 7, 5) /\ d.rs1 = {} /\ d.rs2 = {}
        /\ d.imm = Immediate("U", w)
    BY <1>2, <1>4, <1>5, Decoding
  <1> QED
    BY <1>1, <1>4, <1>6, <1>7

(* ecall.                                                                  *)
LEMMA ReadsZ ==
    ASSUME NEW name \in Plains, Table[name].type = "Z"
    PROVE  Decode(ASSEMBLE_Z_TYPE(Table[name])) =
               [name |-> name, rd |-> {}, rs1 |-> {}, rs2 |-> {}, imm |-> {}]
  <1>1. PICK w : w = ASSEMBLE_Z_TYPE(Table[name])
    OBVIOUS
  <1>2. PICK i : i = Table[name]
    OBVIOUS
  <1>3. Wide(i)
    BY <1>2, TableWide
  <1>4. /\ IsWord(w)
        /\ Slice(w, 0, 7) = Bits(i.opcode)
        /\ Slice(w, 12, 3) = Bits(i.funct3)
    <2>1. w = ASSEMBLE_Z_TYPE(i)
      BY <1>1, <1>2
    <2> QED
      BY <1>3, <2>1, WordZ
  <1>5. Base(name) \notin {"add", "srl", "srli"} /\ name \notin Shifts
    BY DEF Base, Table, Opcodes, Shifts
  <1> DEFINE d == Decode(w)
  <1>6. /\ d = [name |-> d.name, rd |-> d.rd, rs1 |-> d.rs1, rs2 |-> d.rs2, imm |-> d.imm]
        /\ d.name = name
        /\ d.rd = {} /\ d.rs1 = {} /\ d.rs2 = {} /\ d.imm = {}
    BY <1>2, <1>4, <1>5, Decoding
  <1> QED
    BY <1>1, <1>6

-----------------------------------------------------------------------------
(* Names of registers                                                      *)

(* The names of the calling convention, letter by letter.                  *)
LEMMA AbiIs ==
    /\ \A k \in 0..7 : ABI[k + 11] = Numbered("a", k)
    /\ \A k \in 0..1 : ABI[k + 9] = Numbered("s", k)
    /\ \A k \in 2..11 : ABI[k + 17] = Numbered("s", k)
    /\ \A k \in 0..2 : ABI[k + 6] = Numbered("t", k)
    /\ \A k \in 3..6 : ABI[k + 26] = Numbered("t", k)
    /\ ABI[1] = Fixed("zero") /\ ABI[2] = Fixed("ra") /\ ABI[3] = Fixed("sp")
    /\ ABI[4] = Fixed("gp") /\ ABI[5] = Fixed("tp")
  <1>1. \A k \in 0..7 : ABI[k + 11] = Numbered("a", k)
    <2> SUFFICES ASSUME NEW k \in 0..7 PROVE ABI[k + 11] = Numbered("a", k)
      OBVIOUS
    <2>1. k = 0 \/ k = 1 \/ k = 2 \/ k = 3 \/ k = 4 \/ k = 5 \/ k = 6 \/ k = 7
      OBVIOUS
    <2> QED
      BY <2>1 DEF ABI
  <1>2. \A k \in 0..1 : ABI[k + 9] = Numbered("s", k)
    <2> SUFFICES ASSUME NEW k \in 0..1 PROVE ABI[k + 9] = Numbered("s", k)
      OBVIOUS
    <2>1. k = 0 \/ k = 1
      OBVIOUS
    <2> QED
      BY <2>1 DEF ABI
  <1>3. \A k \in 2..11 : ABI[k + 17] = Numbered("s", k)
    <2> SUFFICES ASSUME NEW k \in 2..11 PROVE ABI[k + 17] = Numbered("s", k)
      OBVIOUS
    <2>1. k = 2 \/ k = 3 \/ k = 4 \/ k = 5 \/ k = 6 \/ k = 7 \/ k = 8 \/ k = 9 \/ k = 10 \/ k = 11
      OBVIOUS
    <2> QED
      BY <2>1 DEF ABI
  <1>4. \A k \in 0..2 : ABI[k + 6] = Numbered("t", k)
    <2> SUFFICES ASSUME NEW k \in 0..2 PROVE ABI[k + 6] = Numbered("t", k)
      OBVIOUS
    <2>1. k = 0 \/ k = 1 \/ k = 2
      OBVIOUS
    <2> QED
      BY <2>1 DEF ABI
  <1>5. \A k \in 3..6 : ABI[k + 26] = Numbered("t", k)
    <2> SUFFICES ASSUME NEW k \in 3..6 PROVE ABI[k + 26] = Numbered("t", k)
      OBVIOUS
    <2>1. k = 3 \/ k = 4 \/ k = 5 \/ k = 6
      OBVIOUS
    <2> QED
      BY <2>1 DEF ABI
  <1>6. /\ ABI[1] = Fixed("zero") /\ ABI[2] = Fixed("ra") /\ ABI[3] = Fixed("sp")
        /\ ABI[4] = Fixed("gp") /\ ABI[5] = Fixed("tp")
    BY DEF ABI
  <1> QED
    BY <1>1, <1>2, <1>3, <1>4, <1>5, <1>6

(* Each of the 32 registers has one of them.                               *)
LEMMA AbiOf ==
    ASSUME NEW n \in Registers
    PROVE  \/ \E k \in 0..7 : n = k + 10 /\ ABI[n + 1] = Numbered("a", k)
           \/ \E k \in 0..1 : n = k + 8 /\ ABI[n + 1] = Numbered("s", k)
           \/ \E k \in 2..11 : n = k + 16 /\ ABI[n + 1] = Numbered("s", k)
           \/ \E k \in 0..2 : n = k + 5 /\ ABI[n + 1] = Numbered("t", k)
           \/ \E k \in 3..6 : n = k + 25 /\ ABI[n + 1] = Numbered("t", k)
           \/ n = 0 /\ ABI[n + 1] = Fixed("zero")
           \/ n = 1 /\ ABI[n + 1] = Fixed("ra")
           \/ n = 2 /\ ABI[n + 1] = Fixed("sp")
           \/ n = 3 /\ ABI[n + 1] = Fixed("gp")
           \/ n = 4 /\ ABI[n + 1] = Fixed("tp")
  <1>1. \/ n = 0 \/ n = 1 \/ n = 2 \/ n = 3 \/ n = 4
        \/ n - 5 \in 0..2 \/ n - 8 \in 0..1 \/ n - 10 \in 0..7 \/ n - 16 \in 2..11 \/ n - 25 \in 3..6
    BY DEF Registers
  <1>2. CASE n = 0 \/ n = 1 \/ n = 2 \/ n = 3 \/ n = 4
    BY <1>2, AbiIs
  <1>3. CASE n - 5 \in 0..2
    <2>1. PICK k \in 0..2 : n = k + 5
      BY <1>3 DEF Registers
    <2>2. n + 1 = k + 6
      BY <2>1
    <2> QED
      BY <2>1, <2>2, AbiIs
  <1>4. CASE n - 8 \in 0..1
    <2>1. PICK k \in 0..1 : n = k + 8
      BY <1>4 DEF Registers
    <2>2. n + 1 = k + 9
      BY <2>1
    <2> QED
      BY <2>1, <2>2, AbiIs
  <1>5. CASE n - 10 \in 0..7
    <2>1. PICK k \in 0..7 : n = k + 10
      BY <1>5 DEF Registers
    <2>2. n + 1 = k + 11
      BY <2>1
    <2> QED
      BY <2>1, <2>2, AbiIs
  <1>6. CASE n - 16 \in 2..11
    <2>1. PICK k \in 2..11 : n = k + 16
      BY <1>6 DEF Registers
    <2>2. n + 1 = k + 17
      BY <2>1
    <2> QED
      BY <2>1, <2>2, AbiIs
  <1>7. CASE n - 25 \in 3..6
    <2>1. PICK k \in 3..6 : n = k + 25
      BY <1>7 DEF Registers
    <2>2. n + 1 = k + 26
      BY <2>1
    <2> QED
      BY <2>1, <2>2, AbiIs
  <1> QED
    BY <1>1, <1>2, <1>3, <1>4, <1>5, <1>6, <1>7

(* %hhu leaves a number alone that fits an unsigned char.                  *)
LEMMA Unsigned ==
    /\ \A n \in 0..255 : n % 256 = n
    /\ \A n \in -99..-1 : n % 256 = n + 256
    /\ \A n \in Int : n % 256 \in 0..255
  <1>1. \A n \in 0..255 : n % 256 = n
    OBVIOUS
  <1>2. \A n \in -99..-1 : n % 256 = n + 256
    OBVIOUS
  <1>3. \A n \in Int : n % 256 \in 0..255
    OBVIOUS
  <1> QED
    BY <1>1, <1>2, <1>3

(* A name the convention or the manual gives a register is read as that    *)
(* register, and fits the buffer.                                          *)
LEMMA NamedIsParsed ==
    ASSUME NEW t, NEW n \in Registers, n \in Named(t)
    PROVE  parse_register(t) = n /\ ~TooLong(t) /\ Cut(t) = t /\ parse_register(t) # INVALID
  <1>1. t = Numbered("x", n) \/ t = ABI[n + 1]
    BY DEF Named
  <1>2. n \in 0..255 /\ n \in Int /\ n <= 31 /\ n >= 0
    BY DEF Registers
  <1>3. parse_register(t) = n /\ ~TooLong(t)
    <2>1. CASE t = Numbered("x", n)
      <3>1. t.name = "x" /\ t.number = n
        BY <2>1 DEF Numbered
      <3>2. Scanned(t) = n
        BY <1>2, <3>1, Unsigned DEF Scanned
      <3> QED
        BY <1>2, <3>1, <3>2 DEF parse_register, TooLong
    <2>2. CASE \E k \in 0..7 : n = k + 10 /\ t = Numbered("a", k)
      <3>1. PICK k \in 0..7 : n = k + 10 /\ t = Numbered("a", k)
        BY <2>2
      <3>2. t.name = "a" /\ t.number = k /\ k \in 0..255
        BY <3>1 DEF Numbered
      <3>3. Scanned(t) = k
        BY <3>2, Unsigned DEF Scanned
      <3> QED
        BY <3>1, <3>2, <3>3 DEF parse_register, TooLong
    <2>3. CASE \E k \in 0..1 : n = k + 8 /\ t = Numbered("s", k)
      <3>1. PICK k \in 0..1 : n = k + 8 /\ t = Numbered("s", k)
        BY <2>3
      <3>2. t.name = "s" /\ t.number = k /\ k \in 0..255
        BY <3>1 DEF Numbered
      <3>3. Scanned(t) = k
        BY <3>2, Unsigned DEF Scanned
      <3> QED
        BY <3>1, <3>2, <3>3 DEF parse_register, TooLong
    <2>4. CASE \E k \in 2..11 : n = k + 16 /\ t = Numbered("s", k)
      <3>1. PICK k \in 2..11 : n = k + 16 /\ t = Numbered("s", k)
        BY <2>4
      <3>2. t.name = "s" /\ t.number = k /\ k \in 0..255
        BY <3>1 DEF Numbered
      <3>3. Scanned(t) = k
        BY <3>2, Unsigned DEF Scanned
      <3> QED
        BY <3>1, <3>2, <3>3 DEF parse_register, TooLong
    <2>5. CASE \E k \in 0..2 : n = k + 5 /\ t = Numbered("t", k)
      <3>1. PICK k \in 0..2 : n = k + 5 /\ t = Numbered("t", k)
        BY <2>5
      <3>2. t.name = "t" /\ t.number = k /\ k \in 0..255
        BY <3>1 DEF Numbered
      <3>3. Scanned(t) = k
        BY <3>2, Unsigned DEF Scanned
      <3> QED
        BY <3>1, <3>2, <3>3 DEF parse_register, TooLong
    <2>6. CASE \E k \in 3..6 : n = k + 25 /\ t = Numbered("t", k)
      <3>1. PICK k \in 3..6 : n = k + 25 /\ t = Numbered("t", k)
        BY <2>6
      <3>2. t.name = "t" /\ t.number = k /\ k \in 0..255
        BY <3>1 DEF Numbered
      <3>3. Scanned(t) = k
        BY <3>2, Unsigned DEF Scanned
      <3> QED
        BY <3>1, <3>2, <3>3 DEF parse_register, TooLong
    <2>7. CASE \/ n = 0 /\ t = Fixed("zero")
               \/ n = 1 /\ t = Fixed("ra")
               \/ n = 2 /\ t = Fixed("sp")
               \/ n = 3 /\ t = Fixed("gp")
               \/ n = 4 /\ t = Fixed("tp")
      <3>1. /\ t.number = 0
            /\ \/ n = 0 /\ t.name = "zero"
               \/ n = 1 /\ t.name = "ra"
               \/ n = 2 /\ t.name = "sp"
               \/ n = 3 /\ t.name = "gp"
               \/ n = 4 /\ t.name = "tp"
        BY <2>7 DEF Fixed
      <3> QED
        BY <3>1 DEF parse_register, TooLong
    <2>8. CASE t = ABI[n + 1]
      <3>1. PICK name : name = ABI[n + 1]
        OBVIOUS
      <3>2. name = t
        BY <2>8, <3>1
      <3> QED
        BY <3>1, <3>2, <2>2, <2>3, <2>4, <2>5, <2>6, <2>7, AbiOf
    <2> QED
      BY <1>1, <2>1, <2>8
  <1>4. Cut(t) = t
    BY <1>3 DEF Cut, TooLong
  <1> QED
    BY <1>2, <1>3, <1>4 DEF INVALID

(* An operand is a name with a number.                                     *)
LEMMA TokenIs ==
    ASSUME NEW t \in Token
    PROVE  /\ t = [name |-> t.name, number |-> t.number]
           /\ t.number \in Int /\ t.number <= 9999 /\ t.number >= -999
           /\ t.number = 0 \/ t.name \in Letters
           /\ DOMAIN t = {"name", "number"}
  <1>1. CASE t \in [name : Letters, number : Decimals]
    <2>1. /\ t = [name |-> t.name, number |-> t.number]
          /\ t.number \in Decimals
          /\ t.name \in Letters
          /\ DOMAIN t = {"name", "number"}
      BY <1>1
    <2>2. PICK n : n = t.number
      OBVIOUS
    <2>3. n \in Decimals
      BY <2>1, <2>2
    <2>4. n \in Int /\ n <= 9999 /\ n >= -999
      BY <2>3 DEF Decimals
    <2> QED
      BY <2>1, <2>2, <2>4
  <1>2. CASE t \in [name : Names \cup Others, number : {0}]
    <2>1. /\ t = [name |-> t.name, number |-> t.number]
          /\ t.number = 0
          /\ DOMAIN t = {"name", "number"}
      BY <1>2
    <2> QED
      BY <2>1
  <1> QED
    BY <1>1, <1>2 DEF Token

(* What parse_register lets through is a register, and one that the        *)
(* operand names unless its number has gone round.                         *)
LEMMA ParsedIsNamed ==
    ASSUME NEW t \in Token, ~TooLong(t), parse_register(t) # INVALID
    PROVE  /\ parse_register(t) \in Registers
           /\ Named(t) = {} => t.number > 255
  <1>1. t.number \in Int /\ t.number < 1000 /\ t.number > -100
    BY TokenIs DEF TooLong
  <1> DEFINE n == Scanned(t)
  <1>2. /\ n \in 0..255
        /\ t.number < 0 => n > 31
        /\ t.number \in 0..255 => n = t.number
    BY <1>1, Unsigned DEF Scanned
  <1>3. \/ t.name = "x" /\ n \in 0..31 /\ parse_register(t) = n
        \/ t.name = "a" /\ n \in 0..7 /\ parse_register(t) = n + 10
        \/ t.name = "s" /\ n \in 0..1 /\ parse_register(t) = n + 8
        \/ t.name = "s" /\ n \in 2..11 /\ parse_register(t) = n + 16
        \/ t.name = "t" /\ n \in 0..2 /\ parse_register(t) = n + 5
        \/ t.name = "t" /\ n \in 3..6 /\ parse_register(t) = n + 25
        \/ t.name = "zero" /\ parse_register(t) = 0
        \/ t.name = "ra" /\ parse_register(t) = 1
        \/ t.name = "sp" /\ parse_register(t) = 2
        \/ t.name = "gp" /\ parse_register(t) = 3
        \/ t.name = "tp" /\ parse_register(t) = 4
    <2> HIDE DEF n
    <2>1. /\ n <= 31 => n \in 0..31
          /\ n <= 7 => n \in 0..7
          /\ n < 2 => n \in 0..1
          /\ n < 3 => n \in 0..2
      BY <1>2
    <2> QED
      BY <2>1 DEF parse_register, n
  <1>4. parse_register(t) \in Registers
    <2> HIDE DEF n
    <2> QED
      BY <1>3 DEF Registers
  <1>5. ASSUME t.number <= 255 PROVE parse_register(t) \in Named(t)
    <2>1. t = Numbered(t.name, t.number)
      BY TokenIs DEF Numbered
    <2>2. n <= 31 => t.number = n
      BY <1>1, <1>2, <1>5
    <2>3. t.number = 0 \/ t.name \in Letters
      BY TokenIs
    <2>4. t.number = 0 => t = Fixed(t.name)
      BY <2>1 DEF Numbered, Fixed
    <2> HIDE DEF n
    <2>5. t = Numbered("x", parse_register(t)) \/ t = ABI[parse_register(t) + 1]
      <3>1. CASE t.name = "x" /\ n \in 0..31 /\ parse_register(t) = n
        BY <2>1, <2>2, <3>1
      <3>2. CASE t.name = "a" /\ n \in 0..7 /\ parse_register(t) = n + 10
        <4>1. parse_register(t) + 1 = n + 11 /\ t.number = n
          BY <2>2, <3>2
        <4> QED
          BY <2>1, <3>2, <4>1, AbiIs
      <3>3. CASE t.name = "s" /\ n \in 0..1 /\ parse_register(t) = n + 8
        <4>1. parse_register(t) + 1 = n + 9 /\ t.number = n
          BY <2>2, <3>3
        <4> QED
          BY <2>1, <3>3, <4>1, AbiIs
      <3>4. CASE t.name = "s" /\ n \in 2..11 /\ parse_register(t) = n + 16
        <4>1. parse_register(t) + 1 = n + 17 /\ t.number = n
          BY <2>2, <3>4
        <4> QED
          BY <2>1, <3>4, <4>1, AbiIs
      <3>5. CASE t.name = "t" /\ n \in 0..2 /\ parse_register(t) = n + 5
        <4>1. parse_register(t) + 1 = n + 6 /\ t.number = n
          BY <2>2, <3>5
        <4> QED
          BY <2>1, <3>5, <4>1, AbiIs
      <3>6. CASE t.name = "t" /\ n \in 3..6 /\ parse_register(t) = n + 25
        <4>1. parse_register(t) + 1 = n + 26 /\ t.number = n
          BY <2>2, <3>6
        <4> QED
          BY <2>1, <3>6, <4>1, AbiIs
      <3>7. CASE \/ t.name = "zero" /\ parse_register(t) = 0
                 \/ t.name = "ra" /\ parse_register(t) = 1
                 \/ t.name = "sp" /\ parse_register(t) = 2
                 \/ t.name = "gp" /\ parse_register(t) = 3
                 \/ t.name = "tp" /\ parse_register(t) = 4
        <4>1. t = Fixed(t.name)
          BY <2>3, <2>4, <3>7 DEF Letters
        <4> QED
          BY <3>7, <4>1, AbiIs
      <3> QED
        BY <1>3, <3>1, <3>2, <3>3, <3>4, <3>5, <3>6, <3>7
    <2> QED
      BY <1>4, <2>5 DEF Named
  <1> QED
    BY <1>1, <1>4, <1>5

(* What is cut fits the buffer, and only what does not fit is cut.         *)
LEMMA CutFits ==
    ASSUME NEW t \in Token
    PROVE  /\ Cut(t) \in Token /\ ~TooLong(Cut(t))
           /\ ~TooLong(t) => Cut(t) = t
  <1>1. CASE t.name = "zero5"
    <2>1. Cut(t) = Fixed("zero") /\ TooLong(t)
      BY <1>1 DEF Cut, TooLong
    <2>2. Fixed("zero") \in Token
      <3>1. [name |-> "zero", number |-> 0] \in [name : Names \cup Others, number : {0}]
        BY DEF Names
      <3> QED
        BY <3>1 DEF Fixed, Token
    <2>3. ~TooLong(Fixed("zero"))
      BY DEF Fixed, TooLong
    <2> QED
      BY <2>1, <2>2, <2>3
  <1>2. CASE t.name # "zero5" /\ ~TooLong(t)
    BY <1>2 DEF Cut
  <1>3. CASE t.name # "zero5" /\ TooLong(t)
    <2>1. PICK m : m = t.number
      OBVIOUS
    <2>2. PICK n : n = IF m < 0 THEN -((-m) \div 10) ELSE m \div 10
      OBVIOUS
    <2>3. m \in Int /\ m <= 9999 /\ m >= -999 /\ (m >= 1000 \/ m <= -100)
      BY <1>3, <2>1, TokenIs DEF TooLong
    <2>8. t.name \in Letters
      BY <2>1, <2>3, TokenIs
    <2>9. n \in Int /\ -99 <= n /\ n <= 999
      <3>1. CASE m >= 1000
        BY <2>2, <2>3, <3>1
      <3>2. CASE m <= -100
        <4>1. PICK q : q = (-m) \div 10
          OBVIOUS
        <4>2. q \in Int /\ 0 <= q /\ q <= 99
          BY <2>3, <3>2, <4>1
        <4>3. n = -q
          BY <2>2, <2>3, <3>2, <4>1
        <4> QED
          BY <4>2, <4>3
      <3> QED
        BY <2>3, <3>1, <3>2
    <2>4. Cut(t) = [t EXCEPT !.number = n]
      BY <1>3, <2>1, <2>2 DEF Cut
    <2>5. Cut(t) = [name |-> t.name, number |-> n]
      BY <2>4, TokenIs
    <2>6. ~TooLong(Cut(t))
      BY <1>3, <2>5, <2>9 DEF TooLong
    <2>7. Cut(t) \in Token
      <3>1. n \in Decimals
        <4>1. PICK low : low = -999
          OBVIOUS
        <4>2. low \in Int
          BY <4>1
        <4>3. low <= n
          BY <2>9, <4>1
        <4>4. n \in low..9999
          BY <2>9, <4>2, <4>3
        <4> QED
          BY <4>1, <4>4 DEF Decimals
      <3>2. [name |-> t.name, number |-> n] \in [name : Letters, number : Decimals]
        BY <2>8, <3>1
      <3> QED
        BY <2>5, <3>2 DEF Token
    <2> QED
      BY <1>3, <2>6, <2>7
  <1> QED
    BY <1>1, <1>2, <1>3

-----------------------------------------------------------------------------
(* The inductive invariant                                                 *)

Failed == step = "done" /\ err # "OK"

(* What line holds has come from the source: the expansion of a            *)
(* pseudo-instruction, and otherwise the source but for operands that were *)
(* cut and an offset that was left out.                                    *)
Follows ==
    IF source.name \in Pseudos
    THEN /\ line = Expansion(source.name, source.rd, Cut(source.rs1))
         /\ PseudoScans
    ELSE /\ line.name = source.name
         /\ step = "scan" => line = source
         /\ \A r \in Uses(Type) : line[r] = source[r] \/ TooLong(source[r])
         /\ line.imm = source.imm \/ line.imm = 0

(* Every operand that is asked for is in its buffer as it stands.          *)
Buffered == \A r \in Uses(Type) : ~TooLong(line[r])

(* The registers parsed are those of the operands, in their order.         *)
Parsed ==
    /\ regs \in Seq(Registers)
    /\ Len(regs) <= Len(Operands(Type))
    /\ \A k \in 1..Len(regs) :
           /\ parse_register(line[Operands(Type)[k]]) # INVALID
           /\ regs[k] = parse_register(line[Operands(Type)[k]])

IInv ==
    /\ source \in SourceLine /\ line \in SourceLine
    /\ step \in {"expand", "scan", "check", "registers", "done"}
    /\ step # "done" => err = "OK"
    /\ step = "expand" => source.name \in Pseudos
    /\ step \in {"expand", "scan", "check"} => regs = <<>>
    /\ step # "expand" /\ ~Failed => Follows
    /\ step \in {"check", "registers"} \/ Encoded => Buffered
    /\ step = "registers" \/ Encoded => ImmediateFits(Type, line.imm) /\ Parsed
    /\ Encoded => Len(regs) = Len(Operands(Type)) /\ word = Assembled
    /\ RefusedForCause

-----------------------------------------------------------------------------
(* Lines and their operands                                                *)

Fields == {"rd", "rs1", "rs2"}

(* The operands of each type.                                              *)
LEMMA UsesAre ==
    /\ Operands("R") = <<"rs2", "rs1", "rd">> /\ Uses("R") = {"rs2", "rs1", "rd"}
    /\ Operands("I") = <<"rs1", "rd">> /\ Uses("I") = {"rs1", "rd"}
    /\ Operands("S") = <<"rs2", "rs1">> /\ Uses("S") = {"rs2", "rs1"}
    /\ Operands("B") = <<"rs1", "rs2">> /\ Uses("B") = {"rs1", "rs2"}
    /\ Operands("U") = <<"rd">> /\ Uses("U") = {"rd"}
    /\ Operands("Z") = <<>> /\ Uses("Z") = {}
  BY DEF Operands, Uses

(* So an operand is one of three, and each place in the order holds one.   *)
LEMMA OperandsAre ==
    ASSUME NEW type \in {"R", "I", "S", "B", "U", "Z"}
    PROVE  /\ Uses(type) \subseteq Fields
           /\ Len(Operands(type)) \in Nat
           /\ \A k \in 1..Len(Operands(type)) : Operands(type)[k] \in Uses(type)
           /\ \A r \in Uses(type) : \E k \in 1..Len(Operands(type)) : Operands(type)[k] = r
  BY DEF Operands, Uses, Fields

(* The fields of a line of the source.                                     *)
LEMMA LineIs ==
    ASSUME NEW l \in SourceLine
    PROVE  /\ l.name \in Plains \cup Pseudos
           /\ l.shape \in Shapes
           /\ l.imm \in Int
           /\ l.rd \in Token /\ l.rs1 \in Token /\ l.rs2 \in Token
           /\ \A r \in Fields : l[r] \in Token
           /\ DOMAIN l = {"name", "shape", "rd", "rs1", "rs2", "imm"}
  BY DEF SourceLine, Fields

(* A line is made of the six.                                              *)
LEMMA LineOf ==
    ASSUME NEW name \in Plains \cup Pseudos, NEW shape \in Shapes, NEW rd \in Token,
           NEW rs1 \in Token, NEW rs2 \in Token, NEW imm \in Int
    PROVE  OperandLine(name, shape, rd, rs1, rs2, imm) \in SourceLine
  BY DEF OperandLine, SourceLine

(* zero is x0.                                                             *)
LEMMA ZeroIs == Zero \in Token /\ 0 \in Named(Zero) /\ parse_register(Zero) = 0 /\ ~TooLong(Zero)
  <1>1. Zero \in Token
    <2>1. [name |-> "zero", number |-> 0] \in [name : Names \cup Others, number : {0}]
      BY DEF Names
    <2> QED
      BY <2>1 DEF Zero, Fixed, Token
  <1>2. 0 \in Named(Zero)
    <2>1. 0 \in Registers /\ 0 + 1 = 1
      BY DEF Registers
    <2> QED
      BY <2>1, AbiIs DEF Named, Zero
  <1>3. 0 \in Registers
    BY DEF Registers
  <1> QED
    BY <1>1, <1>2, <1>3, NamedIsParsed

(* The token a1.                                                           *)
One == Numbered("a", 1)

(* a1 fits and is x11.                                                     *)
LEMMA OneIs == One \in Token /\ 11 \in Named(One) /\ parse_register(One) = 11 /\ ~TooLong(One)
  <1>1. One \in Token
    <2>1. 1 \in Decimals
      BY DEF Decimals
    <2>2. [name |-> "a", number |-> 1] \in [name : Letters, number : Decimals]
      BY <2>1 DEF Letters
    <2> QED
      BY <2>2 DEF One, Numbered, Token
  <1>2. 11 \in Registers
    BY DEF Registers
  <1>3. 11 \in Named(One)
    <2>1. 11 + 1 = 12 /\ 1 \in 0..7 /\ 1 + 11 = 12
      OBVIOUS
    <2>2. ABI[12] = One
      BY <2>1, AbiIs DEF One
    <2> QED
      BY <1>2, <2>1, <2>2 DEF Named
  <1> QED
    BY <1>1, <1>2, <1>3, NamedIsParsed

(* Nothing with a comma in it is a register.                               *)
LEMMA CommaIs == Comma \in Token /\ parse_register(Comma) = INVALID /\ Named(Comma) = {}
  <1>1. Comma \in Token
    <2>1. [name |-> "a1,2", number |-> 0] \in [name : Names \cup Others, number : {0}]
      BY DEF Others
    <2> QED
      BY <2>1 DEF Comma, Fixed, Token
  <1>2. parse_register(Comma) = INVALID
    <2>1. Comma.name = "a1,2"
      BY DEF Comma, Fixed
    <2> QED
      BY <2>1 DEF parse_register
  <1>3. Named(Comma) \subseteq Registers
    BY DEF Named
  <1> QED
    BY <1>1, <1>2, <1>3, NamedIsParsed

(* No pseudo-instruction is in the table.                                  *)
LEMMA PseudosApart == \A name \in Pseudos : name \notin Plains /\ ~is_load_store(name)
  BY DEF Pseudos, Plains, Table, is_load_store

(* What a pseudo-instruction becomes: an instruction of the table whose    *)
(* immediate fits and whose operands are those of the line, zero, and the  *)
(* a1 that was read before a comma.                                        *)
LEMMA ExpansionIs ==
    ASSUME NEW name \in Pseudos, NEW rd \in Token, NEW rs \in Token,
           NEW l, l = Expansion(name, rd, rs)
    PROVE  /\ l \in SourceLine /\ l.name \in Plains /\ l.shape = "full"
           /\ ImmediateFits(Table[l.name].type, l.imm)
           /\ \A r \in Uses(Table[l.name].type) :
                  l[r] \in {Zero, One} \/ (name # "nop" /\ l[r] \in {rd, rs})
  <1>0. Zero # Comma
    BY DEF Zero, Comma, Fixed
  <1>1. \/ l = OperandLine("addi", "full", rd, rs, Zero, 0) /\ name # "nop"
        \/ /\ \E plain \in {"addi", "xori", "sltiu"} : l = OperandLine(plain, "full", rd, One, Zero, 2)
           /\ name # "nop"
        \/ l = OperandLine("sub", "full", rd, Zero, rs, 0) /\ name # "nop"
        \/ l = OperandLine("addi", "full", Zero, Zero, Zero, 0)
        \/ l = OperandLine("xori", "full", rd, rs, Zero, -1) /\ name # "nop"
        \/ l = OperandLine("sltiu", "full", rd, rs, Zero, 1) /\ name # "nop"
        \/ l = OperandLine("sltu", "full", rd, Zero, rs, 0) /\ name # "nop"
    BY <1>0 DEF Expansion, Printed, One, expand_neg_instr, Pseudos
  <1>2. /\ {"addi", "sub", "xori", "sltiu", "sltu"} \subseteq Plains
        /\ "full" \in Shapes
        /\ Table["addi"].type = "I" /\ Table["xori"].type = "I" /\ Table["sltiu"].type = "I"
        /\ Table["sub"].type = "R" /\ Table["sltu"].type = "R"
    BY DEF Plains, Shapes, Table, Opcodes
  <1>3. l \in SourceLine
    BY <1>1, <1>2, LineOf, ZeroIs, OneIs
  <1>4. /\ l.name \in Plains /\ l.shape = "full"
        /\ l.imm \in {0, -1, 1, 2}
        /\ Table[l.name].type \in {"I", "R"}
        /\ l.rd \in {rd, Zero} /\ l.rs1 \in {rs, Zero, One} /\ l.rs2 \in {rs, Zero}
        /\ name = "nop" => l.rd = Zero /\ l.rs1 = Zero /\ l.rs2 = Zero
    BY <1>1, <1>2 DEF OperandLine
  <1>5. \A imm \in {0, -1, 1, 2} : ImmediateFits("I", imm) /\ ImmediateFits("R", imm)
    <2>1. \A imm \in {0, -1, 1, 2} : imm \in -2^11..2^11 - 1
      OBVIOUS
    <2> QED
      BY <2>1 DEF ImmediateFits
  <1>6. \A r \in Fields : l[r] \in {Zero, One} \/ (name # "nop" /\ l[r] \in {rd, rs})
    <2>1. l["rd"] = l.rd /\ l["rs1"] = l.rs1 /\ l["rs2"] = l.rs2
      OBVIOUS
    <2> QED
      BY <1>4, <2>1 DEF Fields
  <1>7. Uses(Table[l.name].type) \subseteq Fields
    BY <1>4, UsesAre DEF Fields
  <1> QED
    BY <1>3, <1>4, <1>5, <1>6, <1>7

(* The type of an instruction is one of six.                               *)
LEMMA TypeIs ==
    ASSUME NEW name \in Plains
    PROVE  Table[name].type \in {"R", "I", "S", "B", "U", "Z"}
  BY TableWide

(* An operand that was cut names no register.                              *)
LEMMA CutNamesNone ==
    ASSUME NEW t, TooLong(t)
    PROVE  Named(t) = {}
  <1>1. Named(t) \subseteq Registers
    BY DEF Named
  <1> QED
    BY <1>1, NamedIsParsed

(* An immediate a word can hold is one that fits.                          *)
LEMMA EncodableFits ==
    ASSUME NEW type \in {"R", "I", "S", "B", "U", "Z"}, NEW v \in Int, Encodable(type, v)
    PROVE  ImmediateFits(type, v)
  <1>1. CASE type \in {"I", "S"}
    <2>1. v \div 2^30 \in -2..1
      BY <1>1 DEF Encodable
    <2>2. \A i \in 11..30 : i \in Bits(v) <=> 31 \in Bits(v)
      <3> SUFFICES ASSUME NEW i \in 11..30 PROVE i \in Bits(v) <=> 31 \in Bits(v)
        OBVIOUS
      <3>1. i \in Mask(32) /\ 31 \in Mask(32)
        BY DEF Mask
      <3>2. ImmediateBit(type, i) = 31 /\ ImmediateBit(type, 31) = 31
        BY <1>1 DEF ImmediateBit
      <3> QED
        BY <1>1, <3>1, <3>2 DEF Encodable
    <2>3. 31 \in Bits(v) <=> v < 0
      BY BitIs
    <2>4. 11 \in 0..30 /\ 2^30 = Pow(30) /\ Pow(11) = 2048
      BY Powers DEF Pow
    <2>5. -Pow(11) <= v /\ v < Pow(11)
      BY <2>1, <2>2, <2>3, <2>4, NarrowBits
    <2>6. v \in -2^11..2^11 - 1
      BY <2>4, <2>5
    <2> QED
      BY <1>1, <2>6 DEF ImmediateFits
  <1>2. CASE type = "B"
    <2>1. v \div 2^30 \in -2..1
      BY <1>2 DEF Encodable
    <2>2. \A i \in 12..30 : i \in Bits(v) <=> 31 \in Bits(v)
      <3> SUFFICES ASSUME NEW i \in 12..30 PROVE i \in Bits(v) <=> 31 \in Bits(v)
        OBVIOUS
      <3>1. i \in Mask(32) /\ 31 \in Mask(32)
        BY DEF Mask
      <3>2. ImmediateBit("B", i) = 31 /\ ImmediateBit("B", 31) = 31
        BY DEF ImmediateBit
      <3> QED
        BY <1>2, <3>1, <3>2 DEF Encodable
    <2>3. 31 \in Bits(v) <=> v < 0
      BY BitIs
    <2>4. 12 \in 0..30 /\ 2^30 = Pow(30) /\ Pow(12) = 4096 /\ Pow(0) = 1 /\ 0 \in 0..30
      BY Powers DEF Pow
    <2>5. -Pow(12) <= v /\ v < Pow(12)
      BY <2>1, <2>2, <2>3, <2>4, NarrowBits
    <2>6. 0 \notin Bits(v)
      <3>1. 0 \in Mask(32) /\ ImmediateBit("B", 0) = NoBit
        BY DEF Mask, ImmediateBit
      <3> QED
        BY <1>2, <3>1 DEF Encodable
    <2>7. (v \div Pow(0)) % 2 # 1
      BY <2>4, <2>6, BitIs
    <2>8. v % 2 = 0
      BY <2>4, <2>7
    <2>9. v \in -2^12..2^12 - 1
      BY <2>4, <2>5
    <2> QED
      BY <1>2, <2>8, <2>9 DEF ImmediateFits
  <1>3. CASE type = "U"
    <2>1. v \div 2^19 = 0 \/ v \div 2^19 = -1 \/ v \div 2^20 = 0
      BY <1>3 DEF Encodable
    <2>2. v \in -2^19..2^20 - 1
      BY <2>1
    <2> QED
      BY <1>3, <2>2 DEF ImmediateFits
  <1>4. CASE type \in {"R", "Z"}
    BY <1>4 DEF ImmediateFits
  <1> QED
    BY <1>1, <1>2, <1>3, <1>4

(* An offset that is left out fits.                                        *)
LEMMA NoneFits ==
    ASSUME NEW type \in {"R", "I", "S", "B", "U", "Z"}
    PROVE  ImmediateFits(type, 0)
  <1>1. 0 \in -2^11..2^11 - 1 /\ 0 \in -2^12..2^12 - 1 /\ 0 % 2 = 0 /\ 0 \in -2^19..2^20 - 1
    OBVIOUS
  <1> QED
    BY <1>1 DEF ImmediateFits

-----------------------------------------------------------------------------
(* The steps                                                               *)

(* At first the line is that of the file.                                  *)
LEMMA InitHolds == Init => IInv
  <1> SUFFICES ASSUME Init PROVE IInv
    OBVIOUS
  <1>1. source \in SourceLine /\ line = source /\ regs = <<>> /\ err = "OK"
    BY LinesAssumption DEF Init
  <1>2. step = IF source.name \in Pseudos THEN "expand" ELSE "scan"
    BY DEF Init
  <1>3. step # "expand" => Follows
    BY <1>1, <1>2 DEF Follows
  <1> QED
    BY <1>1, <1>2, <1>3 DEF IInv, Encoded, RefusedForCause, Failed

(* The names the line may have once it is expanded.                        *)
LEMMA FollowsPlain ==
    ASSUME IInv, Follows
    PROVE  /\ line.name \in Plains
           /\ Type \in {"R", "I", "S", "B", "U", "Z"}
           /\ Uses(Type) \subseteq Fields
           /\ source.name \in Plains \cup Pseudos
  <1>1. source \in SourceLine /\ line \in SourceLine
    BY DEF IInv
  <1>2. source.name \in Plains \cup Pseudos /\ source.rd \in Token /\ source.rs1 \in Token
    BY <1>1, LineIs
  <1>3. line.name \in Plains
    <2>1. CASE source.name \in Pseudos
      <3>1. Cut(source.rs1) \in Token
        BY <1>2, CutFits
      <3>2. line = Expansion(source.name, source.rd, Cut(source.rs1))
        BY <2>1 DEF Follows
      <3> QED
        BY <1>2, <2>1, <3>1, <3>2, ExpansionIs
    <2>2. CASE source.name \notin Pseudos
      BY <1>2, <2>2 DEF Follows
    <2> QED
      BY <2>1, <2>2
  <1>4. Type \in {"R", "I", "S", "B", "U", "Z"}
    BY <1>3, TypeIs DEF Type
  <1> QED
    BY <1>2, <1>3, <1>4, OperandsAre

(* expand_pseudo_instr gives up for a cause.                               *)
LEMMA ExpandFailsKeeps == ASSUME IInv, ExpandFails PROVE IInv'
  <1>1. /\ step = "expand" /\ ~PseudoScans
        /\ step' = "done" /\ err' = "PARSE_ERROR"
        /\ source' = source /\ line' = line /\ regs' = regs /\ word' = word
    BY DEF ExpandFails, Fail
  <1>2. source \in SourceLine /\ line \in SourceLine /\ source.name \in Pseudos
    BY <1>1 DEF IInv
  <1>3. /\ source.shape \in {"full", "bare", "bad"}
        /\ ~is_load_store(source.name)
    BY <1>2, LineIs, PseudosApart DEF Shapes
  <1>4. source.shape # "full" \/ TooLong(source.rd)
    BY <1>1 DEF PseudoScans
  <1>5. \/ source.shape = "bad"
        \/ source.shape = "bare" /\ ~is_load_store(source.name)
        \/ Named(source.rd) = {}
    BY <1>3, <1>4, CutNamesNone
  <1>6. RefusedForCause'
    BY <1>1, <1>2, <1>5 DEF RefusedForCause
  <1> QED
    BY <1>1, <1>2, <1>6 DEF IInv, Failed, Encoded

(* What it expands the line to is left for sscanf.                         *)
LEMMA ExpandKeeps == ASSUME IInv, Expand PROVE IInv'
  <1>1. /\ step = "expand" /\ PseudoScans
        /\ line' = Expansion(source.name, source.rd, Cut(source.rs1))
        /\ step' = "scan"
        /\ source' = source /\ err' = err /\ regs' = regs /\ word' = word
    BY DEF Expand, Goto
  <1>2. source \in SourceLine /\ source.name \in Pseudos /\ err = "OK" /\ regs = <<>>
    BY <1>1 DEF IInv
  <1>3. source.rd \in Token /\ Cut(source.rs1) \in Token
    BY <1>2, LineIs, CutFits
  <1>4. line' \in SourceLine
    BY <1>1, <1>2, <1>3, ExpansionIs
  <1>5. PseudoScans'
    BY <1>1 DEF PseudoScans
  <1>6. Follows'
    BY <1>1, <1>2, <1>5 DEF Follows
  <1> QED
    BY <1>1, <1>2, <1>4, <1>6 DEF IInv, Failed, Encoded, RefusedForCause

(* The operands of the line sscanf is to read, and its immediate.          *)
LEMMA AtScan ==
    ASSUME IInv, step = "scan"
    PROVE  /\ Follows /\ regs = <<>> /\ err = "OK"
           /\ source \in SourceLine /\ line \in SourceLine
           /\ source.name \in Pseudos =>
                  /\ line.shape = "full"
                  /\ ImmediateFits(Type, line.imm)
                  /\ \A r \in Uses(Type) : ~TooLong(line[r])
           /\ source.name \notin Pseudos => line = source
  <1>1. /\ Follows /\ regs = <<>> /\ err = "OK" /\ source \in SourceLine /\ line \in SourceLine
    BY DEF IInv, Failed
  <1>2. ASSUME source.name \in Pseudos
        PROVE  /\ line.shape = "full"
               /\ ImmediateFits(Type, line.imm)
               /\ \A r \in Uses(Type) : ~TooLong(line[r])
    <2>1. source.rd \in Token /\ Cut(source.rs1) \in Token /\ ~TooLong(Cut(source.rs1))
      BY <1>1, LineIs, CutFits
    <2>2. line = Expansion(source.name, source.rd, Cut(source.rs1))
      BY <1>1, <1>2 DEF Follows
    <2>3. source.name # "nop" => ~TooLong(source.rd)
      BY <1>1, <1>2 DEF Follows, PseudoScans
    <2>4. /\ line.shape = "full"
          /\ ImmediateFits(Type, line.imm)
          /\ \A r \in Uses(Type) :
                 \/ line[r] \in {Zero, One}
                 \/ source.name # "nop" /\ line[r] \in {source.rd, Cut(source.rs1)}
      BY <1>2, <2>1, <2>2, ExpansionIs DEF Type
    <2> QED
      BY <2>1, <2>3, <2>4, ZeroIs, OneIs
  <1>3. source.name \notin Pseudos => line = source
    BY <1>1 DEF Follows
  <1> QED
    BY <1>1, <1>2, <1>3

(* sscanf finds everything in what a pseudo-instruction was expanded to,   *)
(* and fails otherwise for want of an operand that fits.                   *)
LEMMA ScanFailsKeeps == ASSUME IInv, ScanFails PROVE IInv'
  <1>1. /\ step = "scan" /\ ~Scans
        /\ step' = "done" /\ err' = "PARSE_ERROR"
        /\ source' = source /\ line' = line /\ regs' = regs /\ word' = word
    BY DEF ScanFails, Fail
  <1>2. source.name \notin Pseudos
    BY <1>1, AtScan DEF Scans
  <1>3. line = source /\ source \in SourceLine /\ Follows
    BY <1>1, <1>2, AtScan
  <1>4. source.shape \in {"full", "bare", "bad"}
    BY <1>3, LineIs DEF Shapes
  <1>5. \/ source.shape = "bad"
        \/ source.shape = "bare" /\ ~is_load_store(source.name)
        \/ ~NamesRegisters(source)
    <2> SUFFICES ASSUME source.shape = "full" \/ (source.shape = "bare" /\ is_load_store(line.name))
                 PROVE  ~NamesRegisters(source)
      BY <1>3, <1>4
    <2>1. PICK r \in Uses(Type) : TooLong(line[r])
      BY <1>1, <1>3 DEF Scans
    <2>2. Named(source[r]) = {}
      BY <1>3, <2>1, CutNamesNone
    <2>3. r \in Uses(Table[source.name].type)
      BY <1>3, <2>1 DEF Type
    <2> QED
      BY <2>2, <2>3 DEF NamesRegisters
  <1>6. RefusedForCause'
    BY <1>1, <1>2, <1>5 DEF RefusedForCause
  <1> QED
    BY <1>1, <1>3, <1>6 DEF IInv, Failed, Encoded

(* What it takes fits the buffers, the last operand because it is cut.     *)
LEMMA ScanKeeps == ASSUME IInv, Scan PROVE IInv'
  <1>1. /\ step = "scan" /\ Scans
        /\ line' = [r \in DOMAIN line |->
                       IF r \in Last(line.name) THEN Cut(line[r])
                       ELSE IF r = "imm" /\ line.shape = "bare" THEN 0
                       ELSE line[r]]
        /\ step' = "check"
        /\ source' = source /\ err' = err /\ regs' = regs /\ word' = word
    BY DEF Scan, Goto
  <1>2. /\ Follows /\ regs = <<>> /\ err = "OK"
        /\ source \in SourceLine /\ line \in SourceLine
    BY <1>1, AtScan
  <1>3. Last(line.name) \subseteq {"rs1", "rs2"}
    BY DEF Last
  <1>4. /\ DOMAIN line = {"name", "shape", "rd", "rs1", "rs2", "imm"}
        /\ line.name \in Plains \cup Pseudos /\ line.shape \in Shapes /\ line.imm \in Int
        /\ \A r \in Fields : line[r] \in Token
    BY <1>2, LineIs
  <1>5. /\ line'.name = line.name /\ line'.shape = line.shape
        /\ line'.imm = line.imm \/ (line'.imm = 0 /\ line.shape = "bare")
        /\ \A r \in Fields : line'[r] = IF r \in Last(line.name) THEN Cut(line[r]) ELSE line[r]
        /\ line'.imm \in Int
    BY <1>1, <1>3, <1>4 DEF Fields
  <1>6. \A r \in Fields : line'[r] \in Token
    BY <1>4, <1>5, CutFits
  <1>7. line' \in SourceLine
    <2>1. DOMAIN line' = {"name", "shape", "rd", "rs1", "rs2", "imm"}
      BY <1>1, <1>4
    <2>2. line' = [r \in {"name", "shape", "rd", "rs1", "rs2", "imm"} |-> line'[r]]
      BY <1>1, <1>4
    <2>3. line' = OperandLine(line'.name, line'.shape, line'.rd, line'.rs1, line'.rs2, line'.imm)
      BY <2>1, <2>2 DEF OperandLine
    <2>4. line'.rd \in Token /\ line'.rs1 \in Token /\ line'.rs2 \in Token
      BY <1>6 DEF Fields
    <2> QED
      BY <1>4, <1>5, <2>3, <2>4, LineOf
  <1>8. Type' = Type /\ Uses(Type) \subseteq Fields
    BY <1>1, <1>2, <1>5, FollowsPlain DEF Type
  <1>9. Buffered'
    <2> SUFFICES ASSUME NEW r \in Uses(Type) PROVE ~TooLong(line'[r])
      BY <1>8 DEF Buffered
    <2>1. r \in Fields /\ line[r] \in Token
      BY <1>4, <1>8
    <2>2. CASE r \in Last(line.name)
      BY <1>5, <2>1, <2>2, CutFits
    <2>3. CASE r \notin Last(line.name)
      <3>1. Type # "Z"
        BY UsesAre
      <3>2. ~TooLong(line[r])
        BY <1>1, <2>3, <3>1 DEF Scans
      <3> QED
        BY <1>5, <2>1, <2>3, <3>2
    <2> QED
      BY <2>2, <2>3
  <1>10. Follows'
    <2>1. CASE source.name \in Pseudos
      <3>1. /\ line.shape = "full"
            /\ \A r \in Uses(Type) : ~TooLong(line[r])
            /\ line = Expansion(source.name, source.rd, Cut(source.rs1)) /\ PseudoScans
        BY <1>1, <1>2, <2>1, AtScan DEF Follows
      <3>2. Last(line.name) \subseteq Uses(Type)
        <4>1. source.rd \in Token /\ Cut(source.rs1) \in Token
          BY <1>2, LineIs, CutFits
        <4>2. line.name \in {"addi", "sub", "xori", "sltiu", "sltu"}
          BY <2>1, <3>1 DEF Expansion, Printed, expand_neg_instr, OperandLine, Pseudos
        <4>3. Last(line.name) = IF Type = "R" THEN {"rs2"} ELSE {}
          BY <4>2 DEF Last, is_load_store, Type
        <4> QED
          BY <4>3, UsesAre
      <3>3. \A r \in Last(line.name) : Cut(line[r]) = line[r]
        BY <1>4, <1>8, <3>1, <3>2, CutFits
      <3>4. line' = line
        <4>1. line = [r \in DOMAIN line |-> line[r]]
          BY <1>2 DEF SourceLine
        <4>2. \A r \in DOMAIN line : line'[r] = line[r]
          BY <1>1, <3>1, <3>3
        <4>3. line' = [r \in DOMAIN line |-> line'[r]]
          BY <1>1
        <4> QED
          BY <4>1, <4>2, <4>3
      <3>5. PseudoScans'
        BY <1>1, <3>1 DEF PseudoScans
      <3> QED
        BY <1>1, <2>1, <3>1, <3>4, <3>5 DEF Follows
    <2>2. CASE source.name \notin Pseudos
      <3>1. line = source
        BY <1>1, <2>2, AtScan
      <3>2. \A r \in Uses(Type) : line'[r] = source[r] \/ TooLong(source[r])
        BY <1>4, <1>5, <1>8, <3>1, CutFits
      <3> QED
        BY <1>1, <1>5, <1>8, <2>2, <3>1, <3>2 DEF Follows
    <2> QED
      BY <2>1, <2>2
  <1> QED
    BY <1>1, <1>2, <1>7, <1>9, <1>10 DEF IInv, Failed, Encoded, RefusedForCause

(* A pseudo-instruction and an offset left out have an immediate that      *)
(* fits, so the one that does not is that of the source.                   *)
LEMMA CheckFailsKeeps == ASSUME IInv, CheckFails PROVE IInv'
  <1>1. /\ step = "check" /\ ~ImmediateFits(Type, line.imm)
        /\ step' = "done" /\ err' = "INVALID_IMMEDIATE"
        /\ source' = source /\ line' = line /\ regs' = regs /\ word' = word
    BY DEF CheckFails, Fail
  <1>2. Follows /\ source \in SourceLine /\ line \in SourceLine
    BY <1>1 DEF IInv, Failed
  <1>3. Type \in {"R", "I", "S", "B", "U", "Z"} /\ source.name \in Plains \cup Pseudos
    BY <1>2, FollowsPlain
  <1>4. source.name \notin Pseudos
    <2> SUFFICES ASSUME source.name \in Pseudos PROVE FALSE
      OBVIOUS
    <2>1. source.rd \in Token /\ Cut(source.rs1) \in Token
      BY <1>2, LineIs, CutFits
    <2>2. line = Expansion(source.name, source.rd, Cut(source.rs1))
      BY <1>2 DEF Follows
    <2>3. ImmediateFits(Type, line.imm)
      BY <2>1, <2>2, ExpansionIs DEF Type
    <2> QED
      BY <1>1, <2>3
  <1>5. line.name = source.name /\ line.imm = source.imm /\ source.imm \in Int
    BY <1>1, <1>2, <1>3, <1>4, NoneFits, LineIs DEF Follows
  <1>6. ~Encodable(Type, source.imm)
    BY <1>1, <1>3, <1>5, EncodableFits
  <1>7. RefusedForCause'
    BY <1>1, <1>4, <1>6 DEF RefusedForCause, Type
  <1> QED
    BY <1>1, <1>2, <1>7 DEF IInv, Failed, Encoded

(* The range check.                                                        *)
LEMMA CheckKeeps == ASSUME IInv, Check PROVE IInv'
  <1>1. /\ step = "check" /\ ImmediateFits(Type, line.imm)
        /\ step' = "registers"
        /\ source' = source /\ line' = line /\ err' = err /\ regs' = regs /\ word' = word
    BY DEF Check, Goto
  <1>2. /\ Follows /\ Buffered /\ source \in SourceLine /\ line \in SourceLine
        /\ err = "OK" /\ regs = <<>>
    BY <1>1 DEF IInv, Failed
  <1>3. Type \in {"R", "I", "S", "B", "U", "Z"}
    BY <1>2, FollowsPlain
  <1>4. Type' = Type /\ Follows' /\ Buffered'
    BY <1>1, <1>2 DEF Type, Follows, Buffered, PseudoScans
  <1>5. Parsed'
    <2>1. Len(Operands(Type)) \in Nat
      BY <1>3, OperandsAre
    <2>2. <<>> \in Seq(Registers) /\ Len(<<>>) = 0
      OBVIOUS
    <2> QED
      BY <1>1, <1>2, <1>4, <2>1, <2>2 DEF Parsed
  <1> QED
    BY <1>1, <1>2, <1>4, <1>5 DEF IInv, Failed, Encoded, RefusedForCause

(* What stands behind the operand parse_register is called for.            *)
LEMMA AtOperand ==
    ASSUME IInv, step = "registers", Len(regs) < Len(Operands(Type))
    PROVE  /\ Follows /\ Buffered /\ Parsed /\ ImmediateFits(Type, line.imm)
           /\ source \in SourceLine /\ line \in SourceLine /\ err = "OK"
           /\ Len(regs) \in Nat
           /\ Len(regs) + 1 \in 1..Len(Operands(Type))
           /\ \E r \in Uses(Type) \cap Fields : NextOperand = line[r]
           /\ NextOperand \in Token /\ ~TooLong(NextOperand)
  <1>1. /\ Follows /\ Buffered /\ Parsed /\ ImmediateFits(Type, line.imm)
        /\ source \in SourceLine /\ line \in SourceLine /\ err = "OK"
    BY DEF IInv, Failed
  <1>2. Type \in {"R", "I", "S", "B", "U", "Z"} /\ Uses(Type) \subseteq Fields
    BY <1>1, FollowsPlain
  <1>3. Len(regs) \in Nat /\ Len(Operands(Type)) \in Nat
    BY <1>1, <1>2, OperandsAre DEF Parsed
  <1>4. Len(regs) + 1 \in 1..Len(Operands(Type))
    BY <1>3
  <1>5. Operands(Type)[Len(regs) + 1] \in Uses(Type)
    BY <1>2, <1>4, OperandsAre
  <1>6. PICK r \in Uses(Type) \cap Fields : NextOperand = line[r]
    BY <1>2, <1>5 DEF NextOperand
  <1>7. NextOperand \in Token /\ ~TooLong(NextOperand)
    BY <1>1, <1>6, LineIs DEF Buffered
  <1> QED
    BY <1>1, <1>3, <1>4, <1>6, <1>7

(* An operand parse_register refuses names no register: one of the line,   *)
(* since zero and a1 pass, even if it was cut.                             *)
LEMMA RegisterFailsKeeps == ASSUME IInv, RegisterFails PROVE IInv'
  <1>1. /\ step = "registers" /\ Len(regs) < Len(Operands(Type))
        /\ parse_register(NextOperand) = INVALID
        /\ step' = "done" /\ err' = "INVALID_REGISTER"
        /\ source' = source /\ line' = line /\ regs' = regs /\ word' = word
    BY DEF RegisterFails, Fail
  <1>2. Follows /\ source \in SourceLine /\ line \in SourceLine
    BY <1>1, AtOperand
  <1>3. PICK r \in Uses(Type) \cap Fields : NextOperand = line[r]
    BY <1>1, AtOperand
  <1>4. Named(NextOperand) = {}
    <2>1. Named(NextOperand) \subseteq Registers
      BY DEF Named
    <2> QED
      BY <1>1, <2>1, NamedIsParsed
  <1>5. IF source.name \in Pseudos THEN Named(source.rd) = {} \/ Named(source.rs1) = {}
        ELSE ~NamesRegisters(source)
    <2>1. CASE source.name \in Pseudos
      <3>1. source.rd \in Token /\ source.rs1 \in Token /\ Cut(source.rs1) \in Token
        BY <1>2, LineIs, CutFits
      <3>2. line = Expansion(source.name, source.rd, Cut(source.rs1))
        BY <1>2, <2>1 DEF Follows
      <3>3. NextOperand \in {Zero, One, source.rd, Cut(source.rs1)}
        BY <1>3, <2>1, <3>1, <3>2, ExpansionIs DEF Type
      <3>4. NextOperand # Zero /\ NextOperand # One
        BY <1>4, ZeroIs, OneIs
      <3>5. CASE NextOperand = Cut(source.rs1)
        <4>1. Cut(source.rs1) = source.rs1 \/ TooLong(source.rs1)
          BY <3>1, CutFits
        <4> QED
          BY <1>4, <2>1, <3>5, <4>1, CutNamesNone
      <3> QED
        BY <1>4, <2>1, <3>3, <3>4, <3>5
    <2>2. CASE source.name \notin Pseudos
      <3>1. line.name = source.name /\ (line[r] = source[r] \/ TooLong(source[r]))
        BY <1>2, <1>3, <2>2 DEF Follows
      <3>2. Named(source[r]) = {}
        BY <1>3, <1>4, <3>1, CutNamesNone
      <3>3. r \in Uses(Table[source.name].type)
        BY <1>3, <3>1 DEF Type
      <3> QED
        BY <2>2, <3>2, <3>3 DEF NamesRegisters
    <2> QED
      BY <2>1, <2>2
  <1>6. RefusedForCause'
    BY <1>1, <1>5 DEF RefusedForCause
  <1> QED
    BY <1>1, <1>2, <1>6 DEF IInv, Failed, Encoded

(* One it takes is appended to those before it.                            *)
LEMMA RegisterKeeps == ASSUME IInv, Register PROVE IInv'
  <1>1. /\ step = "registers" /\ Len(regs) < Len(Operands(Type))
        /\ parse_register(NextOperand) # INVALID
        /\ regs' = Append(regs, parse_register(NextOperand))
        /\ source' = source /\ line' = line /\ step' = step /\ err' = err /\ word' = word
    BY DEF Register
  <1>2. /\ Follows /\ Buffered /\ Parsed /\ ImmediateFits(Type, line.imm)
        /\ source \in SourceLine /\ line \in SourceLine /\ err = "OK"
        /\ Len(regs) \in Nat /\ Len(regs) + 1 \in 1..Len(Operands(Type))
        /\ NextOperand \in Token /\ ~TooLong(NextOperand)
    BY <1>1, AtOperand
  <1>3. Type' = Type /\ Follows' /\ Buffered'
    BY <1>1, <1>2 DEF Type, Follows, Buffered, PseudoScans
  <1>4. parse_register(NextOperand) \in Registers
    BY <1>1, <1>2, ParsedIsNamed
  <1>5. Parsed'
    <2>1. regs \in Seq(Registers)
      BY <1>2 DEF Parsed
    <2>2. /\ regs' \in Seq(Registers) /\ Len(regs') = Len(regs) + 1
          /\ \A k \in 1..Len(regs) : regs'[k] = regs[k]
          /\ regs'[Len(regs) + 1] = parse_register(NextOperand)
      BY <1>1, <1>4, <2>1
    <2>3. Len(regs') <= Len(Operands(Type))
      BY <1>2, <2>2
    <2>4. ASSUME NEW k \in 1..Len(regs')
          PROVE  /\ parse_register(line[Operands(Type)[k]]) # INVALID
                 /\ regs'[k] = parse_register(line[Operands(Type)[k]])
      <3>1. k \in 1..Len(regs) \/ k = Len(regs) + 1
        BY <1>2, <2>2
      <3>2. CASE k \in 1..Len(regs)
        BY <1>2, <2>2, <3>2 DEF Parsed
      <3>3. CASE k = Len(regs) + 1
        BY <1>1, <2>2, <3>3 DEF NextOperand
      <3> QED
        BY <3>1, <3>2, <3>3
    <2> QED
      BY <1>1, <1>3, <2>2, <2>3, <2>4 DEF Parsed
  <1> QED
    BY <1>1, <1>2, <1>3, <1>5 DEF IInv, Failed, Encoded, RefusedForCause

(* With all of them the word is put together.                              *)
LEMMA EncodeKeeps == ASSUME IInv, Encode PROVE IInv'
  <1>1. /\ step = "registers" /\ Len(regs) = Len(Operands(Type))
        /\ word' = Assembled /\ step' = "done"
        /\ source' = source /\ line' = line /\ regs' = regs /\ err' = err
    BY DEF Encode
  <1>2. /\ Follows /\ Buffered /\ Parsed /\ ImmediateFits(Type, line.imm)
        /\ source \in SourceLine /\ line \in SourceLine /\ err = "OK"
    BY <1>1 DEF IInv, Failed
  <1>3. Type' = Type /\ Follows' /\ Buffered' /\ Parsed'
    BY <1>1, <1>2 DEF Type, Follows, Buffered, PseudoScans, Parsed
  <1>4. Assembled' = Assembled
    BY <1>1, <1>3 DEF Assembled
  <1> QED
    BY <1>1, <1>2, <1>3, <1>4 DEF IInv, Failed, Encoded, RefusedForCause

(* Every step.                                                             *)
LEMMA NextKeeps == IInv /\ [Next]_vars => IInv'
  <1> SUFFICES ASSUME IInv, [Next]_vars PROVE IInv'
    OBVIOUS
  <1>1. CASE UNCHANGED vars
    BY <1>1 DEF vars, IInv, Failed, Encoded, Follows, PseudoScans, Buffered, Parsed, Type,
                Assembled, RefusedForCause, NamesRegisters
  <1>2. CASE Next
    BY <1>1, <1>2, ExpandFailsKeeps, ExpandKeeps, ScanFailsKeeps, ScanKeeps, CheckFailsKeeps,
       CheckKeeps, RegisterFailsKeeps, RegisterKeeps, EncodeKeeps
       DEF Next, Returned
  <1> QED
    BY <1>1, <1>2

(* The invariant of every run.                                             *)
THEOREM Invariance == Spec => []IInv
  BY InitHolds, NextKeeps, PTL DEF Spec

(* encode() refuses nothing it could encode.                               *)
THEOREM Refused == Spec => []RefusedForCause
  <1>1. IInv => RefusedForCause
    BY DEF IInv
  <1> QED
    BY <1>1, Invariance, PTL

(* The immediates that fit, in figures.                                    *)
LEMMA FitsIs ==
    ASSUME NEW v \in Int
    PROVE  /\ ImmediateFits("I", v) => v \in Int12
           /\ ImmediateFits("S", v) => v \in Int12
           /\ ImmediateFits("B", v) => v \in Int13 /\ v % 2 = 0
  <1>1. /\ ImmediateFits("I", v) => v \in -2^11..2^11 - 1
        /\ ImmediateFits("S", v) => v \in -2^11..2^11 - 1
        /\ ImmediateFits("B", v) => v \in -2^12..2^12 - 1 /\ v % 2 = 0
    BY DEF ImmediateFits
  <1>2. v \in -2^11..2^11 - 1 => v \in Int12
    BY DEF Int12
  <1>3. v \in -2^12..2^12 - 1 => v \in Int13
    BY DEF Int13
  <1> QED
    BY <1>1, <1>2, <1>3

(* What the number of a register is and what its operand names agree.      *)
LEMMA Choice ==
    ASSUME NEW t \in Token, ~TooLong(t), parse_register(t) # INVALID, Named(t) # {}
    PROVE  (CHOOSE n \in Registers : n \in Named(t)) = parse_register(t)
  <1>1. PICK n \in Registers : n \in Named(t)
    BY DEF Named
  <1> DEFINE m == CHOOSE i \in Registers : i \in Named(t)
  <1>2. m \in Registers /\ m \in Named(t)
    BY <1>1
  <1> HIDE DEF m
  <1>3. m = parse_register(t)
    BY <1>2, NamedIsParsed
  <1> QED
    BY <1>3 DEF m

(* What a line of the run has become once its word is there.               *)
LEMMA AtWord ==
    ASSUME IInv, Encoded
    PROVE  /\ Follows /\ source \in SourceLine /\ line \in SourceLine
           /\ word = Assembled
           /\ line.name \in Plains /\ Type \in {"R", "I", "S", "B", "U", "Z"}
           /\ line.imm \in Int /\ ImmediateFits(Type, line.imm)
           /\ \A r \in Uses(Type) :
                  /\ line[r] \in Token /\ ~TooLong(line[r])
                  /\ parse_register(line[r]) # INVALID
                  /\ parse_register(line[r]) \in Registers
           /\ \A k \in 1..Len(Operands(Type)) : regs[k] = parse_register(line[Operands(Type)[k]])
  <1>1. /\ Follows /\ Buffered /\ Parsed /\ ImmediateFits(Type, line.imm)
        /\ source \in SourceLine /\ line \in SourceLine
        /\ Len(regs) = Len(Operands(Type)) /\ word = Assembled
    BY DEF IInv, Failed, Encoded
  <1>2. /\ line.name \in Plains /\ Type \in {"R", "I", "S", "B", "U", "Z"}
        /\ Uses(Type) \subseteq Fields
    BY <1>1, FollowsPlain
  <1>3. \A k \in 1..Len(Operands(Type)) :
            /\ parse_register(line[Operands(Type)[k]]) # INVALID
            /\ regs[k] = parse_register(line[Operands(Type)[k]])
    BY <1>1 DEF Parsed
  <1>4. ASSUME NEW r \in Uses(Type)
        PROVE  /\ line[r] \in Token /\ ~TooLong(line[r])
               /\ parse_register(line[r]) # INVALID
               /\ parse_register(line[r]) \in Registers
    <2>1. line[r] \in Token /\ ~TooLong(line[r])
      BY <1>1, <1>2, <1>4, LineIs DEF Buffered
    <2>2. PICK k \in 1..Len(Operands(Type)) : Operands(Type)[k] = r
      BY <1>2, <1>4, OperandsAre
    <2>3. parse_register(line[r]) # INVALID
      BY <1>3, <2>2
    <2> QED
      BY <2>1, <2>3, ParsedIsNamed
  <1> QED
    BY <1>1, <1>2, <1>3, <1>4, LineIs

(* The register an operand was parsed to, as bits.                         *)
Parse(r) == parse_register(line[r])

(* What a processor reads in the word.                                     *)
LEMMA WordReads ==
    ASSUME IInv, Encoded, line.name # "srai", line.name \in Shifts => line.imm \in 0..31
    PROVE  Decode(word) =
               [name |-> line.name,
                rd  |-> IF "rd" \in Uses(Type) THEN Bits(Parse("rd")) ELSE {},
                rs1 |-> IF "rs1" \in Uses(Type) THEN Bits(Parse("rs1")) ELSE {},
                rs2 |-> IF "rs2" \in Uses(Type) THEN Bits(Parse("rs2")) ELSE {},
                imm |-> CASE Type \in {"I", "S", "B"} -> Bits(line.imm)
                          [] Type = "U"               -> Left(Bits(line.imm), 12)
                          [] OTHER                    -> {}]
  <1>1. /\ word = Assembled
        /\ line.name \in Plains /\ Type \in {"R", "I", "S", "B", "U", "Z"}
        /\ line.imm \in Int /\ ImmediateFits(Type, line.imm)
        /\ \A r \in Uses(Type) : Parse(r) \in Registers
        /\ \A k \in 1..Len(Operands(Type)) : regs[k] = Parse(Operands(Type)[k])
    BY AtWord DEF Parse
  <1>2. CASE Type = "R"
    <2>1. Operands(Type) = <<"rs2", "rs1", "rd">> /\ Uses(Type) = {"rs2", "rs1", "rd"}
      BY <1>2, UsesAre
    <2>2. Len(Operands(Type)) = 3
      BY <2>1
    <2>3. regs[1] = Parse("rs2") /\ regs[2] = Parse("rs1") /\ regs[3] = Parse("rd")
      BY <1>1, <2>1, <2>2
    <2>4. word = ASSEMBLE_R_TYPE(Table[line.name], Parse("rs2"), Parse("rs1"), Parse("rd"))
      BY <1>1, <1>2, <2>3 DEF Assembled
    <2> QED
      BY <1>1, <1>2, <2>1, <2>4, ReadsR DEF Type
  <1>3. CASE Type = "I"
    <2>1. Operands(Type) = <<"rs1", "rd">> /\ Uses(Type) = {"rs1", "rd"}
      BY <1>3, UsesAre
    <2>2. Len(Operands(Type)) = 2
      BY <2>1
    <2>3. regs[1] = Parse("rs1") /\ regs[2] = Parse("rd")
      BY <1>1, <2>1, <2>2
    <2>4. word = ASSEMBLE_I_TYPE(Table[line.name], Parse("rs1"), Bits(line.imm), Parse("rd"))
      BY <1>1, <1>3, <2>3 DEF Assembled
    <2>5. line.imm \in Int12
      BY <1>1, <1>3, FitsIs
    <2> QED
      BY <1>1, <1>3, <2>1, <2>4, <2>5, ReadsI DEF Type
  <1>4. CASE Type = "S"
    <2>1. Operands(Type) = <<"rs2", "rs1">> /\ Uses(Type) = {"rs2", "rs1"}
      BY <1>4, UsesAre
    <2>2. Len(Operands(Type)) = 2
      BY <2>1
    <2>3. regs[1] = Parse("rs2") /\ regs[2] = Parse("rs1")
      BY <1>1, <2>1, <2>2
    <2>4. word = ASSEMBLE_S_TYPE(Table[line.name], Parse("rs1"), Parse("rs2"), Bits(line.imm))
      BY <1>1, <1>4, <2>3 DEF Assembled
    <2>5. line.imm \in Int12
      BY <1>1, <1>4, FitsIs
    <2> QED
      BY <1>1, <1>4, <2>1, <2>4, <2>5, ReadsS DEF Type
  <1>5. CASE Type = "B"
    <2>1. Operands(Type) = <<"rs1", "rs2">> /\ Uses(Type) = {"rs1", "rs2"}
      BY <1>5, UsesAre
    <2>2. Len(Operands(Type)) = 2
      BY <2>1
    <2>3. regs[1] = Parse("rs1") /\ regs[2] = Parse("rs2")
      BY <1>1, <2>1, <2>2
    <2>4. word = ASSEMBLE_B_TYPE(Table[line.name], Parse("rs1"), Parse("rs2"), Bits(line.imm))
      BY <1>1, <1>5, <2>3 DEF Assembled
    <2>5. line.imm \in Int13 /\ line.imm % 2 = 0
      BY <1>1, <1>5, FitsIs
    <2> QED
      BY <1>1, <1>5, <2>1, <2>4, <2>5, ReadsB DEF Type
  <1>6. CASE Type = "U"
    <2>1. Operands(Type) = <<"rd">> /\ Uses(Type) = {"rd"}
      BY <1>6, UsesAre
    <2>2. Len(Operands(Type)) = 1
      BY <2>1
    <2>3. regs[1] = Parse("rd")
      BY <1>1, <2>1, <2>2
    <2>4. word = ASSEMBLE_U_TYPE(Table[line.name], Parse("rd"), Bits(line.imm))
      BY <1>1, <1>6, <2>3 DEF Assembled
    <2> QED
      BY <1>1, <1>6, <2>1, <2>4, ReadsU DEF Type
  <1>7. CASE Type = "Z"
    <2>1. Uses(Type) = {}
      BY <1>7, UsesAre
    <2>2. word = ASSEMBLE_Z_TYPE(Table[line.name])
      BY <1>1, <1>7 DEF Assembled
    <2> QED
      BY <1>1, <1>7, <2>1, <2>2, ReadsZ DEF Type
  <1> QED
    BY <1>1, <1>2, <1>3, <1>4, <1>5, <1>6, <1>7

(* A processor reads the word back as the line.                            *)
THEOREM ReadBack == Spec => []Decoded
  <1>1. ASSUME IInv, Encoded PROVE Decoded
    <2>1. ASSUME NEW r \in Uses(Type), Named(line[r]) = {} PROVE line[r].number > 255
      BY <1>1, <2>1, AtWord, ParsedIsNamed
    <2>2. ASSUME NamesRegisters(line), line.name # "srai",
                 line.name \in Shifts => line.imm \in 0..31
          PROVE  Decode(word) = Meant(line)
      <3>1. \A r \in Uses(Type) : (CHOOSE n \in Registers : n \in Named(line[r])) = Parse(r)
        BY <1>1, <2>2, AtWord, Choice DEF NamesRegisters, Parse, Type
      <3>2. Table[line.name].type = Type
        BY DEF Type
      <3>3. \A r \in Fields :
               (IF r \in Uses(Type) THEN Bits(CHOOSE n \in Registers : n \in Named(line[r])) ELSE {})
                   = IF r \in Uses(Type) THEN Bits(Parse(r)) ELSE {}
        <4> TAKE r \in Fields
        <4>1. CASE r \in Uses(Type)
          <5> DEFINE m == CHOOSE n \in Registers : n \in Named(line[r])
          <5>1. m = Parse(r)
            BY <3>1, <4>1
          <5>2. Bits(m) = Bits(Parse(r))
            <6> HIDE DEF m
            <6> QED
              BY <5>1
          <5> QED
            BY <4>1, <5>2
        <4>2. CASE r \notin Uses(Type)
          BY <4>2
        <4> QED
          BY <4>1, <4>2
      <3>4. Meant(line) =
               [name |-> line.name,
                rd  |-> IF "rd" \in Uses(Type) THEN Bits(Parse("rd")) ELSE {},
                rs1 |-> IF "rs1" \in Uses(Type) THEN Bits(Parse("rs1")) ELSE {},
                rs2 |-> IF "rs2" \in Uses(Type) THEN Bits(Parse("rs2")) ELSE {},
                imm |-> CASE Type \in {"I", "S", "B"} -> Bits(line.imm)
                          [] Type = "U"               -> Left(Bits(line.imm), 12)
                          [] OTHER                    -> {}]
        BY <3>2, <3>3 DEF Meant, Fields
      <3> QED
        BY <1>1, <2>2, <3>4, WordReads
    <2> QED
      BY <2>1, <2>2 DEF Decoded
  <1>2. IInv => Decoded
    BY <1>1 DEF Decoded
  <1> QED
    BY <1>2, Invariance, PTL

-----------------------------------------------------------------------------
(* What the expansions compute                                             *)

(* A register of WIDTH bits.                                               *)
LEMMA WidthIs ==
    /\ WIDTH \in 0..30 /\ WIDTH \in 1..30
    /\ 2^WIDTH = Pow(WIDTH) /\ Pow(WIDTH) \in Nat /\ Pow(WIDTH) > 1
    /\ RegisterValues = 0..(Pow(WIDTH) - 1)
    /\ 0 \in RegisterValues /\ 1 \in RegisterValues /\ Pow(WIDTH) - 1 \in RegisterValues
  <1>1. WIDTH \in 0..30 /\ WIDTH \in 1..30 /\ 2^WIDTH = Pow(WIDTH)
    BY WidthAssumption DEF Pow
  <1>2. Pow(WIDTH) \in Nat /\ Pow(WIDTH) > 1
    <2>1. Pow(1) <= Pow(WIDTH) /\ Pow(1) = 2 /\ Pow(WIDTH) \in Nat
      BY <1>1, Grows, Powers
    <2> QED
      BY <2>1
  <1>3. RegisterValues = 0..(Pow(WIDTH) - 1)
    BY <1>1 DEF RegisterValues
  <1> QED
    BY <1>1, <1>2, <1>3

(* Every power below is a divisor, with an even quotient.                  *)
LEMMA EvenQuotient ==
    ASSUME NEW k \in 1..30, NEW i \in 0..(k - 1)
    PROVE  \E h \in Nat : Pow(k) = 2 * (Pow(i) * h)
  <1> DEFINE T == {n \in Nat : i + 1 + n <= 30 => \E h \in Nat : Pow(i + 1 + n) = 2 * (Pow(i) * h)}
  <1>1. i \in 0..29
    OBVIOUS
  <1>2. 0 \in T
    <2>1. i \in 0..29 /\ i + 1 + 0 = i + 1
      BY <1>1
    <2>2. Pow(i) \in Nat /\ Pow(i + 1) = 2 * (Pow(i) * 1)
      BY <2>1, Doubles
    <2> QED
      BY <2>1, <2>2
  <1>3. ASSUME NEW n \in Nat, n \in T PROVE n + 1 \in T
    <2> SUFFICES ASSUME i + 1 + (n + 1) <= 30
                 PROVE  \E h \in Nat : Pow(i + 1 + (n + 1)) = 2 * (Pow(i) * h)
      OBVIOUS
    <2>1. PICK m : m = i + 1 + n
      OBVIOUS
    <2>2. m \in 0..29 /\ i + 1 + (n + 1) = m + 1 /\ m <= 30
      BY <1>1, <2>1
    <2>3. PICK h \in Nat : Pow(m) = 2 * (Pow(i) * h)
      BY <1>3, <2>1, <2>2
    <2>4. Pow(m + 1) = 2 * Pow(m)
      BY <2>2, Doubles
    <2>5. PICK p : p = Pow(i)
      OBVIOUS
    <2>6. p \in Nat
      BY <1>1, <2>5, Grows
    <2>7. PICK q \in Nat : q = p * h
      BY <2>6
    <2>8. p * (2 * h) = 2 * q
      BY <2>6, <2>7
    <2>9. Pow(m + 1) = 2 * (p * (2 * h))
      BY <2>3, <2>4, <2>5, <2>7, <2>8
    <2> QED
      BY <2>2, <2>5, <2>9
  <1>4. \A n \in Nat : n \in T
    <2> HIDE DEF T
    <2> QED
      BY <1>2, <1>3, SetInduction
  <1>5. k - i - 1 \in Nat /\ i + 1 + (k - i - 1) = k /\ k <= 30
    BY <1>1
  <1> QED
    BY <1>4, <1>5

(* Counting down from a multiple, quotients are counted down.              *)
LEMMA Countdown ==
    ASSUME NEW v \in Int, NEW h \in Int, NEW i \in 0..29
    PROVE  (2 * (Pow(i) * h) - 1 - v) \div Pow(i) = 2 * h - 1 - (v \div Pow(i))
  <1>1. \/ i = 0 \/ i = 1 \/ i = 2 \/ i = 3 \/ i = 4 \/ i = 5 \/ i = 6 \/ i = 7 \/ i = 8 \/ i = 9
        \/ i = 10 \/ i = 11 \/ i = 12 \/ i = 13 \/ i = 14 \/ i = 15 \/ i = 16 \/ i = 17
        \/ i = 18 \/ i = 19 \/ i = 20 \/ i = 21 \/ i = 22 \/ i = 23 \/ i = 24 \/ i = 25
        \/ i = 26 \/ i = 27 \/ i = 28 \/ i = 29
    OBVIOUS
  <1> QED
    BY <1>1, Powers

(* The complement of a register.                                           *)
LEMMA Complement ==
    ASSUME NEW v \in RegisterValues
    PROVE  /\ Pow(WIDTH) - 1 - v \in RegisterValues
           /\ Bits(Pow(WIDTH) - 1 - v) = (0..(WIDTH - 1)) \ Bits(v)
  <1>1. PICK c : c = Pow(WIDTH) - 1 - v
    OBVIOUS
  <1>2. v \in Int /\ c \in Int /\ c \in RegisterValues /\ v \in 0..(Pow(WIDTH) - 1)
    BY <1>1, WidthIs
  <1>3. Bits(c) \subseteq 0..(WIDTH - 1)
    BY <1>2, WidthIs, SmallBits
  <1>4. ASSUME NEW i \in 0..(WIDTH - 1) PROVE i \in Bits(c) <=> i \notin Bits(v)
    <2>1. i \in 0..30 /\ i \in 0..29
      BY WidthIs
    <2>2. PICK h \in Nat : Pow(WIDTH) = 2 * (Pow(i) * h)
      BY WidthIs, EvenQuotient
    <2>3. PICK q : q = v \div Pow(i)
      OBVIOUS
    <2>4. q \in Int
      BY <1>2, <2>1, <2>3, Doubled
    <2>5. c \div Pow(i) = 2 * h - 1 - q
      <3>1. h \in Int
        OBVIOUS
      <3>2. (2 * (Pow(i) * h) - 1 - v) \div Pow(i) = 2 * h - 1 - q
        BY <1>2, <2>1, <2>3, <3>1, Countdown
      <3>3. c = 2 * (Pow(i) * h) - 1 - v
        BY <1>1, <2>2
      <3> QED
        BY <3>2, <3>3
    <2>6. (2 * h - 1 - q) % 2 = 1 <=> q % 2 # 1
      BY <2>4
    <2> QED
      BY <1>2, <2>1, <2>3, <2>5, <2>6, BitIs
  <1> QED
    BY <1>1, <1>2, <1>3, <1>4

(* The low bits of the immediates an expansion has.                        *)
LEMMA LowIs ==
    /\ Bits(0) = {} /\ Bits(1) = {0}
    /\ Low(Bits(0)) = 0 /\ Low(Bits(1)) = 1 /\ Low(Bits(-1)) = Pow(WIDTH) - 1
  <1>1. Mask(WIDTH) = 0..(WIDTH - 1) /\ 0 \in 0..(WIDTH - 1)
    BY WidthIs DEF Mask
  <1>2. Bits(0) = {}
    <2>1. 0 \in 0..30 /\ 0 \in 0..(Pow(0) - 1)
      BY Powers
    <2>2. Bits(0) \subseteq 0..(0 - 1)
      BY <2>1, SmallBits
    <2> QED
      BY <2>2
  <1>3. Bits(1) = {0}
    <2>1. 1 \in 0..30 /\ 0 \in 0..30 /\ 1 \in 0..(Pow(1) - 1)
      BY Powers
    <2>2. Bits(1) \subseteq 0..(1 - 1)
      BY <2>1, SmallBits
    <2>3. (1 \div Pow(0)) % 2 = 1
      BY Powers
    <2>4. 0 \in Bits(1)
      BY <2>1, <2>3, BitIs
    <2> QED
      BY <2>2, <2>4
  <1>4. \A n \in RegisterValues : Number(Bits(n), RegisterValues) = n
    BY WidthIs, NumberOf
  <1>5. Low(Bits(0)) = 0
    <2>1. Bits(0) \cap Mask(WIDTH) = Bits(0)
      BY <1>2
    <2> QED
      BY <1>4, <2>1, WidthIs DEF Low
  <1>6. Low(Bits(1)) = 1
    <2>1. Bits(1) \cap Mask(WIDTH) = Bits(1)
      BY <1>1, <1>3
    <2> QED
      BY <1>4, <2>1, WidthIs DEF Low
  <1>7. Low(Bits(-1)) = Pow(WIDTH) - 1
    <2>1. \A i \in 0..(WIDTH - 1) : i \in Bits(-1)
      <3> SUFFICES ASSUME NEW i \in 0..(WIDTH - 1) PROVE i \in Bits(-1)
        OBVIOUS
      <3>1. i \in 0..31 /\ 0 \in 0..30 /\ -1 \in Int /\ -1 < 0
        BY WidthIs
      <3>2. -Pow(0) <= -1 /\ -1 < Pow(0)
        BY Powers
      <3> QED
        BY <3>1, <3>2, SignBits
    <2>2. Bits(-1) \cap Mask(WIDTH) = 0..(WIDTH - 1)
      BY <1>1, <2>1
    <2>3. Pow(WIDTH) - 1 - 0 = Pow(WIDTH) - 1
      BY WidthIs
    <2>4. Bits(Pow(WIDTH) - 1) = (0..(WIDTH - 1)) \ Bits(0)
      BY <2>3, WidthIs, Complement
    <2>5. Bits(-1) \cap Mask(WIDTH) = Bits(Pow(WIDTH) - 1)
      BY <1>2, <2>2, <2>4
    <2> QED
      BY <1>4, <2>5, WidthIs DEF Low
  <1> QED
    BY <1>2, <1>3, <1>5, <1>6, <1>7

(* A register is the number of its bits.                                   *)
LEMMA RegisterOf == \A r \in Registers : Number(Bits(r), Registers) = r
  <1>1. Registers = 0..(Pow(5) - 1) /\ 5 \in 0..30
    BY Powers DEF Registers
  <1> QED
    BY <1>1, NumberOf

(* The registers an execution starts from.                                 *)
IsFileOf(x) == x \in [Registers -> RegisterValues] /\ x[0] = 0

(* The processor with v in register rs, as PseudoMeans has it.             *)
Before(rs, v) == Write([r \in Registers |-> IF r = 0 THEN 0 ELSE r % 2^WIDTH], rs, v)

(* It is such a set of registers.                                          *)
LEMMA BeforeIs ==
    ASSUME NEW rs \in Registers, NEW v \in RegisterValues
    PROVE  IsFileOf(Before(rs, v))
  <1>1. PICK p : p = 2^WIDTH
    OBVIOUS
  <1>2. p \in Nat /\ p > 1 /\ RegisterValues = 0..(p - 1) /\ 0 \in RegisterValues
    BY <1>1, WidthIs
  <1>3. \A r \in Registers : r % p \in 0..(p - 1)
    BY <1>2 DEF Registers
  <1> DEFINE x == [r \in Registers |-> IF r = 0 THEN 0 ELSE r % p]
  <1>4. 0 \in Registers
    BY DEF Registers
  <1>5. IsFileOf(x)
    BY <1>2, <1>3, <1>4 DEF IsFileOf
  <1>6. Before(rs, v) = IF rs = 0 THEN x ELSE [x EXCEPT ![rs] = v]
    BY <1>1 DEF Before, Write
  <1> HIDE DEF x
  <1> QED
    BY <1>4, <1>5, <1>6 DEF IsFileOf

(* What each of the five instructions leaves in rd, when the operands are  *)
(* those of an expansion.                                                  *)
LEMMA Executes ==
    ASSUME NEW x, IsFileOf(x), NEW rd \in Registers, NEW rs \in Registers,
           NEW d, d.rd = Bits(rd)
    PROVE  /\ d.name = "addi" /\ d.rs1 = Bits(rs) /\ d.imm = Bits(0)
                  => Execute(d, x) = Write(x, rd, x[rs])
           /\ d.name = "sub" /\ d.rs1 = Bits(0) /\ d.rs2 = Bits(rs)
                  => Execute(d, x) = Write(x, rd, (-x[rs]) % 2^WIDTH)
           /\ d.name = "xori" /\ d.rs1 = Bits(rs) /\ d.imm = Bits(-1)
                  => Execute(d, x) = Write(x, rd, 2^WIDTH - 1 - x[rs])
           /\ d.name = "sltiu" /\ d.rs1 = Bits(rs) /\ d.imm = Bits(1)
                  => Execute(d, x) = Write(x, rd, IF x[rs] = 0 THEN 1 ELSE 0)
           /\ d.name = "sltu" /\ d.rs1 = Bits(0) /\ d.rs2 = Bits(rs)
                  => Execute(d, x) = Write(x, rd, IF x[rs] = 0 THEN 0 ELSE 1)
  <1>1. 0 \in Registers
    BY DEF Registers
  <1>2. PICK v : v = x[rs]
    OBVIOUS
  <1>3. PICK p : p = 2^WIDTH
    OBVIOUS
  <1>4. /\ p = Pow(WIDTH) /\ p \in Nat /\ p > 1 /\ RegisterValues = 0..(p - 1)
        /\ v \in RegisterValues /\ v \in Nat /\ v < p /\ x[0] = 0
    BY <1>2, <1>3, WidthIs DEF IsFileOf
  <1>5. Execute(d, x) = Write(x, rd, Result(d, x))
    BY RegisterOf DEF Execute
  <1>6. /\ d.rs1 = Bits(rs) => x[Number(d.rs1, Registers)] = v
        /\ d.rs1 = Bits(0) => x[Number(d.rs1, Registers)] = 0
        /\ d.rs2 = Bits(rs) => x[Number(d.rs2, Registers)] = v
    BY <1>1, <1>2, <1>4, RegisterOf
  <1>7. CASE d.name = "addi" /\ d.rs1 = Bits(rs) /\ d.imm = Bits(0)
    <2>1. Result(d, x) = (v + 0) % p
      BY <1>3, <1>6, <1>7, LowIs DEF Result
    <2>2. (v + 0) % p = v
      BY <1>4
    <2> QED
      BY <1>2, <1>5, <1>7, <2>1, <2>2
  <1>8. CASE d.name = "sub" /\ d.rs1 = Bits(0) /\ d.rs2 = Bits(rs)
    <2>1. Result(d, x) = (0 - v) % p
      BY <1>3, <1>6, <1>8 DEF Result
    <2>2. 0 - v = -v
      BY <1>4
    <2> QED
      BY <1>2, <1>3, <1>5, <1>8, <2>1, <2>2
  <1>9. CASE d.name = "xori" /\ d.rs1 = Bits(rs) /\ d.imm = Bits(-1)
    <2>1. Low(d.imm) = p - 1
      BY <1>4, <1>9, LowIs
    <2>2. Result(d, x) = Low((Bits(v) \ Bits(p - 1)) \cup (Bits(p - 1) \ Bits(v)))
      BY <1>6, <1>9, <2>1 DEF Result
    <2>3. Bits(p - 1) = 0..(WIDTH - 1)
      <3>1. p - 1 - 0 = p - 1
        BY <1>4
      <3> QED
        BY <1>4, <3>1, Complement, WidthIs, LowIs
    <2>4. Bits(v) \subseteq 0..(WIDTH - 1)
      BY <1>4, WidthIs, SmallBits
    <2>5. Bits(p - 1 - v) = (0..(WIDTH - 1)) \ Bits(v) /\ p - 1 - v \in RegisterValues
      BY <1>4, Complement
    <2>6. (Bits(v) \ Bits(p - 1)) \cup (Bits(p - 1) \ Bits(v)) = Bits(p - 1 - v)
      BY <2>3, <2>4, <2>5
    <2>7. Bits(p - 1 - v) \cap Mask(WIDTH) = Bits(p - 1 - v)
      BY <2>5 DEF Mask
    <2>8. Number(Bits(p - 1 - v), RegisterValues) = p - 1 - v
      BY <1>4, <2>5, WidthIs, NumberOf
    <2>9. Result(d, x) = p - 1 - v
      BY <2>2, <2>6, <2>7, <2>8 DEF Low
    <2> QED
      BY <1>2, <1>3, <1>5, <1>9, <2>9
  <1>10. CASE d.name = "sltiu" /\ d.rs1 = Bits(rs) /\ d.imm = Bits(1)
    <2>1. Result(d, x) = IF v < 1 THEN 1 ELSE 0
      BY <1>6, <1>10, LowIs DEF Result
    <2>2. v < 1 <=> v = 0
      BY <1>4
    <2> QED
      BY <1>2, <1>5, <1>10, <2>1, <2>2
  <1>11. CASE d.name = "sltu" /\ d.rs1 = Bits(0) /\ d.rs2 = Bits(rs)
    <2>1. Result(d, x) = IF 0 < v THEN 1 ELSE 0
      BY <1>6, <1>11 DEF Result
    <2>2. 0 < v <=> v # 0
      BY <1>4
    <2> QED
      BY <1>2, <1>5, <1>11, <2>1, <2>2
  <1> QED
    BY <1>7, <1>8, <1>9, <1>10, <1>11

(* What is cut to a negative number is refused.                            *)
LEMMA NegativeRefused ==
    ASSUME NEW t \in Token, t.number <= -100
    PROVE  parse_register(Cut(t)) = INVALID
  <1>1. PICK m : m = t.number
    OBVIOUS
  <1>2. m \in Int /\ m >= -999 /\ m <= -100 /\ t.name \in Letters
    BY <1>1, TokenIs
  <1>3. PICK q : q = (-m) \div 10
    OBVIOUS
  <1>4. q \in Int /\ 10 <= q /\ q <= 99
    BY <1>2, <1>3
  <1>5. TooLong(t) /\ t.name # "zero5"
    BY <1>2 DEF TooLong, Letters
  <1>6. Cut(t).name = t.name /\ Cut(t).number = -q
    <2>1. Cut(t) = [t EXCEPT !.number = -q]
      BY <1>1, <1>2, <1>3, <1>5 DEF Cut
    <2> QED
      BY <2>1, TokenIs
  <1>7. (-q) % 256 = 256 - q
    BY <1>4
  <1>8. Scanned(Cut(t)) > 31 /\ Scanned(Cut(t)) \in Int
    BY <1>4, <1>6, <1>7 DEF Scanned
  <1> QED
    BY <1>2, <1>6, <1>8 DEF parse_register, Letters

(* What a comma hides from parse_register.                                 *)
LEMMA OddOperands ==
    ASSUME IInv, Encoded, source.name \in Pseudos, source.name # "nop", Named(source.rs1) = {}
    PROVE  \/ source.rs1.number > 255
           \/ source.rs1 = Fixed("zero5")
           \/ source.rs1 = Comma /\ source.name \in {"mv", "not", "seqz"}
  <1>1. source.rs1 \in Token /\ Cut(source.rs1) \in Token /\ ~TooLong(Cut(source.rs1))
    BY LineIs, CutFits DEF IInv
  <1>2. line = Expansion(source.name, source.rd, Cut(source.rs1))
    BY AtWord DEF Follows
  <1>3. CASE source.rs1 = Comma
    <2>1. Cut(Comma) = Comma
      BY DEF Cut, TooLong, Comma, Fixed
    <2>2. CASE source.name \in {"neg", "snez"}
      <3>1. line.name \in {"sub", "sltu"} /\ line.rs2 = Comma
        BY <1>2, <1>3, <2>1, <2>2 DEF Expansion, expand_neg_instr, OperandLine
      <3>2. Type = "R"
        BY <3>1 DEF Type, Table, Opcodes
      <3>3. parse_register(line["rs2"]) # INVALID
        BY <3>2, AtWord, UsesAre
      <3> QED
        BY <3>1, <3>3, CommaIs
    <2> QED
      BY <1>3, <2>2 DEF Pseudos
  <1>4. CASE source.rs1 # Comma
    <2>1. Cut(source.rs1) # Comma
      <3>1. CASE TooLong(source.rs1)
        <4>1. Cut(source.rs1).name = "zero" \/ Cut(source.rs1).name \in Letters
          BY <1>1, <3>1, TokenIs DEF Cut, TooLong, Fixed
        <4>2. Comma.name = "a1,2"
          BY DEF Comma, Fixed
        <4>3. "a1,2" # "zero" /\ "a1,2" \notin Letters
          BY DEF Letters
        <4> QED
          BY <4>1, <4>2, <4>3
      <3> QED
        BY <1>1, <1>4, <3>1, CutFits
    <2>2. \/ line.name \in {"addi", "xori", "sltiu"} /\ line.rs1 = Cut(source.rs1)
          \/ line.name \in {"sub", "sltu"} /\ line.rs2 = Cut(source.rs1)
      BY <1>2, <2>1 DEF Expansion, Printed, expand_neg_instr, OperandLine, Pseudos
    <2>3. /\ line.name \in {"addi", "xori", "sltiu"} => Type = "I"
          /\ line.name \in {"sub", "sltu"} => Type = "R"
      BY DEF Type, Table, Opcodes
    <2>4. parse_register(Cut(source.rs1)) # INVALID
      BY <2>2, <2>3, AtWord, UsesAre
    <2>5. CASE TooLong(source.rs1)
      <3>1. source.rs1.number \in Int
        BY <1>1, TokenIs
      <3>2. CASE source.rs1.name = "zero5"
        <4>1. source.rs1.number = 0
          BY <1>1, <3>2, TokenIs DEF Letters
        <4> QED
          BY <1>1, <3>2, <4>1, TokenIs DEF Fixed
      <3>3. CASE source.rs1.number <= -100
        BY <1>1, <2>4, <3>3, NegativeRefused
      <3> QED
        BY <2>5, <3>1, <3>2, <3>3 DEF TooLong
    <2>6. CASE ~TooLong(source.rs1)
      BY <1>1, <2>4, <2>6, CutFits, ParsedIsNamed
    <2> QED
      BY <2>5, <2>6
  <1> QED
    BY <1>3, <1>4

(* What the names of the pseudo-instructions say is what they do, and what *)
(* gets through without a register behind the comma is one of three kinds. *)
THEOREM PseudosMean == Spec => []PseudoMeans
  <1>1. ASSUME IInv, Encoded, source.name \in Pseudos,
               NEW rd \in Named(source.rd), NEW rs \in Named(source.rs1),
               NEW v \in RegisterValues
        PROVE  Execute(Decode(word), Before(rs, v)) =
                   IF source.name = "nop" THEN Before(rs, v)
                   ELSE Write(Before(rs, v), rd, Meaning(source.name, Before(rs, v)[rs]))
    <2>1. rd \in Registers /\ rs \in Registers /\ 0 \in Registers
      BY DEF Named, Registers
    <2>2. PICK x : x = Before(rs, v)
      OBVIOUS
    <2>3. IsFileOf(x)
      BY <2>1, <2>2, BeforeIs
    <2>4. /\ parse_register(source.rd) = rd
          /\ parse_register(source.rs1) = rs /\ Cut(source.rs1) = source.rs1
          /\ parse_register(Zero) = 0
      BY <2>1, NamedIsParsed, ZeroIs
    <2>5. line = Expansion(source.name, source.rd, source.rs1)
      BY <1>1, <2>4, AtWord DEF Follows
    <2>6. /\ source.name = "mv"   => line = OperandLine("addi", "full", source.rd, source.rs1, Zero, 0)
          /\ source.name = "neg"  => line = OperandLine("sub", "full", source.rd, Zero, source.rs1, 0)
          /\ source.name = "nop"  => line = OperandLine("addi", "full", Zero, Zero, Zero, 0)
          /\ source.name = "not"  => line = OperandLine("xori", "full", source.rd, source.rs1, Zero, -1)
          /\ source.name = "seqz" => line = OperandLine("sltiu", "full", source.rd, source.rs1, Zero, 1)
          /\ source.name = "snez" => line = OperandLine("sltu", "full", source.rd, Zero, source.rs1, 0)
      <3>1. source.rs1 # Comma /\ Zero # Comma
        BY CommaIs, ZeroIs
      <3> QED
        BY <2>5, <3>1 DEF Expansion, Printed, expand_neg_instr
    <2>7. /\ line.name \in {"addi", "sub", "xori", "sltiu", "sltu"}
          /\ line.name \in {"addi", "xori", "sltiu"} => Type = "I"
          /\ line.name \in {"sub", "sltu"} => Type = "R"
          /\ line.name # "srai" /\ line.name \notin Shifts
      BY <1>1, <2>6 DEF Pseudos, OperandLine, Type, Table, Opcodes, Shifts
    <2> DEFINE d == Decode(word)
    <2>8. /\ d.name = line.name
          /\ d.rd = Bits(Parse("rd")) /\ d.rs1 = Bits(Parse("rs1"))
          /\ Type = "R" => d.rs2 = Bits(Parse("rs2"))
          /\ Type = "I" => d.imm = Bits(line.imm)
      BY <1>1, <2>7, WordReads, UsesAre
    <2>9. /\ Parse("rd") = parse_register(line.rd)
          /\ Parse("rs1") = parse_register(line.rs1)
          /\ Parse("rs2") = parse_register(line.rs2)
      BY DEF Parse
    <2> HIDE DEF d
    <2>10. CASE source.name = "mv"
      <3>1. line.name = "addi" /\ line.rd = source.rd /\ line.rs1 = source.rs1 /\ line.imm = 0
        BY <2>6, <2>10 DEF OperandLine
      <3>2. d.name = "addi" /\ d.rd = Bits(rd) /\ d.rs1 = Bits(rs) /\ d.imm = Bits(0)
        BY <2>4, <2>7, <2>8, <2>9, <3>1
      <3>3. Execute(d, x) = Write(x, rd, x[rs])
        BY <2>1, <2>3, <3>2, Executes
      <3> QED
        BY <2>2, <2>10, <3>3 DEF Meaning, d
    <2>11. CASE source.name = "neg"
      <3>1. line.name = "sub" /\ line.rd = source.rd /\ line.rs1 = Zero /\ line.rs2 = source.rs1
        BY <2>6, <2>11 DEF OperandLine
      <3>2. d.name = "sub" /\ d.rd = Bits(rd) /\ d.rs1 = Bits(0) /\ d.rs2 = Bits(rs)
        BY <2>4, <2>7, <2>8, <2>9, <3>1
      <3>3. Execute(d, x) = Write(x, rd, (-x[rs]) % 2^WIDTH)
        BY <2>1, <2>3, <3>2, Executes
      <3> QED
        BY <2>2, <2>11, <3>3 DEF Meaning, d
    <2>12. CASE source.name = "nop"
      <3>1. line.name = "addi" /\ line.rd = Zero /\ line.rs1 = Zero /\ line.imm = 0
        BY <2>6, <2>12 DEF OperandLine
      <3>2. d.name = "addi" /\ d.rd = Bits(0) /\ d.rs1 = Bits(0) /\ d.imm = Bits(0)
        BY <2>4, <2>7, <2>8, <2>9, <3>1
      <3>3. Execute(d, x) = Write(x, 0, x[0])
        BY <2>1, <2>3, <3>2, Executes
      <3> QED
        BY <2>2, <2>12, <3>3 DEF Write, d
    <2>13. CASE source.name = "not"
      <3>1. line.name = "xori" /\ line.rd = source.rd /\ line.rs1 = source.rs1 /\ line.imm = -1
        BY <2>6, <2>13 DEF OperandLine
      <3>2. d.name = "xori" /\ d.rd = Bits(rd) /\ d.rs1 = Bits(rs) /\ d.imm = Bits(-1)
        BY <2>4, <2>7, <2>8, <2>9, <3>1
      <3>3. Execute(d, x) = Write(x, rd, 2^WIDTH - 1 - x[rs])
        BY <2>1, <2>3, <3>2, Executes
      <3> QED
        BY <2>2, <2>13, <3>3 DEF Meaning, d
    <2>14. CASE source.name = "seqz"
      <3>1. line.name = "sltiu" /\ line.rd = source.rd /\ line.rs1 = source.rs1 /\ line.imm = 1
        BY <2>6, <2>14 DEF OperandLine
      <3>2. d.name = "sltiu" /\ d.rd = Bits(rd) /\ d.rs1 = Bits(rs) /\ d.imm = Bits(1)
        BY <2>4, <2>7, <2>8, <2>9, <3>1
      <3>3. Execute(d, x) = Write(x, rd, IF x[rs] = 0 THEN 1 ELSE 0)
        BY <2>1, <2>3, <3>2, Executes
      <3> QED
        BY <2>2, <2>14, <3>3 DEF Meaning, d
    <2>15. CASE source.name = "snez"
      <3>1. line.name = "sltu" /\ line.rd = source.rd /\ line.rs1 = Zero /\ line.rs2 = source.rs1
        BY <2>6, <2>15 DEF OperandLine
      <3>2. d.name = "sltu" /\ d.rd = Bits(rd) /\ d.rs1 = Bits(0) /\ d.rs2 = Bits(rs)
        BY <2>4, <2>7, <2>8, <2>9, <3>1
      <3>3. Execute(d, x) = Write(x, rd, IF x[rs] = 0 THEN 0 ELSE 1)
        BY <2>1, <2>3, <3>2, Executes
      <3> QED
        BY <2>2, <2>15, <3>3 DEF Meaning, d
    <2> QED
      BY <1>1, <2>10, <2>11, <2>12, <2>13, <2>14, <2>15 DEF Pseudos
  <1>2. IInv => PseudoMeans
    <2>1. IInv /\ Encoded /\ source.name \in Pseudos =>
              (source.name # "nop" /\ Named(source.rs1) = {} =>
                   \/ source.rs1.number > 255
                   \/ source.rs1 = Fixed("zero5")
                   \/ source.rs1 = Comma /\ source.name \in {"mv", "not", "seqz"})
      BY OddOperands
    <2> SUFFICES ASSUME IInv, Encoded, source.name \in Pseudos,
                        NEW rd \in Named(source.rd), NEW rs \in Named(source.rs1),
                        NEW v \in RegisterValues
                 PROVE  LET x == Before(rs, v)
                        IN  Execute(Decode(word), x) =
                                IF source.name = "nop" THEN x
                                ELSE Write(x, rd, Meaning(source.name, x[rs]))
      BY <2>1 DEF PseudoMeans, Before
    <2> QED
      BY <1>1
  <1> QED
    BY <1>2, Invariance, PTL
=============================================================================
