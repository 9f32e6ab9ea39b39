-------------------------- MODULE ImmediatesProofs --------------------------
(***************************************************************************)
(* Proofs that li loads its operand and la the address of its symbol, for  *)
(* every operand, symbol and pc, and for every width of the two fields.    *)
(***************************************************************************)
EXTENDS Immediates, TLAPS

-----------------------------------------------------------------------------
(* Arithmetic                                                              *)

(* Division with remainder.                                                *)
LEMMA Division ==
    ASSUME NEW n \in Nat \ {0}, NEW x \in Int
    PROVE  /\ x % n \in 0..(n - 1)
           /\ x \div n \in Int
           /\ x = n * (x \div n) + (x % n)
  OBVIOUS

(* The remainder is determined by the division.                            *)
LEMMA Remainder ==
    ASSUME NEW n \in Nat \ {0}, NEW q \in Int, NEW r \in 0..(n - 1)
    PROVE  (n * q + r) % n = r /\ (n * q + r) \div n = q
  OBVIOUS

(* Numbers that differ by a multiple of n have the same remainder.         *)
LEMMA Congruent ==
    ASSUME NEW n \in Nat \ {0}, NEW x \in Int, NEW k \in Int
    PROVE  (x + n * k) % n = x % n
  <1> DEFINE q == x \div n
             r == x % n
  <1>1. r \in 0..(n - 1) /\ q \in Int /\ x = n * q + r
    BY Division
  <1> HIDE DEF q, r
  <1>2. x + n * k = n * (q + k) + r
    <2>1. n * (q + k) = n * q + n * k
      BY <1>1
    <2> QED
      BY <1>1, <2>1
  <1>3. q + k \in Int
    BY <1>1
  <1>4. (n * (q + k) + r) % n = r
    BY <1>1, <1>3, Remainder
  <1> QED
    BY <1>2, <1>4 DEF r

(* Half of an even number.                                                 *)
LEMMA Halves ==
    ASSUME NEW n \in Nat \ {0}, n % 2 = 0
    PROVE  n \div 2 \in Nat \ {0} /\ n = 2 * (n \div 2)
  OBVIOUS

(* The signed reading of x modulo n lies around zero and differs from x by *)
(* a multiple of n.                                                        *)
LEMMA SignedReading ==
    ASSUME NEW n \in Nat \ {0}, n % 2 = 0, NEW x \in Int
    PROVE  /\ Signed(x, n) \in (-(n \div 2))..(n \div 2 - 1)
           /\ \E k \in Int : x = Signed(x, n) + n * k
  <1> DEFINE h == n \div 2
             q == (x + h) \div n
             r == (x + h) % n
  <1>1. h \in Nat \ {0} /\ n = 2 * h
    BY Halves
  <1>2. r \in 0..(n - 1) /\ q \in Int /\ x + h = n * q + r
    <2> HIDE DEF h
    <2>1. x + h \in Int
      BY <1>1
    <2> QED
      BY <2>1, Division
  <1>3. Signed(x, n) = r - h
    BY DEF Signed
  <1> HIDE DEF h, q, r
  <1>4. r - h \in (-h)..(h - 1)
    BY <1>1, <1>2
  <1>5. x = (r - h) + n * q
    BY <1>1, <1>2
  <1> QED
    BY <1>2, <1>3, <1>4, <1>5 DEF h

(* A number in the signed range survives the trip through a field.         *)
LEMMA FieldTrip ==
    ASSUME NEW n \in Nat \ {0}, n % 2 = 0,
           NEW x \in (-(n \div 2))..(n \div 2 - 1)
    PROVE  Signed(x % n, n) = x
  <1> DEFINE h == n \div 2
  <1>1. h \in Nat \ {0} /\ n = 2 * h
    BY Halves
  <1>2. CASE x >= 0
    <2>1. x % n = x
      BY <1>1, <1>2, Remainder
    <2>2. (x + h) % n = x + h
      BY <1>1, <1>2
    <2> QED
      BY <1>1, <2>1, <2>2 DEF Signed
  <1>3. CASE x < 0
    <2>1. x % n = x + n
      BY <1>1, <1>3
    <2>2. (x + n + h) % n = x + h
      BY <1>1, <1>3
    <2> QED
      BY <1>1, <2>1, <2>2 DEF Signed
  <1> QED
    BY <1>1, <1>2, <1>3

-----------------------------------------------------------------------------
(* The two parts                                                           *)

(* A word is a whole number of low parts, and its half is one of halves.   *)
LEMMA WordSize ==
    /\ WORD \in Nat \ {0} /\ WORD % 2 = 0
    /\ HIGH \div 2 \in Nat \ {0} /\ HIGH = 2 * (HIGH \div 2)
    /\ LOW \div 2 \in Nat \ {0} /\ LOW = 2 * (LOW \div 2)
    /\ WORD \div 2 = LOW * (HIGH \div 2)
  <1> DEFINE hh == HIGH \div 2
  <1>1. hh \in Nat \ {0} /\ HIGH = 2 * hh
    BY Halves, HighAssumption
  <1>2. LOW \in Nat \ {0}
    BY LowAssumption
  <1>3. LOW \div 2 \in Nat \ {0} /\ LOW = 2 * (LOW \div 2)
    BY Halves, LowAssumption
  <1> HIDE DEF hh
  <1>4. WORD = 2 * (LOW * hh) + 0 /\ LOW * hh \in Nat \ {0}
    BY <1>1, <1>2 DEF WORD
  <1>5. WORD \div 2 = LOW * hh /\ WORD % 2 = 0
    BY <1>4
  <1>6. WORD \in Nat \ {0}
    BY <1>4
  <1> HIDE DEF WORD
  <1> QED
    BY <1>1, <1>3, <1>5, <1>6 DEF hh

(* The high part without an overflow: x is low parts and the high part.    *)
LEMMA ExactParts ==
    ASSUME NEW x \in Int32
    PROVE  /\ LowPart(x) \in Int12
           /\ \E k \in (-(HIGH \div 2))..(HIGH \div 2) : x = LowPart(x) + LOW * k
  <1> DEFINE hh == HIGH \div 2
             lh == LOW \div 2
             lo == LowPart(x)
  <1>1. /\ hh \in Nat \ {0} /\ LOW \in Nat \ {0} /\ lh \in Nat \ {0} /\ LOW = 2 * lh
        /\ WORD \div 2 = LOW * hh
    BY WordSize, LowAssumption
  <1>2. x \in Int /\ x >= -(LOW * hh) /\ x <= LOW * hh - 1
    <2> HIDE DEF hh
    <2> QED
      BY <1>1 DEF Int32
  <1>3. lo \in Int12 /\ \E k \in Int : x = lo + LOW * k
    BY <1>2, SignedReading, LowAssumption DEF LowPart, Int12
  <1>4. PICK k \in Int : x = lo + LOW * k
    BY <1>3
  <1>5. lo \in Int /\ lo >= -lh /\ lo <= lh - 1
    BY <1>1, <1>3 DEF Int12
  <1> HIDE DEF hh, lh, lo
  <1>6. k <= hh
    <2> SUFFICES ASSUME k - hh >= 1 PROVE FALSE
      BY <1>1
    <2>1. LOW * (k - hh) >= LOW
      BY <1>1
    <2>2. LOW * (k - hh) = LOW * k - LOW * hh
      BY <1>1
    <2>3. LOW * k \in Int /\ LOW * hh \in Int
      BY <1>1
    <2> QED
      BY <1>1, <1>2, <1>4, <1>5, <2>1, <2>2, <2>3
  <1>7. k >= -hh
    <2> SUFFICES ASSUME -hh - k >= 1 PROVE FALSE
      BY <1>1
    <2>1. LOW * (-hh - k) >= LOW
      BY <1>1
    <2>2. LOW * (-hh - k) = -(LOW * hh) - LOW * k
      BY <1>1
    <2>3. LOW * k \in Int /\ LOW * hh \in Int
      BY <1>1
    <2> QED
      BY <1>1, <1>2, <1>4, <1>5, <2>1, <2>2, <2>3
  <1>8. k \in (-hh)..hh
    BY <1>1, <1>6, <1>7
  <1> QED
    BY <1>3, <1>4, <1>8 DEF hh, lo

(* Either outcome of the subtraction passes the check, and its field and   *)
(* the low part add up to x modulo a word.                                 *)
LEMMA Parts ==
    ASSUME NEW x \in Int32, NEW h \in HighParts(x)
    PROVE  /\ LowPart(x) \in Int12
           /\ h \in Int20
           /\ h % HIGH \in 0..(HIGH - 1)
           /\ \E m \in Int : (h % HIGH) * LOW + LowPart(x) = x + WORD * m
  <1> DEFINE hh == HIGH \div 2
             lo == LowPart(x)
  <1>1. /\ hh \in Nat \ {0} /\ HIGH \in Nat \ {0} /\ HIGH = 2 * hh
        /\ LOW \in Nat \ {0} /\ WORD \in Nat \ {0} /\ WORD % 2 = 0
        /\ WORD \div 2 = LOW * hh
    BY WordSize, LowAssumption, HighAssumption
  <1>2. /\ lo \in Int12 /\ lo \in Int
        /\ \E k \in (-hh)..hh : x = lo + LOW * k
    BY ExactParts, WordSize DEF Int12
  <1>3. PICK k \in (-hh)..hh : x = lo + LOW * k
    BY <1>2
  <1>4. k \in Int /\ k >= -hh /\ k <= hh /\ LOW * k \in Int /\ x - lo = LOW * k
    <2> HIDE DEF hh, lo
    <2> QED
      BY <1>1, <1>2, <1>3
  <1>5. h = (LOW * k) \div LOW \/ h = Signed(LOW * k, WORD) \div LOW
    BY <1>4 DEF HighParts
  <1> HIDE DEF hh, lo
  <1>6. ASSUME NEW g \in Int PROVE (LOW * g) \div LOW = g
    <2>1. (LOW * g + 0) \div LOW = g
      BY <1>1, Remainder
    <2> QED
      BY <1>1, <2>1
  <1>7. \E p \in Int : h = k - HIGH * p /\ h \in (-hh)..hh
    <2>1. CASE h = (LOW * k) \div LOW
      <3>1. h = k - HIGH * 0
        BY <1>1, <1>4, <1>6, <2>1
      <3> QED
        BY <1>1, <1>4, <3>1
    <2>2. CASE h = Signed(LOW * k, WORD) \div LOW
      <3> DEFINE d == Signed(LOW * k, WORD)
      <3>1. d \in (-(LOW * hh))..(LOW * hh - 1) /\ \E p \in Int : LOW * k = d + WORD * p
        BY <1>1, <1>4, SignedReading
      <3>2. PICK p \in Int : LOW * k = d + WORD * p
        BY <3>1
      <3> HIDE DEF d
      <3>3. d \in Int /\ d >= -(LOW * hh) /\ d < LOW * hh
        BY <1>1, <3>1
      <3>4. d = LOW * (k - HIGH * p)
        BY <1>1, <1>4, <3>2, <3>3 DEF WORD
      <3>5. HIGH * p \in Int /\ k - HIGH * p \in Int
        BY <1>1, <1>4
      <3>6. h = k - HIGH * p
        BY <1>6, <2>2, <3>4, <3>5 DEF d
      <3>7. h \in Int /\ LOW * h >= -(LOW * hh) /\ LOW * h < LOW * hh
        BY <3>3, <3>4, <3>5, <3>6
      <3>8. h < hh
        BY <1>1, <3>7
      <3>9. h >= -hh
        BY <1>1, <3>7
      <3> QED
        BY <1>1, <3>6, <3>7, <3>8, <3>9
    <2> QED
      BY <1>5, <2>1, <2>2
  <1>8. PICK p \in Int : h = k - HIGH * p /\ h \in (-hh)..hh
    BY <1>7
  <1>9. h \in Int /\ HIGH * p \in Int
    BY <1>1, <1>8
  <1>10. h \in Int20
    BY <1>1, <1>8 DEF Int20, hh
  <1> DEFINE f == h % HIGH
             q == h \div HIGH
  <1>11. f \in 0..(HIGH - 1) /\ q \in Int /\ h = HIGH * q + f
    BY <1>1, <1>9, Division
  <1> HIDE DEF f, q
  <1>12. f = k - HIGH * p - HIGH * q /\ f \in Int /\ HIGH * q \in Int
    BY <1>1, <1>4, <1>8, <1>9, <1>11
  <1>13. f * LOW = LOW * k + WORD * (-p - q)
    <2>1. WORD * (-p - q) = -(LOW * (HIGH * p)) - LOW * (HIGH * q)
      BY <1>1, <1>11 DEF WORD
    <2>2. f * LOW = LOW * k - LOW * (HIGH * p) - LOW * (HIGH * q)
      BY <1>1, <1>4, <1>9, <1>12
    <2> QED
      BY <1>1, <1>4, <1>9, <1>12, <2>1, <2>2
  <1>14. f * LOW + lo = x + WORD * (-p - q)
    BY <1>1, <1>2, <1>3, <1>4, <1>11, <1>13
  <1>15. -p - q \in Int
    BY <1>11
  <1> QED
    BY <1>2, <1>10, <1>11, <1>14, <1>15 DEF f, lo

-----------------------------------------------------------------------------
(* The invariant                                                           *)

(* Two numbers stand for the same word.                                    *)
Same(x, y) == \E k \in Int : x = y + WORD * k

Typed == /\ long \in {32, 64}
         /\ op \in {"li", "la"}
         /\ want \in Int /\ pc \in Int /\ rd \in Int
         /\ state \in {"source", "encode", "done", "refused"}

(* What the expansion goes by: the operand of li as it was scanned.        *)
Target == IF op = "li" THEN Scanned(want) ELSE want

(* The value the expansion has to produce: for la, the distance to pc.     *)
Value == IF op = "li" THEN Target ELSE Offset(want, pc)

Upper(h) == IF op = "li" THEN Instruction("lui", "zero", h)
                         ELSE Instruction("auipc", "pc", h)
Lower == Instruction("addi", "rd", LowPart(Value))

(* What is left of the expansion, and what the register lacks.             *)
Pending ==
    \/ /\ op = "li" /\ Target \in Int12
       /\ expansion = <<Instruction("addi", "zero", Target)>>
    \/ \E h \in HighParts(Value) :
           \/ expansion = <<Upper(h), Lower>>
           \/ op = "li" /\ LowPart(Value) = 0 /\ expansion = <<Upper(h)>>
    \/ /\ expansion = <<Lower>>
       /\ Same(rd + LowPart(Value), Target)

IInv ==
    /\ Typed
    /\ state = "encode" => Value \in Int32 /\ Pending
    /\ state = "done" => rd \in 0..(WORD - 1) /\ Same(rd, Target)
    /\ state \in {"encode", "done"} /\ op = "li" => Target \in Int32
    /\ ExpansionAccepted

(* Same is an equivalence that addition respects.                          *)
LEMMA SameRules ==
    ASSUME NEW x \in Int, NEW y \in Int, NEW z \in Int, Same(x, y)
    PROVE  /\ Same(x + z, y + z)
           /\ Same(y, x)
           /\ Same(y, z) => Same(x, z)
  <1>1. PICK k \in Int : x = y + WORD * k
    BY DEF Same
  <1>2. WORD \in Int
    BY WordSize
  <1>3. x + z = y + z + WORD * k
    BY <1>1, <1>2
  <1>4. y = x + WORD * (-k) /\ -k \in Int
    BY <1>1, <1>2
  <1>5. ASSUME Same(y, z) PROVE Same(x, z)
    <2>1. PICK j \in Int : y = z + WORD * j
      BY <1>5 DEF Same
    <2>2. x = z + WORD * (j + k) /\ j + k \in Int
      BY <1>1, <1>2, <2>1
    <2> QED
      BY <2>2 DEF Same
  <1> QED
    BY <1>1, <1>3, <1>4, <1>5 DEF Same

(* A sum of the processor stands for the sum, and is a word.               *)
LEMMA Wrapped ==
    ASSUME NEW x \in Int
    PROVE  x % WORD \in 0..(WORD - 1) /\ Same(x % WORD, x)
  <1> DEFINE r == x % WORD
             q == x \div WORD
  <1>1. WORD \in Nat \ {0}
    BY WordSize
  <1>2. r \in 0..(WORD - 1) /\ q \in Int /\ x = WORD * q + r
    BY <1>1, Division
  <1> HIDE DEF r, q
  <1>3. r = x + WORD * (-q) /\ -q \in Int
    BY <1>1, <1>2
  <1> QED
    BY <1>2, <1>3 DEF Same, r

(* The word for a number is determined.                                    *)
LEMMA SameWord ==
    ASSUME NEW x \in 0..(WORD - 1), NEW y \in Int, Same(x, y)
    PROVE  x = y % WORD
  <1>1. WORD \in Nat \ {0} /\ x \in Int
    BY WordSize
  <1>2. Same(y, x)
    BY <1>1, SameRules
  <1>3. PICK k \in Int : y = x + WORD * k
    BY <1>2 DEF Same
  <1>4. (x + WORD * k) % WORD = x % WORD
    BY <1>1, Congruent
  <1>5. x % WORD = x
    BY <1>1
  <1> QED
    BY <1>3, <1>4, <1>5

(* The distance to the symbol is a signed word.                            *)
LEMMA OffsetType ==
    ASSUME NEW x \in Int, NEW p \in Int
    PROVE  /\ Offset(x, p) \in Int32
           /\ Same(p + Offset(x, p), x)
  <1> DEFINE sp == Signed(p, WORD)
             d == Signed(x - sp, WORD)
  <1>1. WORD \in Nat \ {0} /\ WORD % 2 = 0 /\ WORD \div 2 \in Int
    BY WordSize
  <1>2. sp \in Int /\ \E k \in Int : p = sp + WORD * k
    <2>1. /\ sp \in (-(WORD \div 2))..(WORD \div 2 - 1)
          /\ \E k \in Int : p = sp + WORD * k
      BY <1>1, SignedReading
    <2> HIDE DEF sp
    <2>2. sp \in Int
      BY <1>1, <2>1
    <2> QED
      BY <2>1, <2>2
  <1>3. PICK k \in Int : p = sp + WORD * k
    BY <1>2
  <1> HIDE DEF sp
  <1>4. x - sp \in Int
    BY <1>2
  <1>5. d \in Int32 /\ \E j \in Int : x - sp = d + WORD * j
    BY <1>1, <1>4, SignedReading DEF Int32
  <1>6. PICK j \in Int : x - sp = d + WORD * j
    BY <1>5
  <1>7. d \in Int
    BY <1>1, <1>5 DEF Int32
  <1> HIDE DEF d
  <1>8. p + d = x + WORD * (k - j) /\ k - j \in Int
    BY <1>1, <1>2, <1>3, <1>6, <1>7
  <1> QED
    BY <1>5, <1>8 DEF Offset, Same, sp, d

(* What %li stores is a number, and for a number of 32 bits that passes    *)
(* the check the same word; nothing else passes but INT32_MAX for more.    *)
LEMMA ScannedType ==
    ASSUME NEW x \in Int, long \in {32, 64}
    PROVE  /\ Scanned(x) \in Int
           /\ x \in Int32 /\ Scanned(x) \notin Int32 => long = 32 /\ x < 0
           /\ x \in Int32 => Scanned(x) % WORD = x % WORD
           /\ x \notin Int32 /\ Scanned(x) \in Int32 =>
                  long = 32 /\ x > 0 /\ Scanned(x) % WORD = WORD \div 2 - 1
  <1> DEFINE half == WORD \div 2
             c == Clamped(x)
  <1>1. half \in Nat \ {0} /\ WORD = 2 * half
    BY Halves, WordSize
  <1>2. Int32 = (-half)..(half - 1)
    BY DEF Int32
  <1>3. c = IF x < -half THEN -half ELSE IF x >= half THEN half - 1 ELSE x
    BY DEF Clamped
  <1>4. CASE long = 64
    BY <1>4 DEF Scanned
  <1>5. CASE long = 32
    <2>1. Scanned(x) = c % WORD
      BY <1>5 DEF Scanned
    <2> HIDE DEF half, c
    <2>2. c \in Int /\ c >= -half /\ c <= half - 1
      BY <1>1, <1>3
    <2>3. c >= 0 => c % WORD = c
      BY <1>1, <2>2
    <2>4. c < 0 => c % WORD = c + WORD
      <3>1. ASSUME c < 0 PROVE c % WORD = c + WORD
        <4>1. c + WORD \in 0..(WORD - 1)
          BY <1>1, <2>2, <3>1
        <4>2. (c + WORD * 1) % WORD = c % WORD
          <5>1. WORD \in Nat \ {0} /\ c \in Int /\ 1 \in Int
            BY <1>1, <2>2
          <5> QED
            BY <5>1, Congruent
        <4>3. (c + WORD) % WORD = c + WORD /\ WORD * 1 = WORD
          BY <1>1, <4>1
        <4> QED
          BY <4>2, <4>3
      <3> QED
        BY <3>1
    <2>5. c < 0 => c % WORD \notin Int32
      BY <1>1, <1>2, <2>2, <2>4
    <2>6. (c % WORD) % WORD = c % WORD /\ c % WORD \in Int
      <3>1. c % WORD \in 0..(WORD - 1)
        BY <1>1, <2>2, <2>3, <2>4
      <3> QED
        BY <1>1, <3>1
    <2>7. CASE x \in Int32
      <3>1. c = x
        BY <1>1, <1>2, <1>3, <2>7
      <3>2. x \in Int /\ (c >= 0 => c % WORD \in Int32)
        BY <1>2, <2>2, <2>3
      <3> QED
        BY <1>5, <2>1, <2>2, <2>6, <2>7, <3>1, <3>2
    <2>8. CASE x \notin Int32
      <3>1. CASE x < -half
        <4>1. c < 0
          BY <1>1, <1>3, <3>1
        <4> QED
          BY <2>1, <2>5, <2>6, <2>8, <4>1
      <3>2. CASE x >= half
        <4>1. c = half - 1 /\ c >= 0 /\ x > 0
          BY <1>1, <1>3, <3>2
        <4> QED
          BY <1>5, <2>1, <2>3, <2>6, <2>8, <4>1 DEF half
      <3> QED
        BY <1>1, <1>2, <2>8, <3>1, <3>2
    <2> QED
      BY <2>7, <2>8
  <1> QED
    BY <1>4, <1>5

(* What the expansion goes by does not change with the words encoded.      *)
LEMMA TargetType ==
    ASSUME Typed
    PROVE  /\ Target \in Int
           /\ op = "la" => Target = want
           /\ UNCHANGED <<long, op, want>> => Target' = Target
  <1>1. Target \in Int
    BY ScannedType DEF Target, Typed
  <1>2. op = "la" => Target = want
    BY DEF Target
  <1>3. UNCHANGED <<long, op, want>> => Target' = Target
    BY DEF Target, Scanned, Clamped, WORD
  <1> QED
    BY <1>1, <1>2, <1>3

(* The value of either pseudo-instruction is what its base lacks.          *)
LEMMA ValueType ==
    ASSUME Typed, op = "li" => Target \in Int32
    PROVE  /\ Value \in Int32
           /\ op = "li" => Value = Target
           /\ op = "la" => Same(pc + Value, want)
  <1>1. CASE op = "li"
    BY <1>1 DEF Value
  <1>2. CASE op = "la"
    BY <1>2, OffsetType DEF Value, Typed
  <1> QED
    BY <1>1, <1>2 DEF Typed

(* The words of an expansion, one by one.                                  *)
LEMMA EncodeStep ==
    ASSUME IInv, Encode
    PROVE  IInv'
  <1> DEFINE i == Head(expansion)
             lo == LowPart(Value)
  <1>1. /\ Typed /\ Value \in Int32 /\ Pending /\ state = "encode"
        /\ UNCHANGED <<long, op, want, pc>> /\ expansion' = Tail(expansion)
        /\ op = "li" => Target \in Int32
    BY DEF IInv, Encode
  <1>2. /\ long \in {32, 64} /\ op \in {"li", "la"}
        /\ want \in Int /\ pc \in Int /\ rd \in Int
        /\ Target \in Int /\ Target' = Target /\ (op = "la" => Target = want)
    BY <1>1, TargetType DEF Typed
  <1>3. /\ WORD \in Nat \ {0} /\ LOW \in Nat \ {0} /\ HIGH \in Nat \ {0}
        /\ WORD = LOW * HIGH /\ LOW % 2 = 0
    BY WordSize, LowAssumption, HighAssumption DEF WORD
  <1>4. Int12 \subseteq Int
    BY WordSize DEF Int12
  <1>5. ASSUME ImmediateFits(i), rd' \in 0..(WORD - 1), Same(rd', Target),
               Len(expansion) = 1
        PROVE  IInv'
    <2>1. state' = "done" /\ rd' \in Int
      BY <1>3, <1>5 DEF Encode
    <2> QED
      BY <1>1, <1>2, <1>5, <2>1 DEF IInv, Typed, ExpansionAccepted, Same
  <1>6. ASSUME NEW x \in Int12
        PROVE  /\ Signed(x % LOW, LOW) = x
               /\ x \in Int
    BY <1>3, <1>4, <1>6, FieldTrip DEF Int12
  <1>7. CASE /\ op = "li" /\ Target \in Int12
             /\ expansion = <<Instruction("addi", "zero", Target)>>
    <2>1. /\ i = Instruction("addi", "zero", Target)
          /\ Len(expansion) = 1
      BY <1>7
    <2>2. ImmediateFits(i) /\ Field(i) = Target % LOW
      BY <1>7, <2>1 DEF ImmediateFits, Field, Instruction
    <2>3. rd' = (0 + Signed(Target % LOW, LOW)) % WORD
      BY <2>1, <2>2 DEF Encode, Execute, Instruction
    <2>4. rd' = Target % WORD
      BY <1>6, <1>7, <2>3
    <2>5. rd' \in 0..(WORD - 1) /\ Same(rd', Target)
      BY <1>2, <2>4, Wrapped
    <2> QED
      BY <1>5, <2>1, <2>2, <2>5
  <1>8. CASE \E h \in HighParts(Value) :
                \/ expansion = <<Upper(h), Lower>>
                \/ op = "li" /\ lo = 0 /\ expansion = <<Upper(h)>>
    <2>1. PICK h \in HighParts(Value) :
                \/ expansion = <<Upper(h), Lower>>
                \/ op = "li" /\ lo = 0 /\ expansion = <<Upper(h)>>
      BY <1>8
    <2> DEFINE f == h % HIGH
    <2>2. /\ lo \in Int12 /\ h \in Int20 /\ f \in 0..(HIGH - 1)
          /\ \E m \in Int : f * LOW + lo = Value + WORD * m
      BY <1>1, Parts
    <2>3. i = Upper(h)
      BY <2>1
    <2>4. ImmediateFits(i) /\ Field(i) = f
      BY <1>2, <2>2, <2>3 DEF ImmediateFits, Field, Upper, Instruction
    <2>5. rd' = IF op = "li" THEN f * LOW ELSE (pc + f * LOW) % WORD
      BY <1>2, <2>3, <2>4 DEF Encode, Execute, Upper, Instruction
    <2> HIDE DEF f, lo
    <2>6. f \in Int /\ lo \in Int /\ f * LOW \in 0..(WORD - 1) /\ Value \in Int
      <3>1. f \in Int /\ f >= 0 /\ f <= HIGH - 1 /\ lo \in Int
        BY <1>3, <1>4, <2>2
      <3>2. f * LOW <= (HIGH - 1) * LOW /\ f * LOW >= 0
        BY <1>3, <3>1
      <3>3. Value \in Int
        BY <1>1, WordSize DEF Int32
      <3> QED
        BY <1>3, <3>1, <3>2, <3>3
    <2>7. Same(f * LOW + lo, Value)
      BY <2>2 DEF Same
    <2>8. Same(rd' + lo, Target) /\ rd' \in 0..(WORD - 1)
      <3>1. CASE op = "li"
        BY <2>5, <2>6, <2>7, <3>1 DEF Value
      <3>2. CASE op = "la"
        <4>1. Value = Offset(want, pc)
          BY <3>2 DEF Value
        <4>2. Same(pc + Value, want)
          BY <1>2, <4>1, OffsetType
        <4> DEFINE u == f * LOW
        <4>3. u \in Int /\ Same(u + lo, Value)
          BY <1>3, <2>6, <2>7
        <4>4. rd' = (pc + u) % WORD
          BY <2>5, <3>2
        <4> HIDE DEF u
        <4>5. /\ pc + u \in Int /\ u + lo \in Int /\ pc + Value \in Int
              /\ pc + u + lo \in Int
          BY <1>2, <2>6, <4>3
        <4>6. rd' \in 0..(WORD - 1) /\ Same(rd', pc + u)
          BY <4>4, <4>5, Wrapped
        <4>7. rd' \in Int /\ rd' + lo \in Int
          BY <1>3, <2>6, <4>6
        <4>8. Same(rd' + lo, pc + u + lo)
          BY <2>6, <4>5, <4>6, <4>7, SameRules
        <4>9. Same(u + lo + pc, Value + pc)
          BY <1>2, <2>6, <4>3, <4>5, SameRules
        <4>10. u + lo + pc = pc + u + lo /\ Value + pc = pc + Value
          BY <1>2, <2>6, <4>3
        <4>11. Same(pc + u + lo, want)
          BY <1>2, <4>2, <4>5, <4>9, <4>10, SameRules
        <4> QED
          BY <1>2, <3>2, <4>5, <4>6, <4>7, <4>8, <4>11, SameRules
      <3> QED
        BY <1>2, <3>1, <3>2
    <2>9. CASE expansion = <<Upper(h), Lower>>
      <3>1. expansion' = <<Lower>> /\ Len(expansion) = 2
        BY <1>1, <2>9
      <3>2. state' = "encode"
        BY <2>4, <3>1 DEF Encode
      <3>3. Value' = Value /\ Lower' = Lower
        BY <1>1, <1>2 DEF Value, Lower, Offset, Signed, Instruction, LowPart, WORD
      <3>4. Pending'
        BY <1>1, <1>2, <2>8, <3>1, <3>3 DEF Pending, Same, lo, LowPart, Signed, WORD
      <3>5. rd' \in Int
        BY <1>3, <2>8
      <3> QED
        BY <1>1, <1>2, <3>2, <3>3, <3>4, <3>5 DEF IInv, Typed, ExpansionAccepted, Int32, WORD
    <2>10. CASE op = "li" /\ lo = 0 /\ expansion = <<Upper(h)>>
      <3>1. Same(rd', Target)
        BY <1>3, <2>8, <2>10
      <3>2. Len(expansion) = 1
        BY <2>10
      <3> QED
        BY <1>5, <2>4, <2>8, <3>1, <3>2
    <2> QED
      BY <2>1, <2>9, <2>10 DEF lo
  <1>9. CASE expansion = <<Lower>> /\ Same(rd + lo, Target)
    <2>1. i = Lower /\ Len(expansion) = 1 /\ lo \in Int12
      BY <1>1, <1>9, ExactParts
    <2>2. ImmediateFits(i) /\ Field(i) = lo % LOW
      BY <2>1 DEF ImmediateFits, Field, Lower, Instruction
    <2>3. rd' = (rd + Signed(lo % LOW, LOW)) % WORD
      BY <2>1, <2>2 DEF Encode, Execute, Lower, Instruction
    <2> HIDE DEF lo
    <2>4. rd' = (rd + lo) % WORD /\ lo \in Int
      BY <1>6, <2>1, <2>3
    <2>5. rd + lo \in Int
      BY <1>2, <2>4
    <2>6. rd' \in 0..(WORD - 1) /\ Same(rd', rd + lo)
      BY <2>4, <2>5, Wrapped
    <2>7. Same(rd', Target)
      BY <1>2, <1>3, <1>9, <2>5, <2>6, SameRules
    <2> QED
      BY <1>5, <2>1, <2>2, <2>6, <2>7
  <1> QED
    BY <1>1, <1>7, <1>8, <1>9 DEF Pending

(* The expansion of an operand in range is pending from its first          *)
(* instruction on.                                                         *)
LEMMA ExpandStep ==
    ASSUME IInv, Expand
    PROVE  IInv'
  <1>1. /\ Typed /\ UNCHANGED <<long, op, want, pc, rd>> /\ state' = "encode"
        /\ op = "li" => Target \in Int32
    BY DEF IInv, Expand, Target
  <1>2. Value \in Int32 /\ (op = "li" => Value = Target) /\ Target' = Target
    BY <1>1, ValueType, TargetType
  <1>3. Value' = Value /\ Int32' = Int32 /\ Typed'
    BY <1>1, <1>2 DEF Value, Int32, Offset, Signed, WORD, Typed
  <1>4. \/ op = "li" /\ Target \in Int12
           /\ expansion' = <<Instruction("addi", "zero", Target)>>
        \/ \E h \in HighParts(Value) :
              \/ expansion' = <<Upper(h), Lower>>
              \/ op = "li" /\ LowPart(Value) = 0 /\ expansion' = <<Upper(h)>>
    <2>1. CASE op = "li"
      <3>1. expansion' \in expand_li_instr(Target) /\ Value = Target
        BY <1>2, <2>1 DEF Expand, Target
      <3>2. CASE Target \in Int12
        BY <2>1, <3>1, <3>2 DEF expand_li_instr
      <3>3. CASE Target \notin Int12
        <4>1. PICK h \in HighParts(Target) :
                expansion' = IF LowPart(Target) = 0
                             THEN <<Instruction("lui", "zero", h)>>
                             ELSE <<Instruction("lui", "zero", h),
                                    Instruction("addi", "rd", LowPart(Target))>>
          BY <3>1, <3>3 DEF expand_li_instr
        <4>2. Upper(h) = Instruction("lui", "zero", h)
          BY <2>1 DEF Upper
        <4> QED
          BY <2>1, <3>1, <4>1, <4>2 DEF Lower
      <3> QED
        BY <3>2, <3>3
    <2>2. CASE op = "la"
      <3>1. expansion' \in expand_la_instr(want, pc) /\ Value = Offset(want, pc)
        BY <2>2 DEF Expand, Value
      <3>2. PICK h \in HighParts(Value) :
              expansion' = <<Instruction("auipc", "pc", h),
                             Instruction("addi", "rd", LowPart(Value))>>
        BY <3>1 DEF expand_la_instr
      <3>3. Upper(h) = Instruction("auipc", "pc", h)
        BY <2>2 DEF Upper
      <3> QED
        BY <3>2, <3>3 DEF Lower
    <2> QED
      BY <1>1, <2>1, <2>2 DEF Typed
  <1>5. Pending'
    <2>1. op' = op /\ want' = want /\ pc' = pc /\ rd' = rd /\ Target' = Target
      BY <1>1, <1>2
    <2>2. CASE op = "li" /\ Target \in Int12
               /\ expansion' = <<Instruction("addi", "zero", Target)>>
      BY <2>1, <2>2 DEF Pending, Int12
    <2>3. CASE \E h \in HighParts(Value) :
              \/ expansion' = <<Upper(h), Lower>>
              \/ op = "li" /\ LowPart(Value) = 0 /\ expansion' = <<Upper(h)>>
      BY <1>3, <2>1, <2>3 DEF Pending, Upper, Lower, HighParts, LowPart, Signed, WORD
    <2> QED
      BY <1>4, <2>2, <2>3
  <1> QED
    BY <1>1, <1>2, <1>3, <1>5 DEF IInv, ExpansionAccepted, Int32, WORD

(* The invariant holds of every operand and address to start with.         *)
LEMMA InvInit == Init => IInv
  <1> SUFFICES ASSUME Init PROVE IInv
    OBVIOUS
  <1>1. Words \subseteq Int
    BY WordsAssumption, WordSize DEF WORD
  <1>2. op \in {"li", "la"} /\ want \in Int /\ pc \in Int
    <2>1. CASE op = "li" /\ want \in Longs /\ pc = 0
      BY <2>1, LongsAssumption
    <2>2. CASE op = "la" /\ want \in Words /\ pc \in Words
      BY <1>1, <2>2
    <2> QED
      BY <2>1, <2>2 DEF Init
  <1>3. rd = 0 /\ state = "source" /\ long \in {32, 64}
    BY DEF Init
  <1> QED
    BY <1>2, <1>3 DEF Typed, IInv, ExpansionAccepted

(* Every step keeps it.                                                    *)
LEMMA InvStep == IInv /\ [Next]_vars => IInv'
  <1> SUFFICES ASSUME IInv, [Next]_vars PROVE IInv'
    OBVIOUS
  <1>1. CASE Expand
    BY <1>1, ExpandStep
  <1>2. CASE RefuseOperand
    <2>1. /\ op = "li" /\ want \in Int /\ long \in {32, 64} /\ Scanned(want) \notin Int32
          /\ UNCHANGED <<long, op, want, pc, rd>> /\ state' = "refused"
      BY <1>2 DEF RefuseOperand, IInv, Typed
    <2>2. want \notin Int32 \/ (long = 32 /\ want < 0)
      BY <2>1, ScannedType
    <2>3. (want \notin Int32)' <=> want \notin Int32
      BY <2>1 DEF Int32, WORD
    <2> QED
      BY <2>1, <2>2, <2>3 DEF IInv, Typed, ExpansionAccepted
  <1>3. CASE Encode
    BY <1>3, EncodeStep
  <1>4. CASE UNCHANGED vars
    <2>1. Target' = Target
      BY <1>4, TargetType DEF IInv, vars
    <2> QED
      BY <1>4, <2>1 DEF vars, IInv, Typed, Value, Pending, Upper, Lower, Same,
               ExpansionAccepted, Int32, WORD
  <1> QED
    BY <1>1, <1>2, <1>3, <1>4 DEF Next

(* A finished register holds the word of the value.                        *)
LEMMA InvLoaded == IInv => Loaded
  <1> SUFFICES ASSUME IInv, state = "done"
               PROVE  IF op = "la" \/ want \in Int32
                      THEN rd = want % WORD
                      ELSE long = 32 /\ want > 0 /\ rd = WORD \div 2 - 1
    BY DEF Loaded
  <1>1. /\ rd \in 0..(WORD - 1) /\ Same(rd, Target)
        /\ want \in Int /\ long \in {32, 64} /\ op \in {"li", "la"}
        /\ Target \in Int
        /\ op = "li" => Target \in Int32 /\ Target = Scanned(want)
        /\ op = "la" => Target = want
    BY TargetType DEF IInv, Typed, Target
  <1>2. rd = Target % WORD
    BY <1>1, SameWord
  <1>3. CASE op = "la"
    BY <1>1, <1>2, <1>3
  <1>4. CASE op = "li"
    <2> HIDE DEF Target
    <2> QED
      BY <1>1, <1>2, <1>4, ScannedType
  <1> QED
    BY <1>1, <1>3, <1>4

(* li and la load the value they name, whatever the operand, the symbol,   *)
(* the pc, the width of a long and the outcome of an overflow of x - lo;   *)
(* only an operand too large for a long of 32 bits comes out as INT32_MAX. *)
THEOREM Loads == Spec => []Loaded
  BY InvInit, InvStep, InvLoaded, PTL DEF Spec

(* No instruction of an expansion is refused by the checks of encode(),    *)
(* and li refuses what is out of range or, where a long has 32 bits,       *)
(* negative.                                                               *)
THEOREM Accepts == Spec => []ExpansionAccepted
  <1>1. IInv => ExpansionAccepted
    BY DEF IInv
  <1> QED
    BY InvInit, InvStep, <1>1, PTL DEF Spec
=============================================================================
