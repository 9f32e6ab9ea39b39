------------------------ MODULE DataDirectivesProofs ------------------------
(***************************************************************************)
(* Theorems of module DataDirectives, for segments of every capacity and   *)
(* directives with any operands.                                           *)
(***************************************************************************)
EXTENDS DataDirectives, FiniteSetTheorems, SequenceTheorems, WellFoundedInduction, TLAPS

Handlers == {"none", "integer", "string", "space", "unknown"}

TypeOK ==
    /\ host.size_t \in Nat /\ host.size_t > DATA_SIZE
    /\ data_offset \in Nat
    /\ current_size \in Nat
    /\ handler \in Handlers
    /\ handler # "none" => args \in Seq(Int \cup {Malformed})

(* A handler that has laid nothing down is where its directive starts, and *)
(* only the loop over a string can be past the capacity, by one byte: with *)
(* characters left or without, its next test for room then fails.          *)
Within ==
    /\ data_offset <= DATA_SIZE
    /\ handler \in {"unknown", "space"} => current_size = data_offset
    /\ handler = "string" /\ Unquoted => current_size = data_offset
    /\ handler = "integer" => current_size <= DATA_SIZE
    /\ handler = "none" /\ err # "ERR" => current_size <= DATA_SIZE
    /\ current_size <= DATA_SIZE + 1

IInv == TypeOK /\ Within

-----------------------------------------------------------------------------

(* Induction, for a set in place of a predicate: the natural numbers are   *)
(* well-founded, so a number outside the set would have a least one.       *)
LEMMA SetInduction ==
    ASSUME NEW T, 0 \in T, \A n \in Nat : n \in T => n + 1 \in T
    PROVE  \A n \in Nat : n \in T
  <1> DEFINE R == {p \in Nat \X Nat : p[1] < p[2]}
             U == Nat \ T
  <1>1. IsWellFoundedOn(R, Nat)
    BY NatLessThanWellFounded DEF OpToRel
  <1>2. ASSUME U # {} PROVE FALSE
    <2>1. PICK n \in U : \A m \in U : ~(<<m, n>> \in R)
      <3>1. U \subseteq Nat
        OBVIOUS
      <3> HIDE DEF R, U
      <3> QED
        BY <1>1, <1>2, <3>1, WFMin
    <2>2. n # 0 /\ n \in Nat
      OBVIOUS
    <2>3. n - 1 \in Nat /\ n - 1 \notin T
      BY <2>2
    <2>4. <<n - 1, n>> \in R
      BY <2>2, <2>3
    <2> QED
      BY <2>1, <2>3, <2>4
  <1> QED
    BY <1>2

(* The first and the last of some positions of a sequence.                 *)
LEMMA FirstAndLast ==
    ASSUME NEW n \in Nat, NEW Q, Q \subseteq 1..n, Q # {}
    PROVE  /\ Min(Q) \in Q /\ \A i \in Q : Min(Q) <= i
           /\ Max(Q) \in Q /\ \A i \in Q : i <= Max(Q)
  <1>1. \E x \in Q : \A y \in Q : x <= y
    <2> DEFINE T == {m \in Nat : \A i \in Q : i <= m => \E x \in Q : \A y \in Q : x <= y}
    <2>1. 0 \in T
      OBVIOUS
    <2>2. ASSUME NEW m \in Nat, m \in T PROVE m + 1 \in T
      <3> SUFFICES ASSUME NEW i \in Q, i <= m + 1
                   PROVE  \E x \in Q : \A y \in Q : x <= y
        OBVIOUS
      <3>1. CASE \A y \in Q : i <= y
        BY <3>1
      <3>2. CASE \E y \in Q : y < i
        BY <2>2, <3>2
      <3> QED
        BY <3>1, <3>2
    <2>3. \A m \in Nat : m \in T
      <3> HIDE DEF T
      <3> QED
        BY <2>1, <2>2, SetInduction
    <2>4. PICK i \in Q : TRUE
      OBVIOUS
    <2>5. i \in T
      BY <2>3
    <2> QED
      BY <2>5
  <1>2. \E x \in Q : \A y \in Q : x >= y
    <2> DEFINE T == {m \in Nat : \A i \in Q : i >= n - m => \E x \in Q : \A y \in Q : x >= y}
    <2>1. 0 \in T
      OBVIOUS
    <2>2. ASSUME NEW m \in Nat, m \in T PROVE m + 1 \in T
      <3> SUFFICES ASSUME NEW i \in Q, i >= n - (m + 1)
                   PROVE  \E x \in Q : \A y \in Q : x >= y
        OBVIOUS
      <3>1. CASE \A y \in Q : i >= y
        BY <3>1
      <3>2. CASE \E y \in Q : y > i
        BY <2>2, <3>2
      <3> QED
        BY <3>1, <3>2
    <2>3. \A m \in Nat : m \in T
      <3> HIDE DEF T
      <3> QED
        BY <2>1, <2>2, SetInduction
    <2>4. PICK i \in Q : TRUE
      OBVIOUS
    <2>5. n \in T /\ i >= n - n
      BY <2>3
    <2> QED
      BY <2>5
  <1> QED
    BY <1>1, <1>2 DEF Min, Max

(* What is inside the quotes is a part of the string.                      *)
LEMMA InsideIs ==
    ASSUME NEW S, NEW s \in Seq(S), Cardinality(Quotes(s)) > 1
    PROVE  Inside(s) \in Seq(S)
  <1>1. Quotes(s) \subseteq 1..Len(s) /\ Len(s) \in Nat
    BY DEF Quotes
  <1>2. Quotes(s) # {}
    BY FS_EmptySet
  <1>3. Min(Quotes(s)) \in 1..Len(s) /\ Max(Quotes(s)) \in 1..Len(s)
    BY <1>1, <1>2, FirstAndLast
  <1> QED
    BY <1>3 DEF Inside

(* An integer takes one, two or four bytes.                                *)
LEMMA StepIs == \A name : Step(name) \in {1, 2, 4}
  BY DEF Step

(* A round lays down a byte, or two.                                       *)
LEMMA RoundLength ==
    ASSUME NEW s \in Seq(Int \cup {Malformed}), s # <<>>
    PROVE  Len(Round(s)) \in {1, 2}
  BY DEF Round

(* Both passes start within the capacity.                                  *)
LEMMA InvInit ==
    ASSUME Init PROVE IInv
  BY DataSizeAssumption, SizeTypesAssumption DEF Init, IInv, TypeOK, Within, Handlers

(* A count that a size_t can hold is taken as it is, and any as a number.  *)
LEMMA SizeIs ==
    ASSUME TypeOK, NEW v \in Int, v >= 0
    PROVE  AsSize(v) \in Nat /\ (v < host.size_t => AsSize(v) = v)
  <1>1. host.size_t \in Nat /\ host.size_t > 0
    BY DataSizeAssumption DEF TypeOK
  <1> PICK m : m = host.size_t
    OBVIOUS
  <1>2. v % m \in Nat /\ (v < m => v % m = v)
    BY <1>1
  <1> QED
    BY <1>2 DEF AsSize

(* Every step of a handler keeps the invariant.                            *)
LEMMA InvStep ==
    ASSUME IInv, Next
    PROVE  IInv'
  <1> USE DataSizeAssumption DEF IInv, TypeOK, Within, Handlers, Unquoted
  <1>1. CASE Call
    <2>1. data_offset' = data_offset /\ current_size' = data_offset /\ handler' \in Handlers
      BY <1>1 DEF Call
    <2>2. args' \in Seq(Int \cup {Malformed})
      <3>1. directive'.args \in Seq(Int \cup {Malformed})
        BY <1>1, DirectivesAssumption DEF Call
      <3> QED
        BY <1>1, <3>1, InsideIs DEF Call
    <2> QED
      BY <1>1, <2>1, <2>2 DEF Call
  <1>2. CASE UnknownDirective
    BY <1>2 DEF UnknownDirective, Refuse, Return
  <1>3. CASE Stopped
    BY <1>3 DEF Stopped, vars
  <1>4. CASE IntegerMalformed
    BY <1>4 DEF IntegerMalformed, Refuse, Return
  <1>5. CASE IntegerFull
    BY <1>5 DEF IntegerFull, Refuse, Return
  <1>6. CASE Integer
    <2>1. Len(Copied(Head(args), Step(directive.name))) = Step(directive.name)
      BY StepIs DEF Copied
    <2>2. /\ current_size' = current_size + Step(directive.name)
          /\ current_size + Step(directive.name) <= DATA_SIZE
          /\ args' = Tail(args) /\ args # <<>>
      BY <1>6, <2>1 DEF Integer, Lay, Fits
    <2> QED
      BY <1>6, <2>2, StepIs DEF Integer, Lay
  <1>7. CASE IntegerEnd
    BY <1>7 DEF IntegerEnd, Refuse, Return
  <1>8. CASE StringMalformed
    BY <1>8 DEF StringMalformed, Refuse, Return
  <1>9. CASE StringFull
    BY <1>9 DEF StringFull, Refuse, Return
  <1>10. CASE StringRound
    <2>1. Len(Round(args)) \in {1, 2}
      BY <1>10, RoundLength DEF StringRound
    <2>2. SubSeq(args, Taken(args) + 1, Len(args)) \in Seq(Int \cup {Malformed})
      BY <1>10 DEF StringRound, Taken
    <2>3. current_size < DATA_SIZE /\ ~Unquoted /\ ~Unquoted'
      BY <1>10 DEF StringRound, Lay
    <2>4. current_size' = current_size + Len(Round(args))
          /\ args' = SubSeq(args, Taken(args) + 1, Len(args))
          /\ handler' = "string" /\ handler = "string" /\ data_offset' = data_offset
          /\ host' = host
      BY <1>10 DEF StringRound, Lay
    <2> HIDE DEF Unquoted
    <2>5. current_size' \in Nat /\ current_size' <= DATA_SIZE + 1
      <3>1. current_size' = current_size + 1 \/ current_size' = current_size + 2
        BY <2>1, <2>4
      <3>2. current_size \in Nat /\ DATA_SIZE \in Nat
        OBVIOUS
      <3> HIDE DEF IInv
      <3> QED
        BY <2>3, <3>1, <3>2
    <2> QED
      BY <2>2, <2>3, <2>4, <2>5
  <1>11. CASE StringEnd
    BY <1>11 DEF StringEnd, Return
  <1>12. CASE SpaceMalformed
    BY <1>12 DEF SpaceMalformed, Refuse, Return
  <1>13. CASE SpaceFull
    BY <1>13 DEF SpaceFull, Refuse, Return
  <1>14. CASE Space
    <2>1. AsSize(args[1]) \in Nat
      <3>1. args[1] \in Int /\ args[1] >= 0 /\ TypeOK
        BY <1>14 DEF Space, SpaceWellFormed
      <3> QED
        BY <3>1, SizeIs
    <2> QED
      BY <1>14, <2>1 DEF Space, Return
  <1> QED
    BY <1>1, <1>2, <1>3, <1>4, <1>5, <1>6, <1>7, <1>8, <1>9, <1>10, <1>11, <1>12, <1>13,
       <1>14 DEF Next

(* The invariant holds throughout both passes.                             *)
THEOREM Invariance == Spec => []IInv
  <1>1. Init => IInv
    BY InvInit
  <1>2. IInv /\ [Next]_vars => IInv'
    <2> SUFFICES ASSUME IInv, [Next]_vars PROVE IInv'
      OBVIOUS
    <2>1. CASE Next
      BY <2>1, InvStep
    <2>2. CASE UNCHANGED vars
      BY <2>2 DEF IInv, TypeOK, Within, Unquoted, vars
    <2> QED
      BY <2>1, <2>2
  <1> QED
    BY <1>1, <1>2, PTL DEF Spec

(* No handler gets further than one byte past the capacity, and one that   *)
(* does is refused.                                                        *)
THEOREM Overrun == Spec => []OverrunRefused
  <1>1. IInv => OverrunRefused
    BY DataSizeAssumption DEF IInv, TypeOK, Within, Handlers, OverrunRefused
  <1> QED
    BY <1>1, Invariance, PTL

-----------------------------------------------------------------------------
(* What the characters of a string mean                                    *)

Chars == Int \cup {Malformed}

(* One step of the recursion of Meaning.                                   *)
ReadAt(f, s, i) ==
    IF i > Len(s) THEN <<>>
    ELSE IF s[i] # Backslash \/ i = Len(s) THEN <<s[i]>> \o f[i + 1]
    ELSE IF s[i + 1] \in Escapes THEN <<Escape(s[i + 1])>> \o f[i + 2]
    ELSE <<Backslash, s[i + 1]>> \o f[i + 2]

FollowsFrom(f, s) == \A i \in 1..(Len(s) + 2) : f[i] = ReadAt(f, s, i)

IsTail(t, s, k) == Len(t) = Len(s) - k /\ \A i \in 1..Len(t) : t[i] = s[i + k]

Reads(f, s, low) ==
    /\ f \in [low..(Len(s) + 2) -> Seq(Chars)]
    /\ \A i \in low..(Len(s) + 2) : f[i] = ReadAt(f, s, i)

(* What is read at a position is a string again.                           *)
LEMMA ReadAtType ==
    ASSUME NEW s \in Seq(Chars), NEW i \in 1..(Len(s) + 2), NEW f,
           i <= Len(s) => f[i + 1] \in Seq(Chars) /\ f[i + 2] \in Seq(Chars)
    PROVE  ReadAt(f, s, i) \in Seq(Chars)
  <1>1. CASE i > Len(s)
    BY <1>1 DEF ReadAt
  <1>2. CASE i <= Len(s)
    <2>1. s[i] \in Chars /\ (i # Len(s) => s[i + 1] \in Chars) /\ Backslash \in Chars
      BY <1>2 DEF Backslash, Chars
    <2>2. \A c \in Chars : Escape(c) \in Chars
      BY DEF Escape, Chars
    <2>3. f[i + 1] \in Seq(Chars) /\ f[i + 2] \in Seq(Chars)
      BY <1>2
    <2> HIDE DEF Chars
    <2>4. /\ <<s[i]>> \in Seq(Chars)
          /\ i # Len(s) => <<Escape(s[i + 1])>> \in Seq(Chars)
          /\ i # Len(s) => <<Backslash, s[i + 1]>> \in Seq(Chars)
      BY <2>1, <2>2
    <2>5. \A a, b \in Seq(Chars) : a \o b \in Seq(Chars)
      OBVIOUS
    <2> QED
      BY <1>2, <2>3, <2>4, <2>5 DEF ReadAt
  <1> QED
    BY <1>1, <1>2

(* A string can be read from its end towards its start.                    *)
LEMMA ReadsExists ==
    ASSUME NEW s \in Seq(Chars)
    PROVE  \E f : Reads(f, s, 1)
  <1> DEFINE T == {n \in Nat : n <= Len(s) + 1 => \E f : Reads(f, s, Len(s) + 2 - n)}
  <1>1. Len(s) \in Nat
    OBVIOUS
  <1>2. 0 \in T
    <2> DEFINE f == [i \in (Len(s) + 2)..(Len(s) + 2) |-> <<>>]
    <2>1. Reads(f, s, Len(s) + 2)
      BY <1>1 DEF Reads, ReadAt
    <2> QED
      BY <1>1, <2>1
  <1>3. ASSUME NEW n \in Nat, n \in T PROVE n + 1 \in T
    <2> DEFINE low == Len(s) + 2 - (n + 1)
    <2> SUFFICES ASSUME n + 1 <= Len(s) + 1
                 PROVE  \E f : Reads(f, s, low)
      BY <1>1
    <2>1. PICK f : Reads(f, s, low + 1)
      BY <1>1, <1>3
    <2> DEFINE g == [i \in low..(Len(s) + 2) |->
                        IF i = low THEN ReadAt(f, s, low) ELSE f[i]]
    <2>2. low \in 1..(Len(s) + 1)
      BY <1>1
    <2> HIDE DEF low
    <2>3. \A i \in (low + 1)..(Len(s) + 2) : f[i] \in Seq(Chars) /\ g[i] = f[i]
      BY <1>1, <2>1, <2>2 DEF Reads
    <2>4. ReadAt(f, s, low) \in Seq(Chars)
      <3>1. low <= Len(s) => f[low + 1] \in Seq(Chars) /\ f[low + 2] \in Seq(Chars)
        <4>1. \A i \in (low + 1)..(Len(s) + 2) : f[i] \in Seq(Chars)
          BY <2>3
        <4> HIDE <2>3
        <4>2. ASSUME low <= Len(s)
              PROVE  low + 1 \in (low + 1)..(Len(s) + 2) /\ low + 2 \in (low + 1)..(Len(s) + 2)
          BY <1>1, <2>2, <4>2
        <4> QED
          BY <4>1, <4>2
      <3>2. low \in 1..(Len(s) + 2)
        BY <1>1, <2>2
      <3> QED
        BY <3>1, <3>2, ReadAtType
    <2>5. g \in [low..(Len(s) + 2) -> Seq(Chars)]
      <3>1. ASSUME NEW i \in low..(Len(s) + 2)
            PROVE  (IF i = low THEN ReadAt(f, s, low) ELSE f[i]) \in Seq(Chars)
        <4>1. i # low => i \in (low + 1)..(Len(s) + 2)
          BY <1>1, <2>2
        <4> QED
          BY <2>3, <2>4, <4>1
      <3> QED
        BY <3>1
    <2>6. ASSUME NEW i \in low..(Len(s) + 2) PROVE g[i] = ReadAt(g, s, i)
      <3>1. i <= Len(s) => g[i + 1] = f[i + 1] /\ g[i + 2] = f[i + 2]
        BY <1>1, <2>2, <2>3
      <3>2. ReadAt(g, s, i) = ReadAt(f, s, i)
        BY <1>1, <2>2, <3>1 DEF ReadAt
      <3>3. CASE i = low
        BY <3>2, <3>3
      <3>4. CASE i # low
        BY <1>1, <2>1, <2>2, <2>3, <3>2, <3>4 DEF Reads
      <3> QED
        BY <3>3, <3>4
    <2> QED
      BY <2>5, <2>6 DEF Reads
  <1>4. \A n \in Nat : n \in T
    <2> HIDE DEF T
    <2> QED
      BY <1>2, <1>3, SetInduction
  <1>5. Len(s) + 1 \in T
    BY <1>1, <1>4
  <1> QED
    BY <1>1, <1>5

(* What is read behind the first k characters does not depend on them.     *)
LEMMA ReadsShift ==
    ASSUME NEW s \in Seq(Chars), NEW k \in 0..Len(s), NEW t \in Seq(Chars), IsTail(t, s, k),
           NEW f, FollowsFrom(f, s), NEW g, FollowsFrom(g, t)
    PROVE  \A i \in 1..(Len(t) + 2) : g[i] = f[i + k]
  <1> DEFINE T == {n \in Nat : \A i \in 1..(Len(t) + 2) :
                                   i >= Len(t) + 2 - n => g[i] = f[i + k]}
  <1>1. Len(s) \in Nat /\ Len(t) \in Nat /\ Len(t) = Len(s) - k
    BY DEF IsTail
  <1>2. ASSUME NEW i \in 1..(Len(t) + 2),
               i <= Len(t) => g[i + 1] = f[i + k + 1] /\ g[i + 2] = f[i + k + 2]
        PROVE  g[i] = f[i + k]
    <2>1. i + k \in 1..(Len(s) + 2)
      BY <1>1
    <2>2. g[i] = ReadAt(g, t, i) /\ f[i + k] = ReadAt(f, s, i + k)
      BY <2>1 DEF FollowsFrom
    <2>3. CASE i > Len(t)
      BY <1>1, <2>2, <2>3 DEF ReadAt
    <2>4. CASE i = Len(t)
      <3>1. i \in 1..Len(t) /\ i <= Len(t) /\ i + k = Len(s)
        BY <1>1, <2>4
      <3>2. t[i] = s[i + k] /\ g[i + 1] = f[i + k + 1]
        BY <1>2, <3>1 DEF IsTail
      <3> QED
        BY <1>1, <2>2, <2>4, <3>1, <3>2 DEF ReadAt
    <2>5. CASE i < Len(t)
      <3>1. /\ i \in 1..Len(t) /\ i + 1 \in 1..Len(t) /\ i <= Len(t)
            /\ i + k < Len(s) /\ (i + 1) + k = i + k + 1
        BY <1>1, <2>5
      <3>2. t[i] = s[i + k] /\ t[i + 1] = s[(i + 1) + k]
        BY <3>1 DEF IsTail
      <3>3. g[i + 1] = f[i + k + 1] /\ g[i + 2] = f[i + k + 2]
        BY <1>2, <3>1
      <3>4. ReadAt(g, t, i) = IF t[i] # Backslash THEN <<t[i]>> \o g[i + 1]
                              ELSE IF t[i + 1] \in Escapes
                                   THEN <<Escape(t[i + 1])>> \o g[i + 2]
                                   ELSE <<Backslash, t[i + 1]>> \o g[i + 2]
        BY <1>1, <2>5 DEF ReadAt
      <3>5. ReadAt(f, s, i + k) = IF s[i + k] # Backslash THEN <<s[i + k]>> \o f[i + k + 1]
                                  ELSE IF s[i + k + 1] \in Escapes
                                       THEN <<Escape(s[i + k + 1])>> \o f[i + k + 2]
                                       ELSE <<Backslash, s[i + k + 1]>> \o f[i + k + 2]
        BY <1>1, <3>1 DEF ReadAt
      <3> QED
        BY <2>2, <3>1, <3>2, <3>3, <3>4, <3>5
    <2>6. i > Len(t) \/ i = Len(t) \/ i < Len(t)
      BY <1>1
    <2> QED
      BY <2>3, <2>4, <2>5, <2>6
  <1>3. 0 \in T
    BY <1>1, <1>2
  <1>4. ASSUME NEW n \in Nat, n \in T PROVE n + 1 \in T
    <2> SUFFICES ASSUME NEW i \in 1..(Len(t) + 2), i >= Len(t) + 2 - (n + 1)
                 PROVE  g[i] = f[i + k]
      OBVIOUS
    <2>1. ASSUME i <= Len(t) PROVE g[i + 1] = f[i + k + 1] /\ g[i + 2] = f[i + k + 2]
      <3>1. /\ i + 1 \in 1..(Len(t) + 2) /\ i + 1 >= Len(t) + 2 - n
            /\ i + 2 \in 1..(Len(t) + 2) /\ i + 2 >= Len(t) + 2 - n
        BY <1>1, <2>1
      <3>2. g[i + 1] = f[(i + 1) + k] /\ g[i + 2] = f[(i + 2) + k]
        BY <1>4, <3>1
      <3>3. (i + 1) + k = i + k + 1 /\ (i + 2) + k = i + k + 2
        BY <1>1
      <3> QED
        BY <3>2, <3>3
    <2> QED
      BY <1>2, <2>1
  <1>5. \A n \in Nat : n \in T
    <2> HIDE DEF T
    <2> QED
      BY <1>3, <1>4, SetInduction
  <1>6. Len(t) + 1 \in T
    <2> HIDE DEF T
    <2> QED
      BY <1>1, <1>5
  <1>7. ASSUME NEW i \in 1..(Len(t) + 2) PROVE g[i] = f[i + k]
    <2>1. i >= Len(t) + 2 - (Len(t) + 1)
      BY <1>1
    <2> QED
      BY <1>6, <2>1
  <1> QED
    BY <1>7

(* Meaning, which is defined by recursion, reads the string.               *)
LEMMA MeaningIs ==
    ASSUME NEW s \in Seq(Chars), NEW f, Reads(f, s, 1)
    PROVE  Meaning(s) = f[1]
  <1> DEFINE Equation(g) == g = [i \in 1..(Len(s) + 2) |->
            IF i > Len(s) THEN <<>>
            ELSE IF s[i] # Backslash \/ i = Len(s) THEN <<s[i]>> \o g[i + 1]
            ELSE IF s[i + 1] \in Escapes THEN <<Escape(s[i + 1])>> \o g[i + 2]
            ELSE <<Backslash, s[i + 1]>> \o g[i + 2]]
             From == CHOOSE g : Equation(g)
  <1>1. Meaning(s) = From[1]
    BY DEF Meaning
  <1>2. f = [i \in 1..(Len(s) + 2) |-> ReadAt(f, s, i)]
    BY DEF Reads
  <1>3. Equation(f)
    BY <1>2 DEF ReadAt
  <1>4. Equation(From)
    BY <1>3
  <1>5. FollowsFrom(From, s)
    BY <1>4 DEF FollowsFrom, ReadAt
  <1>6. FollowsFrom(f, s)
    BY DEF FollowsFrom, Reads
  <1> HIDE DEF From
  <1>7. Len(s) \in Nat /\ 0 \in 0..Len(s) /\ 1 \in 1..(Len(s) + 2)
    OBVIOUS
  <1>8. From[1] = f[1 + 0]
    <2>1. IsTail(s, s, 0)
      BY <1>7 DEF IsTail
    <2>2. \A i \in 1..(Len(s) + 2) : From[i] = f[i + 0]
      BY <1>5, <1>6, <1>7, <2>1, ReadsShift
    <2> QED
      BY <1>7, <2>2
  <1> QED
    BY <1>1, <1>8

Rest(s) == SubSeq(s, Taken(s) + 1, Len(s))

(* A round of the loop of handle_data_string lays down what the characters *)
(* it takes mean.                                                          *)
LEMMA MeaningStep ==
    ASSUME NEW s \in Seq(Chars), s # <<>>
    PROVE  /\ Rest(s) \in Seq(Chars) /\ Round(s) \in Seq(Chars)
           /\ Meaning(s) \in Seq(Chars)
           /\ Meaning(s) = Round(s) \o Meaning(Rest(s))
  <1>1. Len(s) \in Nat /\ Len(s) > 0
    OBVIOUS
  <1> DEFINE k == Taken(s)
  <1>2. k \in 1..Len(s) /\ k <= 2
    BY <1>1 DEF Taken
  <1>3. /\ Rest(s) \in Seq(Chars)
        /\ Len(Rest(s)) \in Nat
        /\ IsTail(Rest(s), s, k)
    BY <1>1, <1>2 DEF Rest, IsTail
  <1>4. PICK f : Reads(f, s, 1)
    BY ReadsExists
  <1>5. PICK g : Reads(g, Rest(s), 1)
    BY <1>3, ReadsExists
  <1>6. g[1] = f[1 + k]
    <2>1. FollowsFrom(f, s)
      BY <1>4 DEF FollowsFrom, Reads
    <2>2. FollowsFrom(g, Rest(s))
      BY <1>5 DEF FollowsFrom, Reads
    <2>3. 1 \in 1..(Len(Rest(s)) + 2)
      BY <1>3
    <2>4. k \in 0..Len(s)
      BY <1>1, <1>2
    <2> HIDE DEF k
    <2>5. \A i \in 1..(Len(Rest(s)) + 2) : g[i] = f[i + k]
      BY <1>3, <2>1, <2>2, <2>4, ReadsShift
    <2> QED
      BY <2>3, <2>5
  <1>7. Meaning(s) = f[1] /\ Meaning(Rest(s)) = g[1]
    BY <1>3, <1>4, <1>5, MeaningIs
  <1>8. f[1] = ReadAt(f, s, 1) /\ f[1] \in Seq(Chars)
    BY <1>1, <1>4 DEF Reads
  <1>9. ReadAt(f, s, 1) = Round(s) \o f[1 + k]
    <2>1. CASE s[1] = Backslash /\ Len(s) > 1
      <3>1. 1 + k = 3
        BY <2>1 DEF Taken
      <3>2. ReadAt(f, s, 1) = IF s[2] \in Escapes THEN <<Escape(s[2])>> \o f[3]
                              ELSE <<Backslash, s[2]>> \o f[3]
        BY <1>1, <2>1 DEF ReadAt
      <3>3. Round(s) = IF s[2] \in Escapes THEN <<Escape(s[2])>> ELSE <<Backslash, s[2]>>
        BY <2>1 DEF Round
      <3> HIDE DEF k
      <3> QED
        BY <3>1, <3>2, <3>3
    <2>2. CASE ~(s[1] = Backslash /\ Len(s) > 1)
      <3>1. 1 + k = 2
        BY <2>2 DEF Taken
      <3>2. ReadAt(f, s, 1) = <<s[1]>> \o f[2]
        BY <1>1, <2>2 DEF ReadAt
      <3>3. Round(s) = <<s[1]>>
        BY <2>2 DEF Round
      <3> HIDE DEF k
      <3> QED
        BY <3>1, <3>2, <3>3
    <2> QED
      BY <2>1, <2>2
  <1>10. Round(s) \in Seq(Chars)
    <2>1. s[1] \in Chars /\ (Len(s) > 1 => s[2] \in Chars) /\ Backslash \in Chars
      BY <1>1 DEF Chars, Backslash
    <2>2. \A c \in Chars : Escape(c) \in Chars
      BY DEF Escape, Chars
    <2> QED
      BY <2>1, <2>2 DEF Round
  <1> QED
    BY <1>3, <1>6, <1>7, <1>8, <1>9, <1>10

(* The end of the string means nothing.                                    *)
LEMMA MeaningEnd == Meaning(<<>>) = <<>>
  <1>1. <<>> \in Seq(Chars) /\ Len(<<>>) = 0
    OBVIOUS
  <1>2. PICK f : Reads(f, <<>>, 1)
    BY <1>1, ReadsExists
  <1>3. f[1] = ReadAt(f, <<>>, 1)
    BY <1>1, <1>2 DEF Reads
  <1>4. ReadAt(f, <<>>, 1) = <<>>
    BY <1>1 DEF ReadAt
  <1> QED
    BY <1>1, <1>2, <1>3, <1>4, MeaningIs

-----------------------------------------------------------------------------
(* The bytes of integers, one literal after another                        *)

(* The width of a literal is the step of the handler.                      *)
LEMMA WidthIs ==
    ASSUME NEW name \in {".byte", ".half", ".word"}
    PROVE  Width[name] = Step(name) /\ Width[name] \in {1, 2, 4}
  <1>1. Width[".byte"] = 1 /\ Width[".half"] = 2 /\ Width[".word"] = 4
    BY DEF Width
  <1> QED
    BY <1>1 DEF Step

(* The results of joining the first sequences of some, up to all n.        *)
Joins(f, B, n) ==
    /\ f[0] = <<>>
    /\ \A i \in 1..n : f[i] = f[i - 1] \o B[i]

AllIn(B, n, S) == \A i \in 1..n : B[i] \in Seq(S)
Starts(C, B, m) == Len(C) = m /\ \A i \in 1..m : C[i] = B[i]

Joining(f, B, n, S) ==
    n \in Nat /\ AllIn(B, n, S) /\ f \in [0..n -> Seq(S)] /\ Joins(f, B, n)

(* Sequences can be joined one after another.                              *)
LEMMA JoinsExist ==
    ASSUME NEW S, NEW n \in Nat, NEW B, AllIn(B, n, S)
    PROVE  \E f : Joining(f, B, n, S)
  <1> DEFINE T == {m \in Nat : m <= n => \E f \in [0..m -> Seq(S)] : Joins(f, B, m)}
  <1>1. 0 \in T
    <2>1. [i \in 0..0 |-> <<>>] \in [0..0 -> Seq(S)]
      OBVIOUS
    <2>2. Joins([i \in 0..0 |-> <<>>], B, 0)
      BY DEF Joins
    <2> QED
      BY <2>1, <2>2
  <1>2. ASSUME NEW m \in Nat, m \in T PROVE m + 1 \in T
    <2> SUFFICES ASSUME m + 1 <= n
                 PROVE  \E f \in [0..(m + 1) -> Seq(S)] : Joins(f, B, m + 1)
      OBVIOUS
    <2>1. PICK f \in [0..m -> Seq(S)] : Joins(f, B, m)
      BY <1>2
    <2> DEFINE g == [i \in 0..(m + 1) |-> IF i <= m THEN f[i] ELSE f[m] \o B[m + 1]]
    <2>2. f[m] \o B[m + 1] \in Seq(S)
      <3>1. f[m] \in Seq(S) /\ B[m + 1] \in Seq(S)
        BY DEF AllIn
      <3> QED
        BY <3>1
    <2>3. g \in [0..(m + 1) -> Seq(S)]
      BY <2>2
    <2>4. Joins(g, B, m + 1)
      <3>1. g[0] = <<>>
        BY <2>1 DEF Joins
      <3>2. ASSUME NEW i \in 1..(m + 1) PROVE g[i] = g[i - 1] \o B[i]
        <4>1. CASE i <= m
          <5>1. g[i] = f[i] /\ g[i - 1] = f[i - 1] /\ i \in 1..m
            BY <4>1
          <5> QED
            BY <2>1, <5>1 DEF Joins
        <4>2. CASE i = m + 1
          <5>1. g[m + 1] = f[m] \o B[m + 1] /\ g[m] = f[m] /\ i - 1 = m
            BY <4>2
          <5> QED
            BY <4>2, <5>1
        <4>3. i <= m \/ i = m + 1
          OBVIOUS
        <4> QED
          BY <4>1, <4>2, <4>3
      <3> QED
        BY <3>1, <3>2 DEF Joins
    <2> QED
      BY <2>3, <2>4
  <1>3. \A m \in Nat : m \in T
    <2> HIDE DEF T
    <2> QED
      BY <1>1, <1>2, SetInduction
  <1>4. PICK f \in [0..n -> Seq(S)] : Joins(f, B, n)
    BY <1>3
  <1> QED
    BY <1>4 DEF Joining

(* FlattenSeq, which is defined by recursion, joins the sequences.         *)
LEMMA FlattenIs ==
    ASSUME NEW S, NEW n, NEW B, NEW f, Joining(f, B, n, S),
           NEW m \in 0..n, NEW C \in Seq(Seq(S)), Starts(C, B, m)
    PROVE  FlattenSeq(C) = f[m]
  <1> USE DEF Joining
  <1> DEFINE Equation(g) == g = [i \in 1..Len(C) |-> IF i = 1 THEN C[i] ELSE g[i - 1] \o C[i]]
             F == CHOOSE g : Equation(g)
  <1>1. Len(C) = m /\ \A i \in 1..m : C[i] = B[i]
    BY DEF Starts
  <1>2. CASE m = 0
    <2>1. C = <<>>
      BY <1>1, <1>2
    <2>2. FlattenSeq(C) = C
      BY <1>1, <1>2 DEF FlattenSeq
    <2> QED
      BY <1>2, <2>1, <2>2 DEF Joins
  <1>3. CASE m > 0
    <2>1. FlattenSeq(C) = F[m]
      BY <1>1, <1>3 DEF FlattenSeq
    <2> DEFINE g == [i \in 1..m |-> f[i]]
    <2>2. f[1] = B[1]
      <3>1. 1 \in 1..n /\ 1 - 1 = 0
        BY <1>3
      <3>2. f[1] = f[0] \o B[1] /\ f[0] = <<>>
        BY <3>1 DEF Joins
      <3>3. B[1] \in Seq(S)
        BY <3>1 DEF AllIn
      <3> QED
        BY <3>2, <3>3
    <2>3. ASSUME NEW i \in 1..m
          PROVE  g[i] = IF i = 1 THEN C[i] ELSE g[i - 1] \o C[i]
      <3>1. g[i] = f[i] /\ (i # 1 => g[i - 1] = f[i - 1]) /\ i \in 1..n
        OBVIOUS
      <3>2. f[i] = f[i - 1] \o B[i]
        BY <3>1 DEF Joins
      <3> QED
        BY <1>1, <2>2, <3>1, <3>2
    <2>4. Equation(g)
      BY <1>1, <2>3
    <2>5. Equation(F)
      BY <2>4
    <2>6. \A i \in 1..m : F[i] = IF i = 1 THEN B[i] ELSE F[i - 1] \o B[i]
      BY <1>1, <2>5
    <2> HIDE DEF F
    <2> DEFINE T == {i \in Nat : i + 1 <= m => F[i + 1] = f[i + 1]}
    <2>7. 0 \in T
      BY <1>3, <2>2, <2>6
    <2>8. ASSUME NEW i \in Nat, i \in T PROVE i + 1 \in T
      <3> SUFFICES ASSUME i + 2 <= m PROVE F[i + 2] = f[i + 2]
        OBVIOUS
      <3>1. F[i + 1] = f[i + 1]
        BY <2>8
      <3>2. i + 2 \in 1..m /\ i + 2 # 1 /\ (i + 2) - 1 = i + 1 /\ i + 2 \in 1..n
        OBVIOUS
      <3>3. F[i + 2] = F[i + 1] \o B[i + 2]
        BY <2>6, <3>2
      <3>4. f[i + 2] = f[i + 1] \o B[i + 2]
        BY <3>2 DEF Joins
      <3> QED
        BY <3>1, <3>3, <3>4
    <2>9. \A i \in Nat : i \in T
      <3> HIDE DEF T
      <3> QED
        BY <2>7, <2>8, SetInduction
    <2>10. m - 1 \in T
      <3> HIDE DEF T
      <3> QED
        BY <1>3, <2>9
    <2>11. F[m] = f[m]
      BY <1>3, <2>10
    <2> QED
      BY <2>1, <2>11
  <1> QED
    BY <1>2, <1>3

(* The image of the first m literals of a directive.                       *)
Bytes(d, i) == [k \in 1..Width[d.name] |-> Byte(d.args[i], k - 1)]
First(d, m) == FlattenSeq([i \in 1..m |-> Bytes(d, i)])

IsSeq(s) == \E S : s \in Seq(S)

(* The image of one literal more has the bytes of that literal at its end. *)
LEMMA FirstIs ==
    ASSUME NEW d, IsInteger(d), d.args \in Seq(Chars)
    PROVE  /\ First(d, 0) = <<>>
           /\ \A m \in 0..Len(d.args) :
                  IsSeq(First(d, m)) /\ Len(First(d, m)) = m * Width[d.name]
           /\ \A m \in 1..Len(d.args) : First(d, m) = First(d, m - 1) \o Bytes(d, m)
  <1> DEFINE n == Len(d.args)
             w == Width[d.name]
             S == {Byte(d.args[i], k - 1) : i \in 1..n, k \in 1..w}
             B == [i \in 1..n |-> Bytes(d, i)]
  <1>1. n \in Nat /\ w \in {1, 2, 4}
    BY WidthIs DEF IsInteger
  <1>2. \A i \in 1..n : B[i] = Bytes(d, i) /\ Bytes(d, i) \in Seq(S) /\ Len(Bytes(d, i)) = w
    <2>1. ASSUME NEW i \in 1..n
          PROVE  B[i] = Bytes(d, i) /\ Bytes(d, i) \in Seq(S) /\ Len(Bytes(d, i)) = w
      <3>1. Bytes(d, i) = [k \in 1..w |-> Byte(d.args[i], k - 1)]
        BY DEF Bytes
      <3>2. \A k \in 1..w : Byte(d.args[i], k - 1) \in S
        OBVIOUS
      <3>3. w \in Nat
        BY <1>1
      <3> HIDE DEF S, w
      <3> QED
        BY <3>1, <3>2, <3>3
    <2> HIDE DEF S, B, w
    <2> QED
      BY <2>1
  <1> HIDE DEF S, B, w, n
  <1>3. AllIn(B, n, S)
    BY <1>2 DEF AllIn
  <1>4. PICK f : Joining(f, B, n, S)
    BY <1>1, <1>3, JoinsExist
  <1>5. ASSUME NEW m \in 0..n PROVE First(d, m) = f[m]
    <2> DEFINE C == [i \in 1..m |-> Bytes(d, i)]
    <2>1. C \in Seq(Seq(S)) /\ Starts(C, B, m)
      BY <1>1, <1>2 DEF Starts
    <2>2. First(d, m) = FlattenSeq(C)
      BY DEF First
    <2> HIDE DEF C
    <2>3. FlattenSeq(C) = f[m]
      BY <1>4, <2>1, FlattenIs
    <2> QED
      BY <2>2, <2>3
  <1>6. f[0] = <<>> /\ \A m \in 1..n : f[m] = f[m - 1] \o Bytes(d, m)
    BY <1>2, <1>4 DEF Joins, Joining
  <1>7. \A m \in 0..n : Len(f[m]) = m * w
    <2> DEFINE T == {m \in Nat : m <= n => Len(f[m]) = m * w}
    <2>1. 0 \in T
      BY <1>1, <1>6
    <2>2. ASSUME NEW m \in Nat, m \in T PROVE m + 1 \in T
      <3> SUFFICES ASSUME m + 1 <= n PROVE Len(f[m + 1]) = (m + 1) * w
        OBVIOUS
      <3>1. m + 1 \in 1..n /\ (m + 1) - 1 = m /\ m \in 0..n
        BY <1>1
      <3>2. f[m + 1] = f[m] \o Bytes(d, m + 1)
        BY <1>6, <3>1
      <3>3. Len(f[m + 1]) = Len(f[m]) + Len(Bytes(d, m + 1))
        BY <1>2, <1>4, <3>1, <3>2 DEF Joining
      <3>4. Len(f[m]) = m * w /\ Len(Bytes(d, m + 1)) = w
        BY <1>2, <2>2, <3>1
      <3> QED
        BY <1>1, <3>3, <3>4
    <2>3. \A m \in Nat : m \in T
      <3> HIDE DEF T
      <3> QED
        BY <2>1, <2>2, SetInduction
    <2> QED
      BY <1>1, <2>3
  <1>8. First(d, 0) = <<>>
    BY <1>1, <1>5, <1>6
  <1>9. \A m \in 0..n : IsSeq(First(d, m)) /\ Len(First(d, m)) = m * w
    BY <1>4, <1>5, <1>7 DEF IsSeq, Joining
  <1>10. ASSUME NEW m \in 1..n PROVE First(d, m) = First(d, m - 1) \o Bytes(d, m)
    <2>1. m \in 0..n /\ m - 1 \in 0..n
      BY <1>1
    <2> QED
      BY <1>5, <1>6, <2>1
  <1> QED
    BY <1>8, <1>9, <1>10 DEF w, n

(* A segment with all of its cells.                                        *)
IsSegment(d) == d = [c \in Cells |-> d[c]]

Continues(d, at, a, b) == Put(Put(d, at, a), at + Len(a), b) = Put(d, at, a \o b)

(* Bytes laid down one after another are laid down together.               *)
LEMMA PutIs ==
    ASSUME NEW d, NEW at \in Nat, NEW a, IsSeq(a)
    PROVE  /\ IsSegment(Put(d, at, a))
           /\ IsSegment(d) => Put(d, at, <<>>) = d
           /\ \A b : IsSeq(b) => Continues(d, at, a, b)
  <1>1. Len(a) \in Nat
    BY DEF IsSeq
  <1>2. IsSegment(Put(d, at, a))
    BY DEF IsSegment, Put
  <1>4. ASSUME IsSegment(d) PROVE Put(d, at, <<>>) = d
    <2>1. \A c \in Cells : c \notin at..(at + Len(<<>>) - 1)
      BY DataSizeAssumption DEF Cells
    <2> QED
      BY <1>4, <2>1 DEF IsSegment, Put
  <1>5. ASSUME NEW b, IsSeq(b)
        PROVE  Continues(d, at, a, b)
    <2>1. Len(b) \in Nat
      BY <1>5 DEF IsSeq
    <2>2. /\ Len(a \o b) = Len(a) + Len(b)
          /\ \A i \in 1..(Len(a) + Len(b)) :
                 (a \o b)[i] = IF i <= Len(a) THEN a[i] ELSE b[i - Len(a)]
      <3>1. PICK S : a \in Seq(S)
        BY DEF IsSeq
      <3>2. PICK U : b \in Seq(U)
        BY <1>5 DEF IsSeq
      <3>3. a \in Seq(S \cup U) /\ b \in Seq(S \cup U)
        BY <3>1, <3>2
      <3> QED
        BY <3>3, ConcatProperties
    <2>3. ASSUME NEW c \in Cells
          PROVE  Put(Put(d, at, a), at + Len(a), b)[c] = Put(d, at, a \o b)[c]
      <3>1. c \in Nat
        BY DataSizeAssumption DEF Cells
      <3>2. CASE c < at
        BY <1>1, <2>1, <2>2, <3>1, <3>2 DEF Put
      <3>3. CASE c >= at /\ c < at + Len(a)
        BY <1>1, <2>1, <2>2, <3>1, <3>3 DEF Put
      <3>4. CASE c >= at + Len(a) /\ c < at + Len(a) + Len(b)
        BY SMTT(30), <1>1, <2>1, <2>2, <3>1, <3>4 DEF Put
      <3>5. CASE c >= at + Len(a) + Len(b)
        BY <1>1, <2>1, <2>2, <3>1, <3>5 DEF Put
      <3> QED
        BY <1>1, <2>1, <3>1, <3>2, <3>3, <3>4, <3>5
    <2> QED
      BY <2>3 DEF Put, Continues
  <1> QED
    BY <1>2, <1>4, <1>5

-----------------------------------------------------------------------------
(* What a handler has laid down                                            *)

(* From the offset of the directive up to the next byte, and nothing else. *)
Laid(done) ==
    /\ IsSeq(done)
    /\ current_size = data_offset + Len(done)
    /\ data = Put(before, data_offset, done)

(* handle_data_integer is through with the first m literals.               *)
IntegersDone(m) ==
    /\ args = SubSeq(directive.args, m + 1, Len(directive.args))
    /\ \A j \in 1..m : directive.args[j] # Malformed
    /\ \E done : /\ Laid(done)
                 /\ Len(done) = m * Width[directive.name]
                 /\ host.order = "little" => done = First(directive, m)

(* handle_data_string has laid down what the characters it took mean.      *)
StringDone ==
    \E done \in Seq(Chars) :
        Laid(done) /\ done \o Meaning(args) = Meaning(Inside(directive.args))

Progress ==
    /\ IsSegment(data) /\ IsSegment(before)
    /\ handler # "none" => directive.args \in Seq(Chars)
    /\ handler = "unknown" =>
           ~IsInteger(directive) /\ ~IsString(directive) /\ ~IsSpace(directive) /\ Laid(<<>>)
    /\ handler = "space" => IsSpace(directive) /\ args = directive.args /\ Laid(<<>>)
    /\ handler = "integer" =>
           IsInteger(directive) /\ \E m \in 0..Len(directive.args) : IntegersDone(m)
    /\ handler = "string" =>
           IsString(directive) /\ IF Unquoted THEN Laid(<<>>) ELSE StringDone

DInv == IInv /\ Progress

(* A string has a number of quotes.                                        *)
LEMMA QuotesCounted ==
    ASSUME NEW S, NEW s \in Seq(S)
    PROVE  Cardinality(Quotes(s)) \in Nat
  <1>1. Quotes(s) \subseteq 1..Len(s) /\ IsFiniteSet(1..Len(s))
    BY FS_Interval DEF Quotes
  <1> QED
    BY <1>1, FS_Subset, FS_CardinalityType

(* What a string means is a string.                                        *)
LEMMA MeaningType ==
    ASSUME NEW s \in Seq(Chars)
    PROVE  Meaning(s) \in Seq(Chars)
  <1>1. CASE s = <<>>
    BY <1>1, MeaningEnd
  <1>2. CASE s # <<>>
    BY <1>2, MeaningStep
  <1> QED
    BY <1>1, <1>2

(* A handler that lays down more bytes has laid down both.                 *)
LEMMA LaidMore ==
    ASSUME IInv, NEW done, Laid(done), NEW bytes, IsSeq(bytes), NEW left, Lay(bytes, left)
    PROVE  Laid(done \o bytes)' /\ IsSegment(data)'
  <1>1. data_offset \in Nat /\ Len(done) \in Nat /\ Len(bytes) \in Nat
    BY DEF IInv, TypeOK, Laid, IsSeq
  <1>2. IsSeq(done \o bytes) /\ Len(done \o bytes) = Len(done) + Len(bytes)
    <2>1. PICK S : done \in Seq(S)
      BY DEF Laid, IsSeq
    <2>2. PICK U : bytes \in Seq(U)
      BY DEF IsSeq
    <2>3. done \in Seq(S \cup U) /\ bytes \in Seq(S \cup U)
      BY <2>1, <2>2
    <2>4. done \o bytes \in Seq(S \cup U)
      BY <2>3
    <2>5. Len(done \o bytes) = Len(done) + Len(bytes)
      BY <2>3
    <2> QED
      BY <2>4, <2>5 DEF IsSeq
  <1>3. /\ data' = Put(Put(before, data_offset, done), data_offset + Len(done), bytes)
        /\ current_size' = (data_offset + Len(done)) + Len(bytes)
        /\ before' = before /\ data_offset' = data_offset
    BY DEF Lay, Laid
  <1>4. data' = Put(before, data_offset, done \o bytes)
    <2>1. IsSeq(done)
      BY DEF Laid
    <2>2. \A b : IsSeq(b) => Continues(before, data_offset, done, b)
      BY <1>1, <2>1, PutIs
    <2> QED
      BY <1>3, <2>2 DEF Continues
  <1>5. IsSegment(data)'
    BY <1>1, <1>2, <1>4, PutIs
  <1> QED
    BY <1>1, <1>2, <1>3, <1>4, <1>5 DEF Laid

(* Nothing is laid down before the first directive.                        *)
LEMMA DInvInit ==
    ASSUME Init PROVE DInv
  BY InvInit DEF Init, DInv, Progress, IsSegment

(* A handler starts with nothing laid down.                                *)
LEMMA CallStep ==
    ASSUME DInv, Call
    PROVE  Progress'
  <1>1. /\ data' = data /\ before' = data /\ data_offset' = data_offset
        /\ current_size' = data_offset
        /\ directive' \in Directives
        /\ handler' \in Handlers \ {"none"}
    BY DEF Call, Handlers
  <1>2. directive'.args \in Seq(Chars)
    BY <1>1, DirectivesAssumption DEF Chars
  <1>3. IsSegment(data)' /\ IsSegment(before)'
    BY <1>1 DEF DInv, Progress, IsSegment
  <1>4. IsSeq(<<>>) /\ Len(<<>>) = 0
    <2>1. <<>> \in Seq({}) /\ Len(<<>>) = 0
      OBVIOUS
    <2> QED
      BY <2>1, Zenon DEF IsSeq
  <1>5. Laid(<<>>)'
    <2>1. Put(before', data_offset', <<>>) = before'
      BY <1>1, <1>3, <1>4, PutIs DEF DInv, IInv, TypeOK
    <2> QED
      BY <1>1, <1>4, <2>1 DEF Laid, DInv, IInv, TypeOK
  <1>6. ASSUME handler' = "integer"
        PROVE  IsInteger(directive)' /\ IntegersDone(0)' /\ Len(directive.args)' \in Nat
    <2>1. directive'.name \in {".byte", ".half", ".word"} /\ args' = directive'.args
      BY <1>6 DEF Call
    <2>2. SubSeq(directive'.args, 1, Len(directive'.args)) = directive'.args
      BY <1>2
    <2>3. First(directive', 0) = <<>> /\ 0 * Width[directive'.name] = 0
      BY <1>2, <2>1, FirstIs, WidthIs DEF IsInteger
    <2> QED
      BY <1>2, <1>4, <1>5, <2>1, <2>2, <2>3 DEF IsInteger, IntegersDone
  <1>7. ASSUME handler' = "string"
        PROVE  IsString(directive)' /\ IF Unquoted' THEN Laid(<<>>)' ELSE StringDone'
    <2>1. IsString(directive)'
      BY <1>7 DEF Call, IsString
    <2>2. ASSUME ~Unquoted' PROVE StringDone'
      <3>1. Cardinality(Quotes(directive'.args)) > 1
        BY <1>2, <2>2, QuotesCounted DEF Unquoted
      <3>2. args' = Inside(directive'.args) /\ Inside(directive'.args) \in Seq(Chars)
        BY <1>2, <1>7, <3>1, InsideIs DEF Call
      <3>3. <<>> \o Meaning(args') = Meaning(args') /\ <<>> \in Seq(Chars)
        BY <3>2, MeaningType
      <3> QED
        BY <1>5, <3>2, <3>3 DEF StringDone
    <2> QED
      BY <1>5, <2>1, <2>2
  <1>8. ASSUME handler' = "space" PROVE IsSpace(directive)' /\ args' = directive'.args
    BY <1>8 DEF Call, IsSpace
  <1>9. ASSUME handler' = "unknown"
        PROVE  ~IsInteger(directive)' /\ ~IsString(directive)' /\ ~IsSpace(directive)'
    BY <1>9 DEF Call, IsInteger, IsString, IsSpace
  <1> QED
    BY <1>1, <1>2, <1>3, <1>5, <1>6, <1>7, <1>8, <1>9 DEF Progress

(* The bytes of one literal.                                               *)
LEMMA CopiedIs ==
    ASSUME NEW v, NEW step \in {1, 2, 4}
    PROVE  /\ IsSeq(Copied(v, step)) /\ Len(Copied(v, step)) = step
           /\ host.order = "little" => Copied(v, step) = [k \in 1..step |-> Byte(v, k - 1)]
  <1> DEFINE byte(k) == Byte(v, IF host.order = "little" THEN k - 1 ELSE 8 - k)
             S == {byte(k) : k \in 1..step}
  <1>1. Copied(v, step) = [k \in 1..step |-> byte(k)]
    BY DEF Copied
  <1>2. \A k \in 1..step : byte(k) \in S
    OBVIOUS
  <1>3. step \in Nat
    OBVIOUS
  <1>4. [k \in 1..step |-> byte(k)] \in Seq(S) /\ Len([k \in 1..step |-> byte(k)]) = step
    <2> HIDE DEF byte, S
    <2> QED
      BY <1>2, <1>3
  <1>5. ASSUME host.order = "little" PROVE Copied(v, step) = [k \in 1..step |-> Byte(v, k - 1)]
    BY <1>1, <1>5
  <1> HIDE DEF byte, S
  <1> QED
    BY <1>1, <1>4, <1>5, Zenon DEF IsSeq

(* The first of the literals that are left.                                *)
LEMMA SuffixIs ==
    ASSUME NEW s \in Seq(Chars), NEW m \in Nat, m < Len(s)
    PROVE  /\ Head(SubSeq(s, m + 1, Len(s))) = s[m + 1]
           /\ Tail(SubSeq(s, m + 1, Len(s))) = SubSeq(s, m + 2, Len(s))
  <1>1. /\ Len(s) \in Nat /\ m + 1 \in 1..Len(s) /\ Len(s) \in (m + 1)..Len(s)
        /\ (m + 1) + 1 = m + 2
    OBVIOUS
  <1>2. /\ Head(SubSeq(s, m + 1, Len(s))) = s[m + 1]
        /\ Tail(SubSeq(s, m + 1, Len(s))) = SubSeq(s, (m + 1) + 1, Len(s))
    BY <1>1, HeadTailOfSubSeq
  <1> QED
    BY <1>1, <1>2

(* A literal is laid down behind those in front of it.                     *)
LEMMA IntegerStep ==
    ASSUME DInv, Integer
    PROVE  Progress'
  <1> DEFINE d == directive
             n == Len(directive.args)
             w == Step(directive.name)
  <1> PICK bytes : bytes = Copied(Head(args), w)
    OBVIOUS
  <1> PICK left : left = Tail(args)
    OBVIOUS
  <1>1. /\ IInv /\ handler = "integer" /\ IsInteger(d) /\ d.args \in Seq(Chars)
        /\ IsSegment(before)
    BY DEF DInv, Progress, Integer
  <1>2. PICK m \in 0..n : IntegersDone(m)
    BY <1>1 DEF DInv, Progress
  <1>3. PICK done : /\ Laid(done) /\ Len(done) = m * Width[d.name]
                    /\ host.order = "little" => done = First(d, m)
    BY <1>2 DEF IntegersDone
  <1>4. n \in Nat /\ m \in Nat /\ m < n
    <2>1. args = SubSeq(d.args, m + 1, n) /\ args # <<>> /\ n \in Nat
      BY <1>1, <1>2 DEF IntegersDone, Integer
    <2> QED
      BY <1>1, <2>1
  <1>5. Head(args) = d.args[m + 1] /\ Tail(args) = SubSeq(d.args, m + 2, n)
    <2>1. args = SubSeq(d.args, m + 1, n)
      BY <1>2 DEF IntegersDone
    <2> QED
      BY <1>1, <1>4, <2>1, SuffixIs
  <1>6. w = Width[d.name] /\ w \in {1, 2, 4}
    BY <1>1, WidthIs DEF IsInteger
  <1>7. IsSeq(bytes) /\ Len(bytes) = w
    BY <1>6, CopiedIs
  <1>8. ASSUME host.order = "little" PROVE bytes = Bytes(d, m + 1)
    <2>1. bytes = [k \in 1..w |-> Byte(Head(args), k - 1)]
      BY <1>6, <1>8, CopiedIs
    <2> QED
      BY <1>5, <1>6, <2>1 DEF Bytes
  <1>9. Lay(bytes, left)
    BY DEF Integer
  <1>10. Laid(done \o bytes)' /\ IsSegment(data)'
    BY <1>1, <1>3, <1>7, <1>9, LaidMore
  <1>11. /\ host' = host /\ directive' = d /\ handler' = handler /\ before' = before
         /\ args' = SubSeq(d.args, m + 2, n)
    BY <1>5, <1>9 DEF Lay
  <1>12. Len(done \o bytes) = (m + 1) * Width[d.name]
    <2>1. Len(done \o bytes) = Len(done) + Len(bytes)
      <3>1. PICK S : done \in Seq(S)
        BY <1>3 DEF Laid, IsSeq
      <3>2. PICK U : bytes \in Seq(U)
        BY <1>7 DEF IsSeq
      <3>3. done \in Seq(S \cup U) /\ bytes \in Seq(S \cup U)
        BY <3>1, <3>2
      <3> QED
        BY <3>3
    <2>2. Len(done) = m * w /\ Len(bytes) = w
      BY <1>3, <1>6, <1>7
    <2> HIDE DEF w
    <2>3. m * w + w = (m + 1) * w
      <3>1. m \in Nat /\ (w = 1 \/ w = 2 \/ w = 4)
        BY <1>4, <1>6
      <3> QED
        BY <3>1
    <2> QED
      BY <1>6, <2>1, <2>2, <2>3
  <1>13. ASSUME host.order = "little" PROVE done \o bytes = First(d, m + 1)
    <2>1. First(d, m + 1) = First(d, (m + 1) - 1) \o Bytes(d, m + 1)
      BY <1>1, <1>4, FirstIs
    <2>2. (m + 1) - 1 = m
      BY <1>4
    <2> QED
      BY <1>3, <1>8, <1>13, <2>1, <2>2
  <1>14. \A j \in 1..(m + 1) : d.args[j] # Malformed
    <2>1. \A j \in 1..m : d.args[j] # Malformed
      BY <1>2 DEF IntegersDone
    <2>2. d.args[m + 1] # Malformed
      BY <1>5 DEF Integer
    <2> QED
      BY <1>4, <2>1, <2>2
  <1>15. IntegersDone(m + 1)'
    <2> HIDE DEF w
    <2>1. (m + 1) + 1 = m + 2
      BY <1>4
    <2> QED
      BY <1>10, <1>11, <1>12, <1>13, <1>14, <2>1 DEF IntegersDone
  <1>16. m + 1 \in 0..n
    BY <1>4
  <1>17. \E k \in 0..Len(directive'.args) : IntegersDone(k)'
    BY <1>11, <1>15, <1>16
  <1>18. IsSegment(before)' /\ IsInteger(directive)' /\ directive'.args \in Seq(Chars)
    BY <1>1, <1>11
  <1> QED
    BY <1>1, <1>10, <1>11, <1>17, <1>18 DEF Progress

(* What a round of the loop lays down stands for the characters it takes.  *)
LEMMA StringStep ==
    ASSUME DInv, StringRound
    PROVE  Progress'
  <1>1. /\ IInv /\ handler = "string" /\ ~Unquoted /\ args # <<>>
        /\ IsString(directive) /\ directive.args \in Seq(Chars) /\ args \in Seq(Chars)
        /\ IsSegment(before)
    BY DEF DInv, Progress, StringRound, IInv, TypeOK, Chars
  <1>2. PICK done \in Seq(Chars) :
            Laid(done) /\ done \o Meaning(args) = Meaning(Inside(directive.args))
    BY <1>1 DEF DInv, Progress, StringDone
  <1>3. /\ Rest(args) \in Seq(Chars) /\ Round(args) \in Seq(Chars)
        /\ Meaning(args) = Round(args) \o Meaning(Rest(args))
    BY <1>1, MeaningStep
  <1>4. Meaning(Rest(args)) \in Seq(Chars)
    BY <1>3, MeaningType
  <1> PICK bytes : bytes = Round(args)
    OBVIOUS
  <1> PICK left : left = Rest(args)
    OBVIOUS
  <1>5. Lay(bytes, left)
    BY DEF StringRound, Rest
  <1>6. IsSeq(bytes)
    BY <1>3, Zenon DEF IsSeq
  <1>7. Laid(done \o bytes)' /\ IsSegment(data)'
    BY <1>1, <1>2, <1>5, <1>6, LaidMore
  <1>8. /\ directive' = directive /\ handler' = handler /\ before' = before
        /\ args' = left
    BY <1>5 DEF Lay
  <1>9. done \o bytes \in Seq(Chars)
    BY <1>3
  <1>10. (done \o bytes) \o Meaning(left) = Meaning(Inside(directive.args))
    <2>1. (done \o bytes) \o Meaning(left) = done \o (bytes \o Meaning(left))
      BY SMTT(30), <1>3, <1>4, ConcatAssociative
    <2> QED
      BY <1>2, <1>3, <2>1
  <1>11. StringDone'
    BY <1>7, <1>8, <1>9, <1>10 DEF StringDone
  <1>12. ~Unquoted'
    BY <1>1, <1>8 DEF Unquoted
  <1>13. IsSegment(before)' /\ IsString(directive)' /\ directive'.args \in Seq(Chars)
    BY <1>1, <1>8
  <1> QED
    BY <1>1, <1>7, <1>8, <1>11, <1>12, <1>13 DEF Progress

(* Every way out of a handler leaves a segment behind.                     *)
LEMMA ReturnStep ==
    ASSUME DInv, NEW e, NEW offset, Return(e, offset),
           UNCHANGED data \/ IsSegment(data)'
    PROVE  Progress'
  <1>1. handler' = "none" /\ before' = before
    BY DEF Return
  <1>2. IsSegment(data)' /\ IsSegment(before)'
    BY <1>1 DEF DInv, Progress, IsSegment
  <1> QED
    BY <1>1, <1>2 DEF Progress

(* Every step keeps what is known of the bytes laid down.                  *)
LEMMA DInvStep ==
    ASSUME DInv, Next
    PROVE  DInv'
  <1>1. IInv'
    BY InvStep DEF DInv
  <1> SUFFICES Progress'
    BY <1>1 DEF DInv
  <1>2. CASE Call
    BY <1>2, CallStep
  <1>3. CASE UnknownDirective \/ IntegerMalformed \/ IntegerFull \/ IntegerEnd
             \/ StringMalformed \/ StringFull \/ SpaceMalformed \/ SpaceFull
    <2>1. UNCHANGED data /\ \E e, offset : Return(e, offset)
      BY <1>3, Zenon DEF UnknownDirective, IntegerMalformed, IntegerFull, IntegerEnd,
         StringMalformed, StringFull, SpaceMalformed, SpaceFull, Refuse
    <2> QED
      BY <2>1, ReturnStep
  <1>4. CASE Stopped
    BY <1>4 DEF Stopped, vars, DInv, Progress, IsSegment, Laid, IntegersDone, StringDone,
       IsInteger, IsString, IsSpace, Unquoted
  <1>5. CASE Integer
    BY <1>5, IntegerStep
  <1>6. CASE StringRound
    BY <1>6, StringStep
  <1>7. CASE StringEnd
    <2>1. IsSegment(data)' /\ \E e, offset : Return(e, offset)
      BY <1>7 DEF StringEnd, IsSegment, Put
    <2> QED
      BY <2>1, ReturnStep
  <1>8. CASE Space
    <2>1. \E e, offset : Return(e, offset)
      BY <1>8 DEF Space
    <2>2. PICK a : data' = Put(data, current_size, a)
      BY <1>8 DEF Space
    <2>3. IsSegment(data)'
      BY <2>2 DEF IsSegment, Put
    <2> QED
      BY <2>1, <2>3, ReturnStep
  <1> QED
    BY <1>2, <1>3, <1>4, <1>5, <1>6, <1>7, <1>8 DEF Next

(* At every step of a handler the bytes up to current_size are those of    *)
(* the operands it is through with.                                        *)
THEOREM LaidSoFar == Spec => []DInv
  <1>1. Init => DInv
    BY DInvInit
  <1>2. DInv /\ [Next]_vars => DInv'
    <2> SUFFICES ASSUME DInv, [Next]_vars PROVE DInv'
      OBVIOUS
    <2>1. CASE Next
      BY <2>1, DInvStep
    <2>2. CASE UNCHANGED vars
      <3>1. IInv'
        BY <2>2 DEF DInv, IInv, TypeOK, Within, Unquoted, vars
      <3>2. Progress'
        BY <2>2 DEF vars, DInv, Progress, IsSegment, Laid, IntegersDone, StringDone,
           IsInteger, IsString, IsSpace, Unquoted
      <3> QED
        BY <3>1, <3>2 DEF DInv
    <2> QED
      BY <2>1, <2>2
  <1> QED
    BY <1>1, <1>2, PTL DEF Spec

-----------------------------------------------------------------------------
(* The answers of parse_data_directive                                     *)

(* What the caller is told of a directive of n bytes.                      *)
Answers(n, fault) ==
    /\ err' = IF Fits(data_offset, n) THEN fault ELSE "ERR"
    /\ data_offset' = data_offset + (IF err' = "OK" THEN n ELSE 0)

Answered ==
    LET s == Summary(directive)
    IN  /\ err' = parse_data_directive(s, data_offset)
        /\ data_offset' = data_offset + (IF err' = "OK" THEN s.n ELSE 0)

(* A directive is of one kind.                                             *)
LEMMA OneKind ==
    ASSUME NEW d
    PROVE  /\ IsInteger(d) => ~IsString(d) /\ ~IsSpace(d)
           /\ IsString(d) => ~IsInteger(d) /\ ~IsSpace(d)
           /\ IsSpace(d) => ~IsInteger(d) /\ ~IsString(d)
  BY DEF IsInteger, IsString, IsSpace

(* The answer from the summary is the one from the size and the fault.     *)
LEMMA AnsweredIs ==
    ASSUME NEW n, NEW fault, Fault(directive) = fault,
           n = IF IsSpace(directive) /\ fault = "OK" THEN AsSize(directive.args[1])
               ELSE IF IsInteger(directive) \/ fault = "OK" THEN Len(Image(directive))
               ELSE 0,
           Answers(n, fault)
    PROVE  Answered
  <1>0. n = Room(directive)
    <2>1. CASE IsSpace(directive)
      BY <2>1, OneKind DEF Room
    <2>2. CASE IsString(directive)
      BY <2>2, OneKind DEF Room
    <2>3. CASE IsInteger(directive)
      BY <2>3, OneKind DEF Room
    <2>4. CASE ~IsSpace(directive) /\ ~IsString(directive) /\ ~IsInteger(directive)
      <3>1. fault = "UNKNOWN_PSEUDO"
        BY <2>4 DEF Fault
      <3> QED
        BY <2>4, <3>1 DEF Room
    <2> QED
      BY <2>1, <2>2, <2>3, <2>4
  <1>1. /\ Summary(directive).op = "directive" /\ Summary(directive).n = n
        /\ Summary(directive).parse = fault
    BY <1>0 DEF Summary, Directive, NoStatement
  <1> QED
    BY <1>1 DEF Answered, Answers, parse_data_directive

(* The literals in front of the first malformed one, counted.              *)
LEMMA GoodIs ==
    ASSUME NEW d, d.args \in Seq(Chars), NEW m \in 0..Len(d.args),
           \A j \in 1..m : d.args[j] # Malformed
    PROVE  /\ Cardinality(Good(d)) \in m..Len(d.args)
           /\ m = Len(d.args) \/ d.args[m + 1] = Malformed => Cardinality(Good(d)) = m
  <1> DEFINE n == Len(d.args)
  <1>1. n \in Nat /\ m \in Nat /\ DOMAIN d.args = 1..n
    OBVIOUS
  <1>2. \A k \in Nat : IsFiniteSet(1..k) /\ Cardinality(1..k) = k
    BY FS_Interval
  <1>3. Good(d) \subseteq 1..n /\ 1..m \subseteq Good(d)
    BY <1>1 DEF Good
  <1> HIDE DEF n
  <1>4. Cardinality(Good(d)) \in m..n
    <2>1. IsFiniteSet(Good(d)) /\ Cardinality(Good(d)) <= n
      BY <1>1, <1>2, <1>3, FS_Subset
    <2>2. Cardinality(1..m) <= Cardinality(Good(d))
      BY <1>3, <2>1, FS_Subset
    <2>3. Cardinality(Good(d)) \in Nat
      BY <2>1, FS_CardinalityType
    <2> QED
      BY <1>1, <1>2, <2>1, <2>2, <2>3
  <1>5. ASSUME m = n \/ d.args[m + 1] = Malformed PROVE Cardinality(Good(d)) = m
    <2>1. ASSUME NEW i \in Good(d) PROVE i \in 1..m
      <3>1. i \in 1..n /\ \A j \in 1..i : d.args[j] # Malformed
        BY <1>1, <2>1 DEF Good
      <3>2. ASSUME i > m PROVE FALSE
        <4>1. m + 1 \in 1..i /\ m # n
          BY <1>1, <3>1, <3>2
        <4> QED
          BY <1>5, <3>1, <4>1
      <3> QED
        BY <1>1, <3>1, <3>2
    <2>2. Good(d) = 1..m
      BY <1>3, <2>1
    <2> QED
      BY <1>1, <1>2, <2>2
  <1> QED
    BY <1>4, <1>5 DEF n

(* The image of the literals up to the first malformed one.                *)
LEMMA IntegerImage ==
    ASSUME NEW d, IsInteger(d), d.args \in Seq(Chars),
           NEW g \in 0..Len(d.args), g = Cardinality(Good(d))
    PROVE  Image(d) = First(d, g) /\ Len(Image(d)) = g * Width[d.name]
  <1>1. Image(d) = First(d, g)
    BY OneKind DEF Image, First, Bytes
  <1> QED
    BY <1>1, FirstIs

(* How a call of handle_data_integer ends.                                 *)
LEMMA IntegerAnswers ==
    ASSUME DInv, IntegerMalformed \/ IntegerFull \/ IntegerEnd
    PROVE  Answered
  <1> DEFINE d == directive
             n == Len(directive.args)
  <1> PICK w : w = Width[directive.name]
    OBVIOUS
  <1> PICK g : g = Cardinality(Good(directive))
    OBVIOUS
  <1>1. /\ handler = "integer" /\ IsInteger(d) /\ d.args \in Seq(Chars)
        /\ data_offset \in Nat /\ current_size <= DATA_SIZE /\ DATA_SIZE \in Nat
    BY DataSizeAssumption DEF DInv, IInv, TypeOK, Within, Progress, IntegerMalformed,
       IntegerFull, IntegerEnd
  <1>2. PICK m \in 0..n : IntegersDone(m)
    BY <1>1 DEF DInv, Progress
  <1>3. n \in Nat /\ m \in Nat /\ w \in {1, 2, 4} /\ Step(d.name) = w
    BY <1>1, WidthIs DEF IsInteger
  <1>4. current_size = data_offset + m * w
    BY <1>2 DEF IntegersDone, Laid
  <1>5. args = SubSeq(d.args, m + 1, n) /\ \A j \in 1..m : d.args[j] # Malformed
    BY <1>2 DEF IntegersDone
  <1>6. g \in m..n /\ (m = n \/ d.args[m + 1] = Malformed => g = m)
    BY <1>1, <1>5, GoodIs
  <1>7. Len(Image(d)) = g * w
    BY <1>1, <1>3, <1>6, IntegerImage
  <1>8. Fault(d) = IF g < n THEN "PARSE_ERROR" ELSE "OK"
    BY <1>1, OneKind DEF Fault
  <1>9. args # <<>> => m < n /\ Head(args) = d.args[m + 1]
    <2>1. CASE m < n
      BY <1>1, <1>3, <1>5, <2>1, SuffixIs
    <2>2. CASE m = n
      BY <1>1, <1>3, <1>5, <2>2
    <2> QED
      BY <1>3, <2>1, <2>2
  <1>10. CASE IntegerMalformed
    <2>1. g = m /\ g < n
      BY <1>6, <1>9, <1>10 DEF IntegerMalformed
    <2>2. Fits(data_offset, g * w)
      BY <1>1, <1>4, <2>1 DEF Fits
    <2>3. err' = "PARSE_ERROR" /\ data_offset' = data_offset + 0
      BY <1>1, <1>10 DEF IntegerMalformed, Refuse, Return
    <2>4. Answers(g * w, "PARSE_ERROR")
      BY <2>2, <2>3 DEF Answers
    <2> QED
      BY <1>1, <1>7, <1>8, <2>1, <2>4, AnsweredIs, OneKind
  <1>11. CASE IntegerFull
    <2>1. m < n /\ d.args[m + 1] # Malformed /\ ~Fits(current_size, w)
      BY <1>3, <1>9, <1>11 DEF IntegerFull
    <2>2. g \in (m + 1)..n
      <3>1. \A j \in 1..(m + 1) : d.args[j] # Malformed
        BY <1>3, <1>5, <2>1
      <3>2. m + 1 \in 0..n
        BY <1>3, <2>1
      <3> QED
        BY <1>1, <3>1, <3>2, GoodIs
    <2>3. g * w >= m * w + w
      BY <1>3, <2>2
    <2>4. ~Fits(data_offset, g * w)
      <3>1. current_size + w > DATA_SIZE /\ m * w \in Nat /\ g * w \in Nat
        <4>1. m * w \in Nat
          BY <1>3
        <4>2. g \in Nat /\ g * w \in Nat
          BY <1>3, <2>2
        <4>3. PICK x \in Nat : x = m * w
          BY <4>1
        <4>4. current_size \in Nat /\ w \in Nat
          <5>1. current_size = data_offset + x /\ data_offset \in Nat
            BY <1>1, <1>4, <4>3
          <5> QED
            BY <1>3, <5>1
        <4>5. current_size + w > DATA_SIZE
          BY <1>1, <2>1, <4>4 DEF Fits
        <4> QED
          BY <4>1, <4>2, <4>5
      <3>2. PICK x \in Nat : x = m * w
        BY <3>1
      <3>3. PICK y \in Nat : y = g * w
        BY <3>1
      <3>4. y >= x + w /\ data_offset + x + w > DATA_SIZE
        BY <1>1, <1>4, <2>3, <3>1, <3>2, <3>3
      <3>5. \A a, b, c, e, f \in Nat : c >= b + e /\ a + b + e > f => a + c > f
        OBVIOUS
      <3>6. data_offset + y > DATA_SIZE
        <4>1. w \in Nat
          BY <1>3
        <4> QED
          BY <1>1, <3>2, <3>3, <3>4, <3>5, <4>1
      <3> QED
        BY <1>1, <3>3, <3>6 DEF Fits
    <2>5. err' = "ERR" /\ data_offset' = data_offset + 0
      BY <1>1, <1>11 DEF IntegerFull, Refuse, Return
    <2>6. Answers(g * w, Fault(d))
      BY <2>4, <2>5 DEF Answers
    <2> QED
      BY <1>1, <1>7, <2>6, AnsweredIs, OneKind
  <1>12. CASE IntegerEnd
    <2>1. m = n
      <3>1. Len(args) = 0 /\ args = SubSeq(d.args, m + 1, n)
        BY <1>5, <1>12 DEF IntegerEnd
      <3>2. n \in Nat /\ m \in 0..n /\ \A i \in (m + 1)..n : d.args[i] \in Chars
        BY <1>1, <1>3
      <3>3. Len(SubSeq(d.args, m + 1, n)) = IF m + 1 <= n THEN n - (m + 1) + 1 ELSE 0
        BY <3>2, SubSeqProperties
      <3> QED
        BY <3>1, <3>2, <3>3
    <2>2. g = m
      BY <1>6, <2>1
    <2>3. Fits(data_offset, g * w)
      BY <1>1, <1>4, <2>2 DEF Fits
    <2>4. err' = "OK" /\ data_offset' = current_size
      BY <1>12 DEF IntegerEnd, Refuse, Return
    <2>5. Answers(g * w, "OK")
      BY <1>4, <2>2, <2>3, <2>4 DEF Answers
    <2>6. Fault(d) = "OK"
      BY <1>3, <1>8, <2>1, <2>2
    <2> QED
      BY <1>1, <1>7, <2>5, <2>6, AnsweredIs, OneKind
  <1> QED
    BY <1>10, <1>11, <1>12

(* What a string is when it is all laid down.                              *)
LEMMA StringImage ==
    ASSUME NEW d, IsString(d), d.args \in Seq(Chars), Cardinality(Quotes(d.args)) > 1
    PROVE  /\ Meaning(Inside(d.args)) \in Seq(Chars)
           /\ Image(d) = Meaning(Inside(d.args)) \o <<0>>
           /\ Len(Image(d)) = Len(Meaning(Inside(d.args))) + 1
           /\ Fault(d) = "OK"
  <1>1. Inside(d.args) \in Seq(Chars)
    BY InsideIs
  <1>2. Meaning(Inside(d.args)) \in Seq(Chars)
    BY <1>1, MeaningType
  <1>3. Image(d) = Append(Meaning(Inside(d.args)), 0)
    BY OneKind DEF Image
  <1>4. 0 \in Chars
    BY DEF Chars
  <1>5. /\ Append(Meaning(Inside(d.args)), 0) = Meaning(Inside(d.args)) \o <<0>>
        /\ Len(Append(Meaning(Inside(d.args)), 0)) = Len(Meaning(Inside(d.args))) + 1
    BY <1>2, <1>4, AppendIsConcat, AppendProperties
  <1>6. Fault(d) = "OK"
    <2>1. Cardinality(Quotes(d.args)) \in Nat
      BY QuotesCounted
    <2> QED
      BY <2>1, OneKind DEF Fault
  <1> QED
    BY <1>2, <1>3, <1>5, <1>6

(* How a call of handle_data_string ends.                                  *)
LEMMA StringAnswers ==
    ASSUME DInv, StringMalformed \/ StringFull \/ StringEnd
    PROVE  Answered
  <1> DEFINE d == directive
  <1>1. /\ handler = "string" /\ IsString(d) /\ d.args \in Seq(Chars)
        /\ data_offset \in Nat /\ data_offset <= DATA_SIZE /\ DATA_SIZE \in Nat
        /\ Cardinality(Quotes(d.args)) \in Nat
    BY DataSizeAssumption, QuotesCounted DEF DInv, IInv, TypeOK, Within, Progress,
       StringMalformed, StringFull, StringEnd
  <1>2. CASE StringMalformed
    <2>1. Fault(d) = "PARSE_ERROR"
      BY <1>1, <1>2, OneKind DEF Fault, StringMalformed, Unquoted
    <2>2. current_size = data_offset /\ Fits(data_offset, 0)
      BY <1>1, <1>2 DEF DInv, IInv, Within, StringMalformed, Fits
    <2>3. err' = "PARSE_ERROR" /\ data_offset' = data_offset + 0
      BY <1>1, <1>2 DEF StringMalformed, Refuse, Return
    <2>4. Answers(0, "PARSE_ERROR")
      BY <2>2, <2>3 DEF Answers
    <2> QED
      BY <1>1, <2>1, <2>4, AnsweredIs, OneKind
  <1>3. CASE StringFull \/ StringEnd
    <2>1. Cardinality(Quotes(d.args)) > 1 /\ ~Unquoted
      BY <1>1, <1>3 DEF StringFull, StringEnd, Unquoted
    <2>2. PICK done \in Seq(Chars) :
              Laid(done) /\ done \o Meaning(args) = Meaning(Inside(directive.args))
      BY <1>1, <2>1 DEF DInv, Progress, StringDone
    <2>3. args \in Seq(Chars) /\ Meaning(args) \in Seq(Chars)
      BY <1>1, MeaningType DEF DInv, IInv, TypeOK, Chars
    <2> PICK len : len = Len(Image(d))
      OBVIOUS
    <2>4. len = Len(done) + Len(Meaning(args)) + 1 /\ Fault(d) = "OK"
      <3>1. Len(done \o Meaning(args)) = Len(done) + Len(Meaning(args))
        BY <2>2, <2>3
      <3> QED
        BY <1>1, <2>1, <2>2, <3>1, StringImage
    <2>5. Len(done) \in Nat /\ Len(Meaning(args)) \in Nat
      BY <2>2, <2>3
    <2>6. current_size = data_offset + Len(done)
      BY <2>2 DEF Laid
    <2>7. CASE StringFull
      <3>1. current_size >= DATA_SIZE
        BY <2>7 DEF StringFull
      <3>2. ~Fits(data_offset, len)
        BY <1>1, <2>4, <2>5, <2>6, <3>1 DEF Fits
      <3>3. err' = "ERR" /\ data_offset' = data_offset + 0
        BY <1>1, <2>7 DEF StringFull, Refuse, Return
      <3>4. Answers(len, "OK")
        BY <3>2, <3>3 DEF Answers
      <3> QED
        BY <1>1, <2>4, <3>4, AnsweredIs, OneKind
    <2>8. CASE StringEnd
      <3>1. Len(Meaning(args)) = 0 /\ current_size < DATA_SIZE
        BY <2>8, MeaningEnd DEF StringEnd
      <3>2. Fits(data_offset, len) /\ current_size + 1 = data_offset + len
        BY <1>1, <2>4, <2>5, <2>6, <3>1 DEF Fits
      <3>3. err' = "OK" /\ data_offset' = current_size + 1
        BY <2>8 DEF StringEnd, Return
      <3>4. Answers(len, "OK")
        BY <3>2, <3>3 DEF Answers
      <3> QED
        BY <1>1, <2>4, <3>4, AnsweredIs, OneKind
    <2> QED
      BY <1>3, <2>7, <2>8
  <1> QED
    BY <1>2, <1>3

(* How a call of handle_data_space ends.                                   *)
LEMMA SpaceAnswers ==
    ASSUME DInv, SpaceMalformed \/ SpaceFull \/ Space
    PROVE  Answered
  <1> DEFINE d == directive
  <1>1. /\ handler = "space" /\ IsSpace(d) /\ d.args \in Seq(Chars) /\ args = d.args
        /\ data_offset \in Nat /\ data_offset <= DATA_SIZE /\ DATA_SIZE \in Nat
        /\ current_size = data_offset
    BY DataSizeAssumption DEF DInv, IInv, TypeOK, Within, Progress, SpaceMalformed,
       SpaceFull, Space
  <1>2. Fault(d) = IF SpaceWellFormed THEN "OK" ELSE "PARSE_ERROR"
    BY <1>1, OneKind DEF Fault, SpaceWellFormed
  <1>3. CASE SpaceMalformed
    <2>1. Fault(d) = "PARSE_ERROR"
      BY <1>2, <1>3 DEF SpaceMalformed
    <2>2. Fits(data_offset, 0)
      BY <1>1 DEF Fits
    <2>3. err' = "PARSE_ERROR" /\ data_offset' = data_offset + 0
      BY <1>1, <1>3 DEF SpaceMalformed, Refuse, Return
    <2>4. Answers(0, "PARSE_ERROR")
      BY <2>2, <2>3 DEF Answers
    <2> QED
      BY <1>1, <2>1, <2>4, AnsweredIs, OneKind
  <1>4. CASE SpaceFull \/ Space
    <2> PICK n : n = AsSize(d.args[1])
      OBVIOUS
    <2>1. Fault(d) = "OK" /\ n \in Nat
      <3>1. SpaceWellFormed
        BY <1>4 DEF SpaceFull, Space
      <3>2. /\ 1 \in 1..Len(d.args) /\ d.args[1] \in Chars
            /\ d.args[1] # Malformed /\ d.args[1] >= 0
        BY <1>1, <3>1 DEF SpaceWellFormed
      <3>3. d.args[1] \in Int
        BY <3>2 DEF Chars
      <3> QED
        BY <1>2, <3>1, <3>2, <3>3, SizeIs DEF DInv, IInv
    <2>3. CASE SpaceFull
      <3>1. ~Fits(data_offset, n)
        BY <1>1, <2>1, <2>3 DEF SpaceFull, Fits
      <3>2. err' = "ERR" /\ data_offset' = data_offset + 0
        BY <1>1, <2>3 DEF SpaceFull, Refuse, Return
      <3>3. Answers(n, "OK")
        BY <3>1, <3>2 DEF Answers
      <3> QED
        BY <1>1, <2>1, <3>3, AnsweredIs
    <2>4. CASE Space
      <3>1. Fits(data_offset, n)
        BY <1>1, <2>1, <2>4 DEF Space, Fits
      <3>2. err' = "OK" /\ data_offset' = data_offset + n
        BY <1>1, <2>4 DEF Space, Return
      <3>3. Answers(n, "OK")
        BY <3>1, <3>2 DEF Answers
      <3> QED
        BY <1>1, <2>1, <3>3, AnsweredIs
    <2> QED
      BY <1>4, <2>3, <2>4
  <1> QED
    BY <1>3, <1>4

(* The answer to a directive of no known name.                             *)
LEMMA UnknownAnswers ==
    ASSUME DInv, UnknownDirective
    PROVE  Answered
  <1>1. /\ ~IsInteger(directive) /\ ~IsString(directive) /\ ~IsSpace(directive)
        /\ data_offset \in Nat /\ data_offset <= DATA_SIZE /\ DATA_SIZE \in Nat
    BY DataSizeAssumption DEF DInv, IInv, TypeOK, Within, Progress, UnknownDirective
  <1>2. Fault(directive) = "UNKNOWN_PSEUDO"
    BY <1>1 DEF Fault
  <1>3. Fits(data_offset, 0)
    BY <1>1 DEF Fits
  <1>4. err' = "UNKNOWN_PSEUDO" /\ data_offset' = data_offset + 0
    BY <1>1 DEF UnknownDirective, Refuse, Return
  <1>5. Answers(0, "UNKNOWN_PSEUDO")
    BY <1>3, <1>4 DEF Answers
  <1> QED
    BY <1>1, <1>2, <1>5, AnsweredIs, OneKind

(* A handler is left only by one of these steps.                           *)
LEMMA WaysOut ==
    ASSUME Next, Returns
    PROVE  \/ IntegerMalformed \/ IntegerFull \/ IntegerEnd
           \/ StringMalformed \/ StringFull \/ StringEnd
           \/ SpaceMalformed \/ SpaceFull \/ Space \/ UnknownDirective
  <1>1. ~Call
    BY DEF Call, Returns
  <1>2. ~Stopped
    BY DEF Stopped, Returns
  <1>3. ~Integer /\ ~StringRound
    BY DEF Integer, StringRound, Lay, Returns
  <1> QED
    BY <1>1, <1>2, <1>3 DEF Next

(* Both passes get the answer of Directive, whatever the directive and     *)
(* wherever it starts.                                                     *)
THEOREM Contract == Spec => KeepsContract
  <1>1. DInv /\ [Next]_vars => [Returns => Answered]_vars
    BY WaysOut, IntegerAnswers, StringAnswers, SpaceAnswers, UnknownAnswers
  <1>2. Spec => [][Returns => Answered]_vars
    BY <1>1, LaidSoFar, PTL DEF Spec
  <1> QED
    BY <1>2 DEF KeepsContract, Answered

-----------------------------------------------------------------------------
(* The bytes a directive leaves behind                                     *)

Behind ==
    /\ /\ err' = "OK"
       /\ IsInteger(directive) => host.order = "little"
       /\ IsSpace(directive) => directive.args[1] < host.size_t
       => data' = Put(before, data_offset, Image(directive))
    /\ \A c \in Cells : c < data_offset => data'[c] = before[c]

(* A handler that returns leaves bytes in front of its offset alone.       *)
LEMMA InFront ==
    ASSUME IInv, NEW done, IsSeq(done), NEW d, d = Put(before, data_offset, done)
    PROVE  \A c \in Cells : c < data_offset => d[c] = before[c]
  <1>1. data_offset \in Nat
    BY DEF IInv, TypeOK
  <1>2. ASSUME NEW c \in Cells, c < data_offset
        PROVE  Put(before, data_offset, done)[c] = before[c]
    BY <1>1, <1>2, DataSizeAssumption DEF Put, Cells
  <1> QED
    BY <1>2

(* Whatever is in front of an error stays as it was.                       *)
LEMMA ErrorBehind ==
    ASSUME DInv, \/ IntegerMalformed \/ IntegerFull \/ StringMalformed \/ StringFull
                 \/ SpaceMalformed \/ SpaceFull \/ UnknownDirective
    PROVE  Behind
  <1>1. data' = data /\ err' # "OK" /\ handler # "none"
    BY DEF IntegerMalformed, IntegerFull, StringMalformed, StringFull, SpaceMalformed,
       SpaceFull, UnknownDirective, Refuse, Return
  <1>2. \E done : Laid(done)
    <2>1. CASE handler = "integer"
      BY <2>1 DEF DInv, Progress, IntegersDone
    <2>2. CASE handler = "string"
      BY <2>2 DEF DInv, Progress, StringDone
    <2>3. CASE handler \in {"space", "unknown"}
      BY <2>3, Zenon DEF DInv, Progress
    <2> QED
      BY <1>1, <2>1, <2>2, <2>3 DEF DInv, IInv, TypeOK, Handlers
  <1>3. PICK done : IsSeq(done) /\ data = Put(before, data_offset, done)
    BY <1>2 DEF Laid
  <1>4. \A c \in Cells : c < data_offset => data[c] = before[c]
    BY <1>3, InFront DEF DInv
  <1> QED
    BY <1>1, <1>4 DEF Behind

(* The integers of a directive, all of them in place.                      *)
LEMMA IntegerBehind ==
    ASSUME DInv, IntegerEnd
    PROVE  Behind
  <1> DEFINE d == directive
             n == Len(directive.args)
  <1>1. /\ handler = "integer" /\ IsInteger(d) /\ d.args \in Seq(Chars) /\ args = <<>>
        /\ data' = data
    BY DEF DInv, Progress, IntegerEnd, Refuse
  <1>2. PICK m \in 0..n : IntegersDone(m)
    BY <1>1 DEF DInv, Progress
  <1>3. n \in Nat /\ args = SubSeq(d.args, m + 1, n) /\ \A j \in 1..m : d.args[j] # Malformed
    BY <1>1, <1>2 DEF IntegersDone
  <1>4. m = n
    <2>1. n \in Nat /\ m \in 0..n /\ \A i \in (m + 1)..n : d.args[i] \in Chars
      BY <1>1
    <2>2. Len(SubSeq(d.args, m + 1, n)) = IF m + 1 <= n THEN n - (m + 1) + 1 ELSE 0
      BY <2>1, SubSeqProperties
    <2>3. Len(args) = 0 /\ args = SubSeq(d.args, m + 1, n)
      BY <1>1, <1>3
    <2> QED
      BY <2>1, <2>2, <2>3
  <1>5. PICK done : Laid(done) /\ (host.order = "little" => done = First(d, m))
    BY <1>2 DEF IntegersDone
  <1>6. Cardinality(Good(d)) = m
    BY <1>1, <1>3, <1>4, GoodIs
  <1>7. Image(d) = First(d, m)
    BY <1>1, <1>6, IntegerImage
  <1>8. data' = Put(before, data_offset, done) /\ IsSeq(done)
    BY <1>1, <1>5 DEF Laid
  <1>9. \A c \in Cells : c < data_offset => data[c] = before[c]
    BY <1>1, <1>8, InFront DEF DInv
  <1> QED
    BY <1>1, <1>5, <1>7, <1>8, <1>9 DEF Behind

(* The characters of a string and its terminator, in place.                *)
LEMMA StringBehind ==
    ASSUME DInv, StringEnd
    PROVE  Behind
  <1> DEFINE d == directive
  <1>1. /\ handler = "string" /\ IsString(d) /\ d.args \in Seq(Chars) /\ args = <<>>
        /\ Cardinality(Quotes(d.args)) \in Nat /\ ~Unquoted /\ data_offset \in Nat
        /\ data' = Put(data, current_size, <<0>>)
    BY QuotesCounted DEF DInv, IInv, TypeOK, Progress, StringEnd
  <1>2. Cardinality(Quotes(d.args)) > 1
    BY <1>1 DEF Unquoted
  <1>3. PICK done \in Seq(Chars) :
            Laid(done) /\ done \o Meaning(args) = Meaning(Inside(directive.args))
    BY <1>1 DEF DInv, Progress, StringDone
  <1>4. done = Meaning(Inside(d.args))
    <2>1. done \o <<>> = done
      BY <1>3, ConcatEmptySeq
    <2> QED
      BY <1>1, <1>3, <2>1, MeaningEnd
  <1>5. Image(d) = done \o <<0>>
    BY <1>1, <1>2, <1>4, StringImage
  <1>6. IsSeq(done) /\ IsSeq(<<0>>)
    <2>1. <<0>> \in Seq({0})
      OBVIOUS
    <2> QED
      BY <1>3, <2>1, Zenon DEF IsSeq, Laid
  <1>7. data' = Put(before, data_offset, Image(d))
    <2>1. Continues(before, data_offset, done, <<0>>)
      BY <1>1, <1>6, PutIs
    <2> QED
      BY <1>1, <1>3, <1>5, <2>1 DEF Continues, Laid
  <1>8. IsSeq(Image(d))
    <2>1. 0 \in Chars
      BY DEF Chars
    <2>2. done \o <<0>> \in Seq(Chars)
      BY <1>3, <2>1
    <2> QED
      BY <1>5, <2>2, Zenon DEF IsSeq
  <1>9. \A c \in Cells : c < data_offset =>
            Put(before, data_offset, Image(d))[c] = before[c]
    BY <1>8, InFront DEF DInv
  <1> QED
    BY <1>7, <1>9 DEF Behind

(* The bytes of a gap, all of them filled.                                 *)
LEMMA SpaceBehind ==
    ASSUME DInv, Space
    PROVE  Behind
  <1> DEFINE d == directive
  <1>1. /\ IsSpace(d) /\ args = d.args /\ Laid(<<>>) /\ IsSegment(before)
        /\ data_offset \in Nat /\ current_size = data_offset
        /\ d.args[1] \in Nat
    BY DEF DInv, IInv, TypeOK, Within, Progress, Space, SpaceWellFormed
  <1> PICK n : n = AsSize(d.args[1])
    OBVIOUS
  <1>0. n \in Nat /\ (d.args[1] < host.size_t => n = d.args[1])
    BY <1>1, SizeIs DEF DInv, IInv
  <1> PICK a : a = [k \in 1..n |-> SpaceFill]
    OBVIOUS
  <1>2. d.args[1] < host.size_t => Image(d) = a
    BY <1>0, <1>1, OneKind DEF Image, SpaceFill
  <1>3. data = before
    BY <1>1, PutIs DEF Laid
  <1>4. data' = Put(before, data_offset, a)
    BY <1>1, <1>3 DEF Space
  <1>5. IsSeq(a)
    <2>1. a \in Seq({SpaceFill})
      BY <1>0
    <2> QED
      BY <2>1, Zenon DEF IsSeq
  <1>6. \A c \in Cells : c < data_offset => Put(before, data_offset, a)[c] = before[c]
    BY <1>5, InFront DEF DInv
  <1> QED
    BY <1>1, <1>2, <1>4, <1>6 DEF Behind

(* What a directive leaves behind is what it means, for operands of any    *)
(* number and values, with the exceptions LaidDown makes for the host.      *)
THEOREM InMemory == Spec => LaidDown
  <1>1. DInv /\ [Next]_vars => [Returns => Behind]_vars
    BY WaysOut, ErrorBehind, IntegerBehind, StringBehind, SpaceBehind
  <1>2. Spec => [][Returns => Behind]_vars
    BY <1>1, LaidSoFar, PTL DEF Spec
  <1> QED
    BY <1>2 DEF LaidDown, Behind
=============================================================================
