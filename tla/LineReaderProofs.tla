-------------------------- MODULE LineReaderProofs --------------------------
(***************************************************************************)
(* Theorems of module LineReader, for files of every length and buffers of *)
(* every size that holds a character.                                      *)
(***************************************************************************)
EXTENDS LineReader, WellFoundedInduction, TLAPS

(* How far fgets has come.                                                 *)
Position == Len(text) - Len(rest)

TypeOK ==
    /\ text \in Seq(Characters)
    /\ rest \in Seq(Characters)
    /\ Len(rest) <= Len(text)
    /\ \A i \in DOMAIN rest : rest[i] = text[Position + i]
    /\ line \in Seq(Characters)
    /\ step \in {"fgets", "trim", "inspect", "eof"}
    /\ delivered \in Seq([kind : {"dot", "content"}, line : Seq(Characters)])

(* The lines that begin before p.                                          *)
Before(p) == {b \in Breaks : b < p}

(* Where lines fit, fgets stops where one begins or in front of what ends  *)
(* it, the newline of a line that fills the buffer included.               *)
Stands ==
    Position \in Breaks \/ Position = Len(text) \/ text[Position + 1] = "newline"

(* What string_trim leaves of a line.                                      *)
Trimmed(s, l) == IF s = <<>> THEN Blank(l) ELSE Stripped(s, l)

(* A whole line is in the buffer.                                          *)
HoldsLine(b) ==
    /\ b < Position /\ Position <= End(b)
    /\ Delivered(Before(b))
    /\ step = "trim" => line \in {Line(b), Append(Line(b), "newline")}
    /\ step = "inspect" => Trimmed(line, Line(b))

(* The newline of the line before is.                                      *)
HoldsNewline ==
    /\ Delivered(Before(Position))
    /\ step = "trim" => line = <<"newline">>
    /\ step = "inspect" => line = <<>>

Progress ==
    /\ Stands
    /\ step \in {"fgets", "eof"} => Delivered(Before(Position))
    /\ step = "eof" => rest = <<>>
    /\ step \in {"trim", "inspect"} => HoldsNewline \/ \E b \in Breaks : HoldsLine(b)

(* The inductive invariant.                                                *)
IInv == TypeOK /\ (Fits => Progress)

-----------------------------------------------------------------------------
(* Positions                                                               *)

(* Induction, for a set in place of a predicate: the natural numbers are   *)
(* well-founded, so a number outside the set would have a least one.       *)
LEMMA SetInduction ==
    ASSUME NEW T, 0 \in T, \A n \in Nat : n \in T => n + 1 \in T
    PROVE  \A n \in Nat : n \in T
  <1> DEFINE R == {p \in Nat \X Nat : p[1] < p[2]}
             U == Nat \ T
  <1>1. IsWellFoundedOn(R, Nat)
    BY NatLessThanWellFounded DEF OpToRel
  <1>2. ASSUME U # {} PROVE FALSE
    <2>1. PICK n \in U : \A m \in U : ~(<<m, n>> \in R)
      <3>1. U \subseteq Nat
        OBVIOUS
      <3> HIDE DEF R, U
      <3> QED
        BY <1>1, <1>2, <3>1, WFMin
    <2>2. n # 0 /\ n \in Nat
      OBVIOUS
    <2>3. n - 1 \in Nat /\ n - 1 \notin T
      BY <2>2
    <2>4. <<n - 1, n>> \in R
      BY <2>2, <2>3
    <2> QED
      BY <2>1, <2>3, <2>4
  <1> QED
    BY <1>2

(* The first and the last of some positions of a sequence.                 *)
LEMMA FirstAndLast ==
    ASSUME NEW n \in Nat, NEW Q, Q \subseteq 1..n, Q # {}
    PROVE  /\ Min(Q) \in Q /\ \A i \in Q : Min(Q) <= i
           /\ Max(Q) \in Q /\ \A i \in Q : i <= Max(Q)
  <1>1. \E x \in Q : \A y \in Q : x <= y
    <2> DEFINE T == {m \in Nat : \A i \in Q : i <= m => \E x \in Q : \A y \in Q : x <= y}
    <2>1. 0 \in T
      OBVIOUS
    <2>2. ASSUME NEW m \in Nat, m \in T PROVE m + 1 \in T
      <3> SUFFICES ASSUME NEW i \in Q, i <= m + 1
                   PROVE  \E x \in Q : \A y \in Q : x <= y
        OBVIOUS
      <3>1. CASE \A y \in Q : i <= y
        BY <3>1
      <3>2. CASE \E y \in Q : y < i
        BY <2>2, <3>2
      <3> QED
        BY <3>1, <3>2
    <2>3. \A m \in Nat : m \in T
      <3> HIDE DEF T
      <3> QED
        BY <2>1, <2>2, SetInduction
    <2>4. PICK i \in Q : TRUE
      OBVIOUS
    <2>5. i \in T
      BY <2>3
    <2> QED
      BY <2>5
  <1>2. \E x \in Q : \A y \in Q : x >= y
    <2> DEFINE T == {m \in Nat : \A i \in Q : i >= n - m => \E x \in Q : \A y \in Q : x >= y}
    <2>1. 0 \in T
      OBVIOUS
    <2>2. ASSUME NEW m \in Nat, m \in T PROVE m + 1 \in T
      <3> SUFFICES ASSUME NEW i \in Q, i >= n - (m + 1)
                   PROVE  \E x \in Q : \A y \in Q : x >= y
        OBVIOUS
      <3>1. CASE \A y \in Q : i >= y
        BY <3>1
      <3>2. CASE \E y \in Q : y > i
        BY <2>2, <3>2
      <3> QED
        BY <3>1, <3>2
    <2>3. \A m \in Nat : m \in T
      <3> HIDE DEF T
      <3> QED
        BY <2>1, <2>2, SetInduction
    <2>4. PICK i \in Q : TRUE
      OBVIOUS
    <2>5. n \in T /\ i >= n - n
      BY <2>3
    <2> QED
      BY <2>5
  <1> QED
    BY <1>1, <1>2 DEF Min, Max


(* fgets takes at least one character and at most what the buffer holds,   *)
(* and stops at the first newline.                                         *)
LEMMA FgetsIs ==
    ASSUME NEW s \in Seq(Characters), s # <<>>
    PROVE  /\ fgets(s) \in 1..Len(s) /\ fgets(s) <= LINE_BUF_LEN - 1
           /\ \A i \in 1..(fgets(s) - 1) : s[i] # "newline"
           /\ fgets(s) \in {Len(s), LINE_BUF_LEN - 1} \/ s[fgets(s)] = "newline"
  <1> DEFINE Q == {Len(s), LINE_BUF_LEN - 1} \cup {i \in DOMAIN s : s[i] = "newline"}
             n == Len(s) + LINE_BUF_LEN
  <1>1. Len(s) \in Nat /\ Len(s) > 0 /\ DOMAIN s = 1..Len(s)
    OBVIOUS
  <1>2. n \in Nat /\ Q \subseteq 1..n /\ Q # {}
    BY <1>1, BufferAssumption
  <1>3. fgets(s) = Min(Q)
    BY DEF fgets
  <1>4. Min(Q) \in Q /\ \A i \in Q : Min(Q) <= i
    <2> HIDE DEF Q, n
    <2> QED
      BY <1>2, FirstAndLast
  <1>5. fgets(s) \in Q /\ \A i \in Q : fgets(s) <= i
    BY <1>3, <1>4
  <1>6. Len(s) \in Q /\ LINE_BUF_LEN - 1 \in Q /\ LINE_BUF_LEN - 1 \in Nat \ {0}
    BY BufferAssumption
  <1>7. fgets(s) \in 1..Len(s) /\ fgets(s) <= LINE_BUF_LEN - 1
    <2>1. fgets(s) \in 1..n /\ fgets(s) <= Len(s) /\ fgets(s) <= LINE_BUF_LEN - 1
      <3> HIDE DEF Q, n
      <3> QED
        BY <1>2, <1>5, <1>6
    <2> QED
      BY <1>1, <1>2, <2>1
  <1>8. ASSUME NEW i \in 1..(fgets(s) - 1) PROVE s[i] # "newline"
    <2>1. i \in DOMAIN s /\ i < fgets(s)
      BY <1>1, <1>7
    <2> QED
      BY <1>5, <1>7, <2>1
  <1>9. fgets(s) \in {Len(s), LINE_BUF_LEN - 1} \/ s[fgets(s)] = "newline"
    BY <1>5
  <1> QED
    BY <1>7, <1>8, <1>9

(* A line ends behind its beginning, at the next newline or at the end of  *)
(* the file, and has no newline in it.                                     *)
LEMMA LineIs ==
    ASSUME text \in Seq(Characters), NEW b \in Breaks
    PROVE  /\ b \in 0..Len(text) /\ End(b) \in (b + 1)..(Len(text) + 1)
           /\ End(b) \in Breaks \cup {Len(text) + 1}
           /\ \A i \in Breaks : i <= b \/ End(b) <= i
           /\ Line(b) \in Seq(Characters) /\ Len(Line(b)) = End(b) - 1 - b
           /\ \A k \in 1..Len(Line(b)) : Line(b)[k] = text[b + k] /\ Line(b)[k] # "newline"
  <1> DEFINE Q == {Len(text) + 1} \cup {i \in Breaks : i > b}
             n == Len(text) + 1
  <1>1. Len(text) \in Nat /\ DOMAIN text = 1..Len(text)
    OBVIOUS
  <1>2. Breaks \subseteq 0..Len(text)
    BY <1>1 DEF Breaks
  <1>3. n \in Nat /\ Q \subseteq 1..n /\ Q # {}
    <2>1. n \in Nat /\ n \in 1..n /\ n \in Q
      BY <1>1
    <2>2. ASSUME NEW i \in Breaks, i > b PROVE i \in 1..n
      <3>1. i \in Nat /\ i <= Len(text) /\ b \in Nat
        BY <1>1, <1>2
      <3> QED
        BY <1>1, <2>2, <3>1
    <2> QED
      BY <2>1, <2>2
  <1>4. End(b) = Min(Q)
    BY DEF End
  <1>5. Min(Q) \in Q /\ \A i \in Q : Min(Q) <= i
    <2> HIDE DEF Q, n
    <2> QED
      BY <1>3, FirstAndLast
  <1>6. b \in 0..Len(text) /\ End(b) \in Q /\ \A i \in Q : End(b) <= i
    BY <1>2, <1>4, <1>5
  <1>7. End(b) \in (b + 1)..(Len(text) + 1)
    <2>1. CASE End(b) = Len(text) + 1
      BY <1>1, <1>6, <2>1
    <2>2. CASE End(b) \in Breaks /\ End(b) > b
      <3>1. \A i \in Breaks : i \in Nat /\ i <= Len(text)
        BY <1>1, <1>2
      <3>2. b \in Nat /\ End(b) \in Nat /\ End(b) <= Len(text) /\ End(b) > b
        BY <2>2, <3>1
      <3> QED
        BY <1>1, <3>2
    <2> QED
      BY <1>6, <2>1, <2>2
  <1>8. End(b) \in Breaks \cup {Len(text) + 1}
    BY <1>6
  <1>9. \A i \in Breaks : i <= b \/ End(b) <= i
    BY <1>2, <1>6
  <1> HIDE DEF Q, n
  <1>10. PICK e : e = End(b) - 1
    OBVIOUS
  <1>11. e \in b..Len(text)
    BY <1>1, <1>6, <1>7, <1>10
  <1>12. Line(b) = SubSeq(text, b + 1, e)
    BY <1>10 DEF Line
  <1>13. /\ Line(b) \in Seq(Characters) /\ Len(Line(b)) = e - b
         /\ \A k \in 1..(e - b) : Line(b)[k] = text[b + k]
    BY <1>1, <1>6, <1>11, <1>12
  <1>14. \A k \in 1..(e - b) : text[b + k] # "newline"
    <2> SUFFICES ASSUME NEW k \in 1..(e - b), text[b + k] = "newline"
                 PROVE  FALSE
      OBVIOUS
    <2>1. b + k \in 1..Len(text) /\ b + k <= e /\ b + k > b
      BY <1>1, <1>6, <1>11
    <2>2. b + k \in Breaks
      BY <1>1, <2>1 DEF Breaks
    <2>3. e + 1 <= b + k
      BY <1>6, <1>7, <1>9, <1>10, <2>1, <2>2
    <2> QED
      BY <1>6, <1>11, <2>1, <2>3
  <1>15. Len(Line(b)) = End(b) - 1 - b
    BY <1>6, <1>7, <1>10, <1>13
  <1>16. \A k \in 1..Len(Line(b)) : Line(b)[k] = text[b + k] /\ Line(b)[k] # "newline"
    BY <1>13, <1>14
  <1> QED
    BY <1>6, <1>7, <1>8, <1>9, <1>13, <1>15, <1>16

-----------------------------------------------------------------------------
(* Lines in the buffer                                                     *)

(* t is s from i to j, with white space only around it.                    *)
Trims(s, t, i, j) ==
    /\ i \in 1..Len(s) /\ j \in i..Len(s)
    /\ ~isspace(s[i]) /\ ~isspace(s[j])
    /\ \A k \in 1..Len(s) : isspace(s[k]) \/ k \in i..j
    /\ t \in Seq(Characters) /\ Len(t) = j + 1 - i
    /\ \A k \in 1..Len(t) : t[k] = s[i - 1 + k]

(* string_trim takes the white space off both ends.                        *)
LEMMA TrimIs ==
    ASSUME NEW s \in Seq(Characters)
    PROVE  IF \A k \in 1..Len(s) : isspace(s[k])
           THEN string_trim(s) = <<>>
           ELSE \E i, j \in 1..Len(s) : Trims(s, string_trim(s), i, j)
  <1> DEFINE Q == {i \in DOMAIN s : ~isspace(s[i])}
  <1>1. Len(s) \in Nat /\ DOMAIN s = 1..Len(s)
    OBVIOUS
  <1>2. string_trim(s) = IF Q = {} THEN <<>> ELSE SubSeq(s, Min(Q), Max(Q))
    BY DEF string_trim
  <1>3. CASE \A k \in 1..Len(s) : isspace(s[k])
    BY <1>1, <1>2, <1>3
  <1>4. CASE ~\A k \in 1..Len(s) : isspace(s[k])
    <2>1. Q \subseteq 1..Len(s) /\ Q # {}
      BY <1>1, <1>4
    <2>2. PICK i, j : i = Min(Q) /\ j = Max(Q)
      OBVIOUS
    <2>3. /\ i \in Q /\ \A k \in Q : i <= k
          /\ j \in Q /\ \A k \in Q : k <= j
      <3> HIDE DEF Q
      <3> QED
        BY <1>1, <2>1, <2>2, FirstAndLast
    <2>4. i \in 1..Len(s) /\ j \in 1..Len(s) /\ i <= j
      BY <2>1, <2>3
    <2>5. ~isspace(s[i]) /\ ~isspace(s[j])
      BY <2>3
    <2>6. \A k \in 1..Len(s) : isspace(s[k]) \/ k \in i..j
      <3> SUFFICES ASSUME NEW k \in 1..Len(s), ~isspace(s[k])
                   PROVE  k \in i..j
        OBVIOUS
      <3>1. k \in Q
        BY <1>1
      <3> HIDE DEF Q
      <3> QED
        BY <2>3, <2>4, <3>1
    <2>7. string_trim(s) = SubSeq(s, i, j)
      BY <1>2, <2>1, <2>2
    <2> HIDE DEF Q
    <2>8. /\ SubSeq(s, i, j) \in Seq(Characters) /\ Len(SubSeq(s, i, j)) = j + 1 - i
          /\ \A k \in 1..(j + 1 - i) : SubSeq(s, i, j)[k] = s[i - 1 + k]
      BY <1>1, <2>4
    <2>9. Trims(s, string_trim(s), i, j)
      BY <1>1, <2>4, <2>5, <2>6, <2>7, <2>8 DEF Trims
    <2> QED
      BY <1>4, <2>4, <2>9
  <1> QED
    BY <1>3, <1>4

(* A line with no newline in it.                                           *)
IsLine(l) == l \in Seq(Characters) /\ \A k \in 1..Len(l) : l[k] # "newline"

(* The newline behind a line makes no difference to string_trim.           *)
LEMMA TrimmedIs ==
    ASSUME NEW l, IsLine(l), NEW s \in {l, Append(l, "newline")}
    PROVE  string_trim(s) \in Seq(Characters) /\ Trimmed(string_trim(s), l)
  <1> DEFINE t == string_trim(s)
  <1>1. l \in Seq(Characters) /\ \A k \in 1..Len(l) : isspace(l[k]) <=> l[k] = "space"
    BY DEF IsLine, isspace
  <1>2. /\ s \in Seq(Characters) /\ Len(s) \in {Len(l), Len(l) + 1}
        /\ \A k \in 1..Len(l) : s[k] = l[k]
        /\ \A k \in 1..Len(s) : k \in 1..Len(l) \/ isspace(s[k])
    <2>1. CASE s = l
      BY <1>1, <2>1
    <2>2. CASE s = Append(l, "newline")
      <3>1. /\ s \in Seq(Characters) /\ Len(s) = Len(l) + 1 /\ s[Len(l) + 1] = "newline"
            /\ \A k \in 1..Len(l) : s[k] = l[k]
        BY <1>1, <2>2 DEF Characters
      <3> QED
        BY <1>1, <3>1 DEF isspace
    <2> QED
      BY <2>1, <2>2
  <1>3. CASE \A k \in 1..Len(s) : isspace(s[k])
    <2>1. t = <<>>
      BY <1>2, <1>3, TrimIs
    <2>2. Blank(l)
      BY <1>1, <1>2, <1>3 DEF Blank
    <2> QED
      BY <2>1, <2>2 DEF Trimmed
  <1>4. CASE ~\A k \in 1..Len(s) : isspace(s[k])
    <2>1. PICK i, j \in 1..Len(s) : Trims(s, t, i, j)
      BY <1>2, <1>4, TrimIs
    <2> HIDE DEF t
    <2>2. /\ i <= j /\ ~isspace(s[i]) /\ ~isspace(s[j])
          /\ \A k \in 1..Len(s) : isspace(s[k]) \/ k \in i..j
          /\ t \in Seq(Characters) /\ Len(t) = j + 1 - i
          /\ \A k \in 1..Len(t) : t[k] = s[i - 1 + k]
      BY <2>1 DEF Trims
    <2>3. i \in 1..Len(l) /\ j \in 1..Len(l)
      BY <1>2, <2>2
    <2>4. t # <<>> /\ t[1] = l[i] /\ t[Len(t)] = l[j]
      <3>1. Len(t) \in Nat /\ Len(t) >= 1
        BY <2>2, <2>3
      <3>2. t[1] = s[i] /\ t[Len(t)] = s[j]
        BY <2>2, <2>3, <3>1
      <3> QED
        BY <1>2, <2>3, <3>1, <3>2
    <2>5. t[1] # "space" /\ t[Len(t)] # "space"
      BY <1>2, <2>2, <2>3, <2>4 DEF isspace
    <2>6. i - 1 \in 0..(Len(l) - Len(t))
      BY <1>1, <2>2, <2>3
    <2>7. ASSUME NEW k \in DOMAIN l
          PROVE  l[k] = IF k - (i - 1) \in DOMAIN t THEN t[k - (i - 1)] ELSE "space"
      <3>1. k \in 1..Len(l) /\ k \in 1..Len(s) /\ DOMAIN t = 1..Len(t) /\ s[k] = l[k]
        BY <1>1, <1>2, <2>2
      <3>2. CASE k \in i..j
        <4>1. k - (i - 1) \in 1..Len(t)
          BY <2>2, <2>3, <3>1, <3>2, SMTT(30)
        <4>2. t[k - (i - 1)] = s[k]
          BY <2>2, <2>3, <3>1, <4>1
        <4> QED
          BY <3>1, <4>1, <4>2
      <3>3. CASE k \notin i..j
        <4>1. k - (i - 1) \notin 1..Len(t)
          BY <2>2, <2>3, <3>1, <3>3
        <4>2. isspace(s[k])
          BY <2>2, <3>1, <3>3
        <4> QED
          BY <1>1, <3>1, <4>1, <4>2
      <3> QED
        BY <3>2, <3>3
    <2>8. Stripped(t, l)
      BY <2>4, <2>5, <2>6, <2>7 DEF Stripped
    <2> QED
      BY <2>2, <2>4, <2>8 DEF Trimmed, t
  <1> QED
    BY <1>3, <1>4

(* What a line begins with is what is left of it begins with.              *)
LEMMA FirstOf ==
    ASSUME NEW l, IsLine(l), NEW t \in Seq(Characters), Stripped(t, l)
    PROVE  /\ ~isspace(t[1]) /\ ~Blank(l)
           /\ \A c : c # "space" => (StartsWith(l, c) <=> t[1] = c)
  <1>1. l \in Seq(Characters) /\ DOMAIN l = 1..Len(l) /\ DOMAIN t = 1..Len(t)
    BY DEF IsLine
  <1>2. Len(t) \in Nat /\ Len(t) >= 1 /\ t[1] # "space"
    BY <1>1 DEF Stripped
  <1>3. PICK i \in 0..(Len(l) - Len(t)) :
            \A k \in DOMAIN l : l[k] = IF k - i \in DOMAIN t THEN t[k - i] ELSE "space"
    BY DEF Stripped
  <1>4. i + 1 \in DOMAIN l /\ l[i + 1] = t[1]
    <2>1. i + 1 \in 1..Len(l) /\ (i + 1) - i = 1 /\ 1 \in 1..Len(t)
      BY <1>1, <1>2
    <2> QED
      BY <1>1, <1>3, <2>1
  <1>5. \A k \in 1..i : l[k] = "space"
    <2> SUFFICES ASSUME NEW k \in 1..i PROVE l[k] = "space"
      OBVIOUS
    <2>1. k \in DOMAIN l /\ k - i \notin DOMAIN t
      BY <1>1, <1>2, <1>4
    <2> QED
      BY <1>3, <2>1
  <1>6. ~isspace(t[1])
    BY <1>1, <1>2, <1>4 DEF IsLine, isspace
  <1>7. ~Blank(l)
    BY <1>2, <1>4 DEF Blank
  <1>8. ASSUME NEW c, c # "space" PROVE StartsWith(l, c) <=> t[1] = c
    <2>1. ASSUME t[1] = c PROVE StartsWith(l, c)
      <3>1. (i + 1) - 1 = i
        OBVIOUS
      <3> QED
        BY <1>4, <1>5, <2>1, <3>1 DEF StartsWith
    <2>2. ASSUME StartsWith(l, c) PROVE t[1] = c
      <3>1. PICK k \in DOMAIN l : l[k] = c /\ \A j \in 1..(k - 1) : l[j] = "space"
        BY <2>2 DEF StartsWith
      <3>2. ~(k \in 1..i)
        BY <1>5, <1>8, <3>1
      <3>3. ~(i + 1 \in 1..(k - 1))
        BY <1>2, <1>4, <3>1
      <3>4. k = i + 1
        BY <1>1, <3>2, <3>3
      <3> QED
        BY <1>4, <3>1, <3>4
    <2> QED
      BY <2>1, <2>2
  <1> QED
    BY <1>6, <1>7, <1>8

(* is_ignorable_line is right about a line that string_trim has been at,   *)
(* and so is the test for a dot.                                           *)
LEMMA IgnoredIs ==
    ASSUME NEW l, IsLine(l), NEW t \in Seq(Characters), Trimmed(t, l)
    PROVE  /\ is_ignorable_line(t) <=> Ignorable(l)
           /\ ~Ignorable(l) => Stripped(t, l) /\ (t[1] = "." <=> StartsWith(l, "."))
  <1> DEFINE Q == {i \in DOMAIN t : ~isspace(t[i])}
  <1>1. is_ignorable_line(t) <=> (Q # {} => t[Min(Q)] = "#")
    BY DEF is_ignorable_line
  <1>2. CASE t = <<>>
    <2>1. Q = {}
      BY <1>2
    <2>2. Blank(l)
      BY <1>2 DEF Trimmed
    <2> QED
      BY <1>1, <2>1, <2>2 DEF Ignorable
  <1>3. CASE t # <<>>
    <2>1. Stripped(t, l)
      BY <1>3 DEF Trimmed
    <2>2. /\ ~isspace(t[1]) /\ ~Blank(l)
          /\ \A c : c # "space" => (StartsWith(l, c) <=> t[1] = c)
      BY <2>1, FirstOf
    <2>3. Len(t) \in Nat /\ DOMAIN t = 1..Len(t) /\ 1 \in 1..Len(t)
      BY <1>3
    <2>4. Q \subseteq 1..Len(t) /\ 1 \in Q
      BY <2>2, <2>3
    <2>5. Min(Q) = 1
      <3>1. Min(Q) \in Q /\ \A i \in Q : Min(Q) <= i
        <4> HIDE DEF Q
        <4> QED
          BY <2>3, <2>4, FirstAndLast
      <3>2. Min(Q) \in 1..Len(t) /\ Min(Q) <= 1
        <4> HIDE DEF Q
        <4> QED
          BY <2>4, <3>1
      <3> QED
        BY <2>3, <3>2
    <2>6. is_ignorable_line(t) <=> t[1] = "#"
      BY <1>1, <2>4, <2>5
    <2>7. Ignorable(l) <=> t[1] = "#"
      BY <2>2 DEF Ignorable
    <2>8. StartsWith(l, ".") <=> t[1] = "."
      BY <2>2
    <2> QED
      BY <2>1, <2>6, <2>7, <2>8
  <1> QED
    BY <1>2, <1>3

-----------------------------------------------------------------------------
(* What has been delivered                                                 *)

(* The lines are those of the file, whatever becomes of the rest.          *)
LEMMA TextKept ==
    ASSUME text' = text
    PROVE  /\ Breaks' = Breaks /\ Fits' = Fits
           /\ \A b : Line(b)' = Line(b) /\ End(b)' = End(b) /\ Before(b)' = Before(b)
  <1>1. Breaks' = Breaks
    BY DEF Breaks
  <1>2. \A b : End(b)' = End(b)
    BY <1>1 DEF End
  <1>3. \A b : Line(b)' = Line(b)
    BY <1>2 DEF Line
  <1>4. \A b : Before(b)' = Before(b)
    BY <1>1 DEF Before
  <1>5. Fits' = Fits
    BY <1>1, <1>3 DEF Fits
  <1> QED
    BY <1>1, <1>2, <1>3, <1>4, <1>5

(* So are the lines that have been delivered.                              *)
LEMMA DeliveredKept ==
    ASSUME text' = text, delivered' = delivered, NEW bs
    PROVE  Delivered(bs)' = Delivered(bs)
  <1>1. \A b : Line(b)' = Line(b)
    BY TextKept
  <1> QED
    BY <1>1 DEF Delivered

(* at says where the deliveries come from.                                 *)
Origin(at, bs) ==
    /\ at \in [DOMAIN delivered -> bs]
    /\ \A k, m \in DOMAIN delivered : k < m => at[k] < at[m]
    /\ \A k \in DOMAIN delivered : Answers(delivered[k], Line(at[k]))
    /\ \A b \in bs : ~Ignorable(Line(b)) <=> \E k \in DOMAIN delivered : at[k] = b

(* Delivered, with a name for what the deliveries come from.               *)
LEMMA DeliveredIs ==
    ASSUME NEW bs
    PROVE  Delivered(bs) <=> \E at : Origin(at, bs)
  BY DEF Delivered, Origin

(* A line with no meaning adds nothing to what was to be delivered.        *)
LEMMA IgnoreMore ==
    ASSUME TypeOK, NEW b \in Breaks, Delivered(Before(b)), Ignorable(Line(b))
    PROVE  Delivered(Before(b) \cup {b})
  <1>1. PICK at : Origin(at, Before(b))
    BY DeliveredIs
  <1>2. Breaks \subseteq Nat /\ \A k \in DOMAIN delivered : at[k] # b
    <2>1. Breaks \subseteq Nat
      BY DEF TypeOK, Breaks
    <2> QED
      BY <1>1, <2>1 DEF Origin, Before
  <1>3. Origin(at, Before(b) \cup {b})
    BY <1>1, <1>2 DEF Origin
  <1> QED
    BY <1>3, DeliveredIs

(* One that means something is the next to be delivered.                   *)
LEMMA DeliverMore ==
    ASSUME TypeOK, NEW b \in Breaks, Delivered(Before(b)), ~Ignorable(Line(b)),
           NEW d, Answers(d, Line(b)),
           text' = text, delivered' = Append(delivered, d)
    PROVE  Delivered(Before(b) \cup {b})'
  <1> DEFINE S == Before(b) \cup {b}
  <1>0. PICK n : n = Len(delivered)
    OBVIOUS
  <1>1. PICK at : Origin(at, Before(b))
    BY DeliveredIs
  <1>2. /\ n \in Nat /\ DOMAIN delivered = 1..n /\ DOMAIN delivered' = 1..(n + 1)
        /\ \A k \in 1..n : delivered'[k] = delivered[k]
        /\ delivered'[n + 1] = d
    BY <1>0 DEF TypeOK
  <1>3. Breaks \subseteq Nat
    BY DEF TypeOK, Breaks
  <1>4. /\ at \in [1..n -> Before(b)]
        /\ \A k, m \in 1..n : k < m => at[k] < at[m]
        /\ \A k \in 1..n : Answers(delivered[k], Line(at[k]))
        /\ \A c \in Before(b) : ~Ignorable(Line(c)) <=> \E k \in 1..n : at[k] = c
    BY <1>1, <1>2 DEF Origin
  <1>5. \A k \in 1..n : at[k] < b /\ at[k] \in Nat
    BY <1>3, <1>4 DEF Before
  <1> DEFINE more == [k \in 1..(n + 1) |-> IF k \in 1..n THEN at[k] ELSE b]
  <1>6. /\ \A k \in 1..n : more[k] = at[k]
        /\ more[n + 1] = b
        /\ DOMAIN more = 1..(n + 1)
    BY <1>2
  <1>7. more \in [1..(n + 1) -> S]
    BY <1>4
  <1> HIDE DEF more
  <1>8. \A k \in 1..(n + 1) : k \in 1..n \/ k = n + 1
    BY <1>2
  <1>9. \A k, m \in 1..(n + 1) : k < m => more[k] < more[m]
    <2> SUFFICES ASSUME NEW k \in 1..(n + 1), NEW m \in 1..(n + 1), k < m
                 PROVE  more[k] < more[m]
      OBVIOUS
    <2>1. k \in 1..n
      BY <1>2
    <2>2. CASE m \in 1..n
      BY <1>4, <1>6, <2>1, <2>2
    <2>3. CASE m = n + 1
      BY <1>5, <1>6, <2>1, <2>3
    <2> QED
      BY <1>8, <2>2, <2>3
  <1>10. \A k \in 1..(n + 1) : Answers(delivered'[k], Line(more[k]))
    <2> SUFFICES ASSUME NEW k \in 1..(n + 1)
                 PROVE  Answers(delivered'[k], Line(more[k]))
      OBVIOUS
    <2>1. CASE k \in 1..n
      BY <1>2, <1>4, <1>6, <2>1
    <2>2. CASE k = n + 1
      BY <1>2, <1>6, <2>2
    <2> QED
      BY <1>8, <2>1, <2>2
  <1>11. \A c \in S : ~Ignorable(Line(c)) <=> \E k \in 1..(n + 1) : more[k] = c
    <2>1. CASE \E k \in 1..(n + 1) : more[k] = b
      <3> SUFFICES ASSUME NEW c \in Before(b)
                   PROVE  ~Ignorable(Line(c)) <=> \E k \in 1..(n + 1) : more[k] = c
        BY <2>1
      <3>1. c # b
        BY <1>3 DEF Before
      <3>2. 1..n \subseteq 1..(n + 1)
        BY <1>2
      <3>3. (\E k \in 1..(n + 1) : more[k] = c) <=> \E k \in 1..n : at[k] = c
        BY <1>6, <1>8, <3>1, <3>2
      <3> QED
        BY <1>4, <3>3
    <2>2. n + 1 \in 1..(n + 1)
      BY <1>2
    <2> QED
      BY <1>6, <2>1, <2>2
  <1>12. Origin(more, S)'
    <2>1. \A c : Line(c)' = Line(c)
      BY TextKept
    <2>2. S' = S /\ more' = more
      BY TextKept DEF more
    <2> QED
      BY <1>2, <1>7, <1>9, <1>10, <1>11, <2>1, <2>2 DEF Origin
  <1> QED
    BY <1>12 DEF Origin, Delivered

-----------------------------------------------------------------------------
(* The steps of the loop                                                   *)

(* Where fgets stands, what is left, and where lines begin.                *)
LEMMA PositionIs ==
    ASSUME TypeOK
    PROVE  /\ Len(text) \in Nat /\ DOMAIN text = 1..Len(text)
           /\ Position \in 0..Len(text) /\ Len(rest) = Len(text) - Position
           /\ DOMAIN rest = 1..Len(rest)
           /\ Breaks \subseteq 0..Len(text)
           /\ \A i \in 1..Len(text) : text[i] = "newline" <=> i \in Breaks
  <1>1. /\ Len(text) \in Nat /\ DOMAIN text = 1..Len(text)
        /\ Len(rest) \in Nat /\ Len(rest) <= Len(text) /\ DOMAIN rest = 1..Len(rest)
    BY DEF TypeOK
  <1>2. Position \in 0..Len(text) /\ Len(rest) = Len(text) - Position
    BY <1>1 DEF Position
  <1>3. /\ Breaks \subseteq 0..Len(text)
        /\ \A i \in 1..Len(text) : text[i] = "newline" <=> i \in Breaks
    BY <1>1 DEF Breaks
  <1> QED
    BY <1>1, <1>2, <1>3

(* Nothing is read, and no line begins before the first.                   *)
LEMMA InvInit == Init => IInv
  <1> SUFFICES ASSUME Init PROVE IInv
    OBVIOUS
  <1>1. text \in Seq(Characters)
    BY TextsAssumption DEF Init
  <1>2. Position = 0
    BY <1>1 DEF Init, Position
  <1>3. TypeOK
    BY <1>1, <1>2 DEF Init, TypeOK
  <1>4. Before(0) = {} /\ 0 \in Breaks
    BY <1>3, PositionIs DEF Before, Breaks
  <1>5. Delivered({})
    <2>1. DOMAIN delivered = {}
      BY DEF Init
    <2>2. Origin(<<>>, {})
      BY <2>1 DEF Origin
    <2> QED
      BY <2>2, DeliveredIs
  <1>6. Progress
    BY <1>2, <1>4, <1>5 DEF Init, Progress, Stands
  <1> QED
    BY <1>3, <1>6 DEF IInv

(* What one call of fgets does to the position.                            *)
LEMMA ReadIs ==
    ASSUME TypeOK, Read
    PROVE  /\ TypeOK'
           /\ fgets(rest) \in 1..Len(rest) /\ Position' = Position + fgets(rest)
           /\ line' = SubSeq(rest, 1, fgets(rest))
           /\ Len(line') = fgets(rest)
           /\ \A i \in 1..fgets(rest) : line'[i] = text[Position + i]
  <1>1. PICK n : n = fgets(rest)
    OBVIOUS
  <1>2. n \in 1..Len(rest)
    BY <1>1, FgetsIs DEF TypeOK, Read
  <1>0. /\ Len(text) \in Nat /\ Position \in Nat /\ Len(rest) \in Nat
        /\ Len(rest) = Len(text) - Position /\ n \in Nat /\ n <= Len(rest)
    BY <1>2, PositionIs
  <1>3. /\ line' = SubSeq(rest, 1, n) /\ rest' = SubSeq(rest, n + 1, Len(rest))
        /\ text' = text /\ delivered' = delivered /\ step' = "trim"
    BY <1>1 DEF Read
  <1>4. /\ line' \in Seq(Characters) /\ Len(line') = n
        /\ \A i \in 1..n : line'[i] = rest[i]
    BY <1>2, <1>3 DEF TypeOK
  <1>5. /\ rest' \in Seq(Characters) /\ Len(rest') = Len(rest) - n
        /\ \A i \in 1..(Len(rest) - n) : rest'[i] = rest[n + i]
    BY <1>2, <1>3 DEF TypeOK
  <1>6. Position' = Position + n
    <2>1. Position' = Len(text) - Len(rest')
      BY <1>3 DEF Position
    <2> QED
      BY <1>0, <1>5, <2>1
  <1>7. \A i \in 1..n : line'[i] = text[Position + i]
    <2> SUFFICES ASSUME NEW i \in 1..n PROVE line'[i] = text[Position + i]
      OBVIOUS
    <2>1. i \in DOMAIN rest
      BY <1>0, PositionIs
    <2> QED
      BY <1>4, <2>1 DEF TypeOK
  <1>8. Len(rest') <= Len(text')
    BY <1>2, <1>3, <1>5, PositionIs
  <1>9. ASSUME NEW i \in DOMAIN rest' PROVE rest'[i] = text'[Position' + i]
    <2>1. i \in 1..(Len(rest) - n) /\ n + i \in 1..Len(rest)
      BY <1>2, <1>5, PositionIs
    <2>2. rest'[i] = rest[n + i] /\ rest[n + i] = text[Position + (n + i)]
      BY <1>5, <2>1, PositionIs DEF TypeOK
    <2>3. Position + (n + i) = Position' + i
      BY <1>2, <1>6, <2>1, PositionIs
    <2> QED
      BY <1>3, <2>2, <2>3
  <1>10. TypeOK'
    BY <1>3, <1>4, <1>5, <1>8, <1>9 DEF TypeOK
  <1> QED
    BY <1>1, <1>2, <1>3, <1>4, <1>6, <1>7, <1>10

(* At the beginning of a line that fits, fgets takes the line, and the     *)
(* newline behind it if there is one and it fits too.                      *)
LEMMA ReadLine ==
    ASSUME TypeOK, Fits, Progress, Read, NEW b \in Breaks, b = Position
    PROVE  Stands' /\ HoldsLine(b)'
  <1>1. PICK n : n = fgets(rest)
    OBVIOUS
  <1>2. b = Position
    OBVIOUS
  <1>3. /\ b \in Breaks /\ b \in 0..Len(text)
        /\ Len(text) \in Nat /\ DOMAIN text = 1..Len(text) /\ Len(rest) = Len(text) - b
        /\ Breaks \subseteq 0..Len(text)
        /\ \A i \in 1..Len(text) : text[i] = "newline" <=> i \in Breaks
        /\ \A i \in 1..Len(rest) : rest[i] = text[b + i]
    BY <1>2, PositionIs DEF TypeOK
  <1>4. PICK l : l = Line(b)
    OBVIOUS
  <1>5. /\ End(b) \in (b + 1)..(Len(text) + 1)
        /\ End(b) \in Breaks \cup {Len(text) + 1}
        /\ \A i \in Breaks : i <= b \/ End(b) <= i
        /\ l \in Seq(Characters) /\ Len(l) = End(b) - 1 - b
        /\ \A k \in 1..Len(l) : l[k] = text[b + k] /\ l[k] # "newline"
    BY <1>3, <1>4, LineIs DEF TypeOK
  <1>6. Len(l) <= LINE_BUF_LEN - 1
    BY <1>3, <1>4, <1>5, BufferAssumption DEF Fits
  <1>7. /\ n \in 1..Len(rest)
        /\ \A i \in 1..(n - 1) : rest[i] # "newline"
        /\ n \in {Len(rest), LINE_BUF_LEN - 1} \/ rest[n] = "newline"
    BY <1>1, FgetsIs DEF TypeOK, Read
  <1>8. /\ Position' = b + n /\ Len(line') = n /\ line' \in Seq(Characters)
        /\ \A i \in 1..n : line'[i] = text[b + i]
        /\ text' = text /\ delivered' = delivered /\ step' = "trim"
    BY <1>1, <1>2, ReadIs DEF Read, TypeOK
  <1>0. /\ b \in Nat /\ Len(text) \in Nat /\ b <= Len(text) /\ n \in Nat /\ n >= 1
        /\ n <= Len(text) - b /\ End(b) \in Nat /\ b < End(b) /\ End(b) <= Len(text) + 1
        /\ Len(l) = End(b) - 1 - b
    <2>1. b \in Nat /\ Len(text) \in Nat /\ b <= Len(text) /\ Len(rest) = Len(text) - b
      BY <1>3
    <2>2. n \in Nat /\ n >= 1 /\ n <= Len(rest)
      BY <1>7, <2>1
    <2>3. End(b) \in (b + 1)..(Len(text) + 1) /\ Len(l) = End(b) - 1 - b
      BY <1>5
    <2>4. End(b) \in Nat /\ b < End(b) /\ End(b) <= Len(text) + 1
      BY <2>1, <2>3
    <2> QED
      BY <2>1, <2>2, <2>3, <2>4
  <1>9. n <= Len(l) + 1
    <2> SUFFICES ASSUME n > Len(l) + 1 PROVE FALSE
      BY <1>0
    <2>1. End(b) \in 1..Len(text) /\ Len(l) + 1 \in 1..(n - 1) /\ b + (Len(l) + 1) = End(b)
      BY <1>0
    <2>2. End(b) \in Breaks /\ text[End(b)] = "newline"
      BY <1>0, <1>3, <1>5, <2>1, SMTT(30)
    <2>3. Len(l) + 1 \in 1..Len(rest)
      BY <1>0, <1>3, <2>1
    <2>4. rest[Len(l) + 1] = "newline"
      BY <1>3, <2>1, <2>2, <2>3
    <2> QED
      BY <1>7, <2>1, <2>4
  <1>10. n >= Len(l)
    <2>1. CASE n = Len(rest)
      BY <1>0, <1>3, <2>1
    <2>2. CASE n = LINE_BUF_LEN - 1
      BY <1>6, <2>2
    <2>3. CASE rest[n] = "newline"
      <3>1. b + n \in 1..Len(text) /\ b + n > b
        BY <1>0
      <3>2. b + n \in Breaks
        BY <1>3, <1>7, <2>3, <3>1
      <3>3. End(b) <= b + n
        BY <1>0, <1>5, <3>1, <3>2
      <3> QED
        BY <1>0, <3>3
    <2> QED
      BY <1>7, <2>1, <2>2, <2>3
  <1>13. Delivered(Before(b))'
    <2>1. Delivered(Before(b))
      BY <1>2 DEF Progress, Read
    <2>2. Before(b)' = Before(b)
      BY <1>8, TextKept
    <2>3. PICK bs : bs = Before(b)
      OBVIOUS
    <2>4. Delivered(bs)'
      BY <1>8, <2>1, <2>3, DeliveredKept
    <2> QED
      BY <2>2, <2>3, <2>4 DEF Delivered
  <1>11. CASE n = Len(l)
    <2>1. line' = l
      BY <1>5, <1>8, <1>11
    <2>2. b + n = End(b) - 1
      BY <1>0, <1>11
    <2>3. b + n = Len(text) \/ text[b + n + 1] = "newline"
      <3>1. CASE End(b) \in Breaks
        <4>2. End(b) <= Len(text)
          <5>1. End(b) \in 0..Len(text)
            BY <1>3, <3>1
          <5> QED
            BY <5>1
        <4>1. b + n + 1 = End(b) /\ End(b) \in 1..Len(text)
          BY <1>0, <2>2, <4>2
        <4> QED
          BY <1>3, <3>1, <4>1
      <3>2. CASE End(b) = Len(text) + 1
        BY <1>0, <2>2, <3>2
      <3> QED
        BY <1>5, <3>1, <3>2
    <2>4. Stands'
      BY <1>8, <2>3 DEF Stands
    <2>5. b < b + n /\ b + n <= End(b)
      BY <1>0, <2>2
    <2>6. HoldsLine(b)'
      BY <1>4, <1>8, <1>13, <2>1, <2>5, TextKept DEF HoldsLine
    <2> QED
      BY <2>4, <2>6
  <1>12. CASE n = Len(l) + 1
    <2>1. b + n = End(b) /\ End(b) \in 1..Len(text)
      BY <1>0, <1>12
    <2>2. End(b) \in Breaks /\ text[b + n] = "newline"
      BY <1>0, <1>3, <1>5, <2>1
    <2>3. line' = Append(l, "newline")
      <3>1. /\ Append(l, "newline") \in Seq(Characters) /\ Len(Append(l, "newline")) = n
            /\ \A k \in 1..Len(l) : Append(l, "newline")[k] = l[k]
            /\ Append(l, "newline")[n] = "newline"
        BY <1>5, <1>12 DEF Characters
      <3>2. ASSUME NEW k \in 1..n PROVE line'[k] = Append(l, "newline")[k]
        <4>1. CASE k \in 1..Len(l)
          BY <1>5, <1>8, <3>1, <4>1
        <4>2. CASE k = n
          BY <1>8, <2>2, <3>1, <4>2
        <4> QED
          BY <1>5, <1>12, <4>1, <4>2
      <3> QED
        BY <1>8, <3>1, <3>2
    <2>4. Stands'
      BY <1>8, <2>1, <2>2, TextKept DEF Stands
    <2>5. b < b + n /\ b + n <= End(b)
      BY <1>0, <2>1
    <2>6. HoldsLine(b)'
      BY <1>4, <1>8, <1>13, <2>3, <2>5, TextKept DEF HoldsLine
    <2> QED
      BY <2>4, <2>6
  <1> QED
    BY <1>5, <1>7, <1>9, <1>10, <1>11, <1>12

(* In front of the newline of a line that fills the buffer, fgets takes    *)
(* the newline.                                                            *)
LEMMA ReadNewline ==
    ASSUME TypeOK, Progress, Read, Position \notin Breaks
    PROVE  Stands' /\ HoldsNewline'
  <1>1. PICK p : p = Position
    OBVIOUS
  <1>2. /\ p \in Nat /\ Len(text) \in Nat /\ Len(rest) = Len(text) - p /\ Len(rest) >= 1
        /\ \A i \in 1..Len(rest) : rest[i] = text[p + i]
    <2>0. \A i \in DOMAIN rest : rest[i] = text[p + i]
      BY <1>1 DEF TypeOK
    <2>1. /\ p \in 0..Len(text) /\ Len(text) \in Nat /\ Len(rest) = Len(text) - p
          /\ DOMAIN rest = 1..Len(rest)
      BY <1>1, PositionIs
    <2>2. Len(rest) # 0
      BY DEF Read, TypeOK
    <2>3. Len(rest) >= 1
      BY <2>1, <2>2
    <2> QED
      BY <2>0, <2>1, <2>3
  <1>3. text[p + 1] = "newline" /\ p + 1 \in Breaks
    <2>1. p # Len(text) /\ p + 1 \in 1..Len(text)
      BY <1>2
    <2>2. text[p + 1] = "newline"
      BY <1>1, <2>1 DEF Progress, Stands
    <2> QED
      BY <2>1, <2>2, PositionIs DEF Breaks
  <1>4. rest[1] = "newline"
    BY <1>2, <1>3
  <1>5. fgets(rest) = 1
    <2>1. /\ fgets(rest) \in 1..Len(rest)
          /\ \A i \in 1..(fgets(rest) - 1) : rest[i] # "newline"
      BY FgetsIs DEF TypeOK, Read
    <2>2. ~(1 \in 1..(fgets(rest) - 1))
      BY <1>4, <2>1
    <2> QED
      BY <1>2, <2>1, <2>2
  <1>6. Position' = p + 1 /\ line' = <<"newline">>
    <2>1. /\ Position' = p + 1 /\ line' = SubSeq(rest, 1, 1)
          /\ Len(line') = 1 /\ line'[1] = text[p + 1]
      BY <1>1, <1>5, ReadIs
    <2>2. line' \in Seq(Characters)
      BY ReadIs DEF TypeOK
    <2>3. PICK s \in Seq(Characters) : s = line'
      BY <2>2
    <2>4. Len(s) = 1 /\ s[1] = "newline"
      BY <1>3, <2>1, <2>3
    <2>5. s = <<"newline">>
      BY <2>4
    <2> QED
      BY <2>1, <2>3, <2>5
  <1>7. text' = text /\ delivered' = delivered /\ step' = "trim"
    BY DEF Read
  <1>8. Stands'
    BY <1>3, <1>6, <1>7, TextKept DEF Stands
  <1>9. Before(p + 1) = Before(p)
    <2>1. \A b \in Breaks : b < p + 1 <=> b < p
      <3> SUFFICES ASSUME NEW b \in Breaks PROVE b < p + 1 <=> b < p
        OBVIOUS
      <3>1. b \in Nat /\ b # p
        BY <1>1, PositionIs
      <3> QED
        BY <1>2, <3>1
    <2> QED
      BY <2>1 DEF Before
  <1>10. Delivered(Before(Position))'
    <2>1. PICK bs : bs = Before(p + 1)
      OBVIOUS
    <2>2. Delivered(bs)'
      <3>1. Delivered(bs)
        BY <1>1, <1>9, <2>1 DEF Progress, Read
      <3> QED
        BY <1>7, <3>1, DeliveredKept
    <2>3. Before(Position)' = bs
      <3>1. Before(Position)' = {b \in Breaks' : b < Position'}
        BY DEF Before
      <3> QED
        BY <1>6, <1>7, <2>1, <3>1, TextKept DEF Before
    <2> QED
      BY <2>2, <2>3 DEF Delivered
  <1> QED
    BY <1>6, <1>7, <1>8, <1>10 DEF HoldsNewline

(* What the reader holds is the line behind b, or the newline of the last. *)
LEMMA HeldLine ==
    ASSUME TypeOK, NEW b \in Breaks, HoldsLine(b)
    PROVE  IsLine(Line(b)) /\ Before(Position) = Before(b) \cup {b}
  <1>0. text \in Seq(Characters)
    BY DEF TypeOK
  <1>1. /\ IsLine(Line(b)) /\ b \in Nat /\ \A i \in Breaks : i <= b \/ End(b) <= i
    <2>1. b \in Nat
      BY PositionIs
    <2> QED
      BY <1>0, <2>1, LineIs DEF IsLine
  <1>2. Position \in Nat /\ b < Position /\ Position <= End(b) /\ End(b) \in Nat
    BY PositionIs, LineIs DEF TypeOK, HoldsLine
  <1>3. ASSUME NEW i \in Breaks PROVE i < Position <=> i < b \/ i = b
    <2>1. i \in Nat
      BY PositionIs
    <2> QED
      BY <1>1, <1>2, <2>1
  <1> QED
    BY <1>1, <1>3 DEF Before

(* string_trim leaves of the line in the buffer what lies between blanks.  *)
LEMMA InvTrim ==
    ASSUME IInv, Trim PROVE IInv'
  <1>1. /\ TypeOK /\ text' = text /\ rest' = rest /\ delivered' = delivered
        /\ step = "trim" /\ step' = "inspect" /\ line' = string_trim(line)
    BY DEF IInv, Trim
  <1>2. string_trim(line) \in Seq(Characters)
    <2>1. CASE \A k \in 1..Len(line) : isspace(line[k])
      <3>1. string_trim(line) = <<>>
        BY <1>1, <2>1, TrimIs DEF TypeOK
      <3> QED
        BY <3>1
    <2>2. CASE ~\A k \in 1..Len(line) : isspace(line[k])
      BY <1>1, <2>2, TrimIs DEF TypeOK, Trims
    <2> QED
      BY <2>1, <2>2
  <1>3. TypeOK' /\ Position' = Position
    BY <1>1, <1>2 DEF TypeOK, Position
  <1>4. ASSUME Fits' PROVE Progress'
    <2>1. Progress
      BY <1>1, <1>4, TextKept DEF IInv
    <2>2. Stands'
      BY <1>1, <1>3, <2>1, TextKept DEF Progress, Stands
    <2>3. CASE HoldsNewline
      <3>1. line = <<"newline">>
        BY <1>1, <2>3 DEF HoldsNewline
      <3>2. line' = <<>>
        <4>1. \A k \in 1..Len(line) : isspace(line[k])
          BY <3>1 DEF isspace
        <4> QED
          BY <1>1, <4>1, TrimIs DEF TypeOK
      <3>3. HoldsNewline'
        <4>1. Before(Position)' = Before(Position)
          BY <1>1, <1>3 DEF Before, Breaks
        <4>2. Delivered(Before(Position))'
          BY <1>1, <2>3, <4>1, TextKept DEF HoldsNewline, Delivered
        <4> QED
          BY <1>1, <3>2, <4>2 DEF HoldsNewline
      <3> QED
        BY <1>1, <2>2, <3>3 DEF Progress
    <2>4. ASSUME NEW b \in Breaks, HoldsLine(b) PROVE Progress'
      <3>1. IsLine(Line(b)) /\ line \in {Line(b), Append(Line(b), "newline")}
        BY <1>1, <2>4, HeldLine DEF HoldsLine
      <3>2. Trimmed(line', Line(b))
        BY <1>1, <3>1, TrimmedIs
      <3>3. Delivered(Before(b))'
        BY <1>1, <2>4, TextKept DEF HoldsLine, Delivered
      <3>4. Trimmed(line, Line(b))'
        BY <1>1, <3>2, TextKept, SMTT(30) DEF Trimmed, Stripped, Blank
      <3>5. HoldsLine(b)'
        BY <1>1, <1>3, <2>4, <3>3, <3>4, TextKept DEF HoldsLine
      <3> QED
        BY <1>1, <2>2, <3>5, TextKept DEF Progress
    <2> QED
      BY <1>1, <2>1, <2>3, <2>4 DEF Progress
  <1> QED
    BY <1>3, <1>4 DEF IInv

(* fgets fills the buffer with a line, or with the newline of one before.  *)
LEMMA InvRead ==
    ASSUME IInv, Read PROVE IInv'
  <1>1. TypeOK /\ TypeOK' /\ text' = text /\ step' = "trim"
    BY ReadIs DEF IInv, Read
  <1>2. ASSUME Fits' PROVE Progress'
    <2>1. Fits /\ Progress
      BY <1>1, <1>2, TextKept DEF IInv
    <2>2. CASE Position \in Breaks
      <3>1. PICK b \in Breaks : b = Position
        BY <2>2
      <3>2. Stands' /\ HoldsLine(b)'
        BY <1>1, <2>1, <3>1, ReadLine
      <3> QED
        BY <1>1, <3>1, <3>2, TextKept DEF Progress
    <2>3. CASE Position \notin Breaks
      <3>1. Stands' /\ HoldsNewline'
        BY <1>1, <2>1, <2>3, ReadNewline
      <3> QED
        BY <1>1, <3>1 DEF Progress
    <2> QED
      BY <2>2, <2>3
  <1> QED
    BY <1>1, <1>2 DEF IInv

(* At the end of the file every line lies before the position.             *)
LEMMA InvEndOfFile ==
    ASSUME IInv, EndOfFile PROVE IInv'
  <1>1. /\ text' = text /\ rest' = rest /\ line' = line /\ delivered' = delivered
        /\ step = "fgets" /\ step' = "eof" /\ rest = <<>>
    BY DEF EndOfFile
  <1>2. TypeOK' /\ Position' = Position
    BY <1>1 DEF IInv, TypeOK, Position
  <1>3. ASSUME Fits' PROVE Progress'
    <2>1. Progress
      BY <1>1, <1>3, TextKept DEF IInv
    <2>2. Stands'
      BY <1>1, <1>2, <2>1, TextKept DEF Progress, Stands
    <2>3. Before(Position)' = Before(Position)
      BY <1>1, <1>2 DEF Before, Breaks
    <2>4. Delivered(Before(Position))'
      BY <1>1, <2>1, <2>3, TextKept DEF Progress, Delivered
    <2> QED
      BY <1>1, <2>2, <2>4 DEF Progress
  <1> QED
    BY <1>2, <1>3 DEF IInv

(* A line that is blank or a comment is left out.                          *)
LEMMA InvIgnore ==
    ASSUME IInv, Ignore PROVE IInv'
  <1>1. /\ text' = text /\ rest' = rest /\ line' = line /\ delivered' = delivered
        /\ step = "inspect" /\ step' = "fgets" /\ is_ignorable_line(line)
    BY DEF Ignore
  <1>2. TypeOK /\ TypeOK' /\ Position' = Position
    BY <1>1 DEF IInv, TypeOK, Position
  <1>3. ASSUME Fits' PROVE Progress'
    <2>1. Progress
      BY <1>1, <1>3, TextKept DEF IInv
    <2>2. Stands'
      BY <1>1, <1>2, <2>1, TextKept DEF Progress, Stands
    <2>3. Delivered(Before(Position))
      <3>1. CASE HoldsNewline
        BY <3>1 DEF HoldsNewline
      <3>2. ASSUME NEW b \in Breaks, HoldsLine(b) PROVE Delivered(Before(Position))
        <4>1. /\ IsLine(Line(b)) /\ Before(Position) = Before(b) \cup {b}
              /\ Delivered(Before(b)) /\ Trimmed(line, Line(b)) /\ line \in Seq(Characters)
          BY <1>1, <1>2, <3>2, HeldLine DEF HoldsLine, TypeOK
        <4>2. Ignorable(Line(b))
          BY <1>1, <4>1, IgnoredIs
        <4> QED
          BY <1>2, <4>1, <4>2, IgnoreMore
      <3> QED
        BY <1>1, <2>1, <3>1, <3>2 DEF Progress
    <2>4. Before(Position)' = Before(Position)
      BY <1>1, <1>2 DEF Before, Breaks
    <2>5. Delivered(Before(Position))'
      BY <1>1, <2>3, <2>4, TextKept DEF Delivered
    <2> QED
      BY <1>1, <2>2, <2>5 DEF Progress
  <1> QED
    BY <1>2, <1>3 DEF IInv

(* Any other line is the next to be delivered.                             *)
LEMMA InvDeliver ==
    ASSUME IInv, Deliver PROVE IInv'
  <1> DEFINE d == [kind |-> IF line[1] = "." THEN "dot" ELSE "content", line |-> line]
  <1>1. /\ text' = text /\ rest' = rest /\ line' = line /\ delivered' = Append(delivered, d)
        /\ step = "inspect" /\ step' = "fgets" /\ ~is_ignorable_line(line)
    BY DEF Deliver
  <1>2. TypeOK /\ TypeOK' /\ Position' = Position
    <2>1. TypeOK
      BY DEF IInv
    <2>2. d \in [kind : {"dot", "content"}, line : Seq(Characters)]
      BY <2>1 DEF TypeOK
    <2>3. delivered' \in Seq([kind : {"dot", "content"}, line : Seq(Characters)])
      <3> HIDE DEF d
      <3> QED
        BY <1>1, <2>1, <2>2 DEF TypeOK
    <2> HIDE DEF d
    <2> QED
      BY <1>1, <2>1, <2>3 DEF TypeOK, Position
  <1>3. ASSUME Fits' PROVE Progress'
    <2>1. Progress
      BY <1>1, <1>3, TextKept DEF IInv
    <2>2. Stands'
      BY <1>1, <1>2, <2>1, TextKept DEF Progress, Stands
    <2>3. Before(Position)' = Before(Position)
      BY <1>1, <1>2 DEF Before, Breaks
    <2>4. ~HoldsNewline
      <3> SUFFICES ASSUME HoldsNewline PROVE FALSE
        OBVIOUS
      <3>1. line = <<>>
        BY <1>1 DEF HoldsNewline
      <3>2. is_ignorable_line(line)
        BY <3>1 DEF is_ignorable_line
      <3> QED
        BY <1>1, <3>2
    <2>5. PICK b \in Breaks : HoldsLine(b)
      BY <1>1, <2>1, <2>4 DEF Progress
    <2>6. /\ IsLine(Line(b)) /\ Before(Position) = Before(b) \cup {b}
          /\ Delivered(Before(b)) /\ Trimmed(line, Line(b)) /\ line \in Seq(Characters)
      BY <1>1, <1>2, <2>5, HeldLine DEF HoldsLine, TypeOK
    <2>7. /\ ~Ignorable(Line(b)) /\ Stripped(line, Line(b))
          /\ line[1] = "." <=> StartsWith(Line(b), ".")
      BY <1>1, <2>6, IgnoredIs
    <2>8. Answers(d, Line(b))
      BY <2>7 DEF Answers
    <2>9. PICK e : e = d
      OBVIOUS
    <2>10. Answers(e, Line(b)) /\ delivered' = Append(delivered, e)
      BY <1>1, <2>8, <2>9
    <2>11. Delivered(Before(b) \cup {b})'
      BY <1>1, <1>2, <2>6, <2>7, <2>10, DeliverMore
    <2>12. Before(Position)' = (Before(b) \cup {b})'
      BY <1>1, <2>3, <2>6, TextKept
    <2>13. Delivered(Before(Position))'
      BY <2>11, <2>12 DEF Delivered
    <2> QED
      BY <1>1, <2>2, <2>13 DEF Progress
  <1> QED
    BY <1>2, <1>3 DEF IInv

(* Nothing happens.                                                        *)
LEMMA InvStutter ==
    ASSUME IInv, UNCHANGED vars PROVE IInv'
  <1>1. /\ text' = text /\ rest' = rest /\ line' = line /\ step' = step
        /\ delivered' = delivered
    BY DEF vars
  <1>2. TypeOK' = TypeOK /\ Position' = Position
    BY <1>1 DEF TypeOK, Position
  <1>3. \A b : /\ Before(b)' = Before(b) /\ Line(b)' = Line(b) /\ End(b)' = End(b)
              /\ Delivered(Before(b))' = Delivered(Before(b))
    BY <1>1, TextKept DEF Delivered
  <1>4. HoldsNewline' = HoldsNewline /\ \A b : HoldsLine(b)' = HoldsLine(b)
    <2>1. Before(Position)' = Before(Position)
      BY <1>1, <1>2 DEF Before, Breaks
    <2>2. Delivered(Before(Position))' = Delivered(Before(Position))
      BY <1>1, <2>1, TextKept DEF Delivered
    <2>3. \A b : Trimmed(line, Line(b))' = Trimmed(line, Line(b))
      BY <1>1, <1>3 DEF Trimmed, Stripped, Blank
    <2> QED
      BY <1>1, <1>2, <1>3, <2>2, <2>3 DEF HoldsNewline, HoldsLine
  <1>5. Progress => Progress'
    <2>1. Before(Position)' = Before(Position)
      BY <1>1, <1>2 DEF Before, Breaks
    <2>2. Delivered(Before(Position))' = Delivered(Before(Position))
      BY <1>1, <2>1, TextKept DEF Delivered
    <2>3. Stands' = Stands
      BY <1>1, <1>2, TextKept DEF Stands
    <2> QED
      BY <1>1, <1>4, <2>2, <2>3, TextKept DEF Progress
  <1> QED
    BY <1>1, <1>2, <1>5, TextKept DEF IInv

(* Every iteration of the loop keeps the invariant.                        *)
LEMMA InvStep ==
    ASSUME IInv, [Next]_vars PROVE IInv'
  BY InvRead, InvEndOfFile, InvTrim, InvIgnore, InvDeliver, InvStutter DEF Next, Ended

(* At any time, if the lines of the file fit in the buffer, fgets stands   *)
(* between two lines or in front of a newline, and what the lines before   *)
(* mean is delivered or in the buffer.                                     *)
THEOREM Invariance == Spec => []IInv
  <1>1. Init => IInv
    BY InvInit
  <1>2. IInv /\ [Next]_vars => IInv'
    BY InvStep
  <1> QED
    BY <1>1, <1>2, PTL DEF Spec

(* At the end of the file all of its lines are before the position but the *)
(* empty one behind a last newline.                                        *)
LEMMA WholeFile == IInv => LinesWhole
  <1> SUFFICES ASSUME IInv, step = "eof", Fits PROVE Delivered(Breaks)
    BY DEF LinesWhole
  <1>1. TypeOK /\ Progress /\ rest = <<>>
    BY DEF IInv, Progress
  <1>2. /\ Position = Len(text) /\ Len(text) \in Nat /\ Breaks \subseteq 0..Len(text)
        /\ Delivered(Before(Len(text)))
    <2>1. Position = Len(text)
      BY <1>1, PositionIs
    <2> QED
      BY <1>1, <2>1, PositionIs DEF Progress
  <1>3. CASE Len(text) \notin Breaks
    <2>1. Before(Len(text)) = Breaks
      <3>1. \A b \in Breaks : b < Len(text)
        BY <1>2, <1>3
      <3> QED
        BY <3>1 DEF Before
    <2> QED
      BY <1>2, <2>1
  <1>4. CASE Len(text) \in Breaks
    <2>1. PICK b \in Breaks : b = Len(text)
      BY <1>4
    <2>2. Before(b) \cup {b} = Breaks
      <3>1. \A c \in Breaks : c < b \/ c = b
        BY <1>2, <2>1
      <3> QED
        BY <3>1 DEF Before
    <2>3. Ignorable(Line(b))
      <3>1. End(b) \in (b + 1)..(Len(text) + 1) /\ Len(Line(b)) = End(b) - 1 - b
            /\ Line(b) \in Seq(Characters)
        BY <1>1, LineIs DEF TypeOK
      <3>2. Len(Line(b)) = 0
        BY <1>2, <2>1, <3>1
      <3> QED
        BY <3>1, <3>2 DEF Ignorable, Blank
    <2> QED
      BY <1>1, <1>2, <2>1, <2>2, <2>3, IgnoreMore
  <1> QED
    BY <1>3, <1>4

(* A file whose lines fit in the buffer, its newlines not counted, is      *)
(* taken line by line whatever its length, the size of the buffer and the  *)
(* places where fgets has to stop: the loop of the passes goes on with     *)
(* each line that is not blank and no comment once, whole and in order.    *)
THEOREM Lines == Spec => []LinesWhole
  BY Invariance, WholeFile, PTL
=============================================================================
