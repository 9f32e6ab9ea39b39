---------------------------- MODULE LayoutLemmas ----------------------------
(***************************************************************************)
(* What the operators of ElfLayout on files, sequences of chunks, return   *)
(* for every file.                                                         *)
(***************************************************************************)
EXTENDS ElfLayout, SequenceTheorems, WellFoundedInduction, TLAPS

(* A file: a sequence of chunks, each of which has a size.                 *)
IsFile(chunks) ==
    /\ \E S : chunks \in Seq(S)
    /\ \A k \in 1..Len(chunks) : chunks[k].size \in Nat

(* The recursion of Before, as a function on the numbers of chunks.        *)
IsSum(sum, chunks, n) ==
    /\ sum \in [0..n -> Nat]
    /\ sum[0] = 0
    /\ \A j \in 1..n : sum[j] = sum[j - 1] + chunks[j].size

-----------------------------------------------------------------------------
(* Induction, for a set in place of a predicate: the natural numbers are   *)
(* well-founded, so a number outside the set would have a least one.       *)
LEMMA SetInduction ==
    ASSUME NEW T, 0 \in T, \A n \in Nat : n \in T => n + 1 \in T
    PROVE  \A n \in Nat : n \in T
  <1> DEFINE R == {p \in Nat \X Nat : p[1] < p[2]}
             U == Nat \ T
  <1>1. IsWellFoundedOn(R, Nat)
    BY NatLessThanWellFounded DEF OpToRel
  <1>2. ASSUME U # {} PROVE FALSE
    <2>1. PICK n \in U : \A m \in U : ~(<<m, n>> \in R)
      <3>1. U \subseteq Nat
        OBVIOUS
      <3> HIDE DEF R, U
      <3> QED
        BY <1>1, <1>2, <3>1, WFMin
    <2>2. n # 0 /\ n \in Nat
      OBVIOUS
    <2>3. n - 1 \in Nat /\ n - 1 \notin T
      BY <2>2
    <2>4. <<n - 1, n>> \in R
      BY <2>2, <2>3
    <2> QED
      BY <2>1, <2>3, <2>4
  <1> QED
    BY <1>2

(* The sums of the sizes of the chunks exist.                              *)
LEMMA SumExists ==
    ASSUME NEW chunks, IsFile(chunks)
    PROVE  \E sum : IsSum(sum, chunks, Len(chunks))
  <1> DEFINE T == {n \in Nat : n <= Len(chunks) => \E sum : IsSum(sum, chunks, n)}
  <1>1. 0 \in T
    <2>1. IsSum([j \in 0..0 |-> 0], chunks, 0)
      BY DEF IsSum
    <2> QED
      BY <2>1
  <1>2. ASSUME NEW n \in Nat, n \in T PROVE n + 1 \in T
    <2> SUFFICES ASSUME n + 1 <= Len(chunks)
                 PROVE  \E sum : IsSum(sum, chunks, n + 1)
      OBVIOUS
    <2>1. PICK sum : IsSum(sum, chunks, n)
      BY <1>2
    <2> DEFINE more == [j \in 0..(n + 1) |->
                           IF j <= n THEN sum[j] ELSE sum[n] + chunks[n + 1].size]
    <2>2. chunks[n + 1].size \in Nat
      <3>1. n + 1 \in 1..Len(chunks)
        OBVIOUS
      <3> QED
        BY <3>1 DEF IsFile
    <2>3. IsSum(more, chunks, n + 1)
      <3>1. more \in [0..(n + 1) -> Nat]
        BY <2>1, <2>2 DEF IsSum
      <3>2. more[0] = 0
        BY <2>1 DEF IsSum
      <3>3. ASSUME NEW j \in 1..(n + 1) PROVE more[j] = more[j - 1] + chunks[j].size
        BY <2>1 DEF IsSum
      <3> QED
        BY <3>1, <3>2, <3>3 DEF IsSum
    <2> QED
      BY <2>3
  <1>3. \A n \in Nat : n \in T
    <2> HIDE DEF T
    <2> QED
      BY <1>1, <1>2, SetInduction
  <1> QED
    BY <1>3 DEF IsFile

(* Before, which is defined by recursion, has these sums as its values.    *)
LEMMA BeforeIsSum ==
    ASSUME NEW chunks, IsFile(chunks), NEW sum, IsSum(sum, chunks, Len(chunks)),
           NEW k \in 1..(Len(chunks) + 1)
    PROVE  Before(chunks, k) = sum[k - 1]
  <1> DEFINE F == CHOOSE f : f = [j \in 0..(k - 1) |->
                       IF j = 0 THEN 0 ELSE f[j - 1] + chunks[j].size]
             Solves(f) == f = [j \in 0..(k - 1) |->
                       IF j = 0 THEN 0 ELSE f[j - 1] + chunks[j].size]
             s == [j \in 0..(k - 1) |-> sum[j]]
  <1>1. Len(chunks) \in Nat /\ k - 1 \in Nat /\ k - 1 <= Len(chunks)
    BY DEF IsFile
  <1>2. Solves(s)
    <2>1. \A j \in 0..(k - 1) : s[j] = IF j = 0 THEN 0 ELSE s[j - 1] + chunks[j].size
      BY <1>1 DEF IsSum
    <2> QED
      BY <2>1
  <1>3. Solves(F)
    BY <1>2
  <1>4. \A j \in 0..(k - 1) : F[j] = IF j = 0 THEN 0 ELSE F[j - 1] + chunks[j].size
    BY <1>3
  <1> DEFINE T == {n \in Nat : n <= k - 1 => F[n] = sum[n]}
  <1> HIDE DEF F
  <1>5. 0 \in T
    BY <1>1, <1>4 DEF IsSum
  <1>6. \A n \in Nat : n \in T => n + 1 \in T
    BY <1>1, <1>4 DEF IsSum
  <1>7. \A n \in Nat : n \in T
    <2> HIDE DEF T
    <2> QED
      BY <1>5, <1>6, SetInduction
  <1>8. F[k - 1] = sum[k - 1]
    BY <1>1, <1>7
  <1> QED
    BY <1>8 DEF Before, F

(* Before adds the sizes up, chunk by chunk.                               *)
LEMMA BeforeStep ==
    ASSUME NEW chunks, IsFile(chunks)
    PROVE  /\ Before(chunks, 1) = 0
           /\ \A k \in 1..(Len(chunks) + 1) : Before(chunks, k) \in Nat
           /\ \A k \in 1..Len(chunks) :
                  Before(chunks, k + 1) = Before(chunks, k) + chunks[k].size
  <1>1. Len(chunks) \in Nat
    BY DEF IsFile
  <1>2. PICK sum : IsSum(sum, chunks, Len(chunks))
    BY SumExists
  <1>3. \A k \in 1..(Len(chunks) + 1) : Before(chunks, k) = sum[k - 1]
    BY <1>2, BeforeIsSum
  <1>4. \A k \in 1..(Len(chunks) + 1) : sum[k - 1] \in Nat
    BY <1>1, <1>2 DEF IsSum
  <1>5. \A k \in 1..Len(chunks) : sum[k] = sum[k - 1] + chunks[k].size
    BY <1>1, <1>2 DEF IsSum
  <1>6. sum[0] = 0
    BY <1>2 DEF IsSum
  <1>7. Before(chunks, 1) = 0
    BY <1>1, <1>3, <1>6
  <1>8. ASSUME NEW k \in 1..Len(chunks)
        PROVE  Before(chunks, k + 1) = Before(chunks, k) + chunks[k].size
    <2>1. k \in 1..(Len(chunks) + 1) /\ k + 1 \in 1..(Len(chunks) + 1) /\ (k + 1) - 1 = k
      BY <1>1
    <2>2. Before(chunks, k) = sum[k - 1] /\ Before(chunks, k + 1) = sum[k]
      BY <1>3, <2>1
    <2> QED
      BY <1>5, <2>2
  <1>9. \A k \in 1..(Len(chunks) + 1) : Before(chunks, k) \in Nat
    BY <1>3, <1>4
  <1> QED
    BY <1>7, <1>8, <1>9

(* A later chunk begins no earlier.                                        *)
LEMMA BeforeMonotone ==
    ASSUME NEW chunks, IsFile(chunks),
           NEW j \in 1..(Len(chunks) + 1), NEW k \in 1..(Len(chunks) + 1), j <= k
    PROVE  Before(chunks, j) <= Before(chunks, k)
  <1> DEFINE T == {n \in Nat : j + n <= Len(chunks) + 1 =>
                                   Before(chunks, j) <= Before(chunks, j + n)}
  <1>1. Len(chunks) \in Nat
    BY DEF IsFile
  <1>2. 0 \in T
    BY <1>1, BeforeStep
  <1>3. ASSUME NEW n \in Nat, n \in T PROVE n + 1 \in T
    <2> SUFFICES ASSUME j + n + 1 <= Len(chunks) + 1
                 PROVE  Before(chunks, j) <= Before(chunks, j + n + 1)
      BY <1>1
    <2>1. j + n \in 1..Len(chunks)
      BY <1>1
    <2>2. Before(chunks, j + n + 1) = Before(chunks, j + n) + chunks[j + n].size
      BY <2>1, BeforeStep
    <2>3. chunks[j + n].size \in Nat
      BY <2>1 DEF IsFile
    <2>4. Before(chunks, j) \in Nat /\ Before(chunks, j + n) \in Nat
      BY <1>1, <2>1, BeforeStep
    <2>5. Before(chunks, j) <= Before(chunks, j + n)
      BY <1>1, <1>3
    <2> QED
      BY <2>2, <2>3, <2>4, <2>5
  <1>4. \A n \in Nat : n \in T
    <2> HIDE DEF T
    <2> QED
      BY <1>2, <1>3, SetInduction
  <1>5. k - j \in T
    BY <1>1, <1>4
  <1> QED
    BY <1>1, <1>5

(* Which chunk an offset lies in.                                          *)
Within(chunks, k, o) ==
    o >= Before(chunks, k) /\ o < Before(chunks, k) + chunks[k].size

(* No offset lies in two chunks.                                           *)
LEMMA ChunksDisjoint ==
    ASSUME NEW chunks, IsFile(chunks), NEW o \in Int,
           NEW j \in 1..Len(chunks), NEW k \in 1..Len(chunks),
           Within(chunks, j, o), Within(chunks, k, o)
    PROVE  j = k
  <1>1. Len(chunks) \in Nat
    BY DEF IsFile
  <1>2. ASSUME NEW a \in 1..Len(chunks), NEW b \in 1..Len(chunks), a < b,
               Within(chunks, a, o), Within(chunks, b, o)
        PROVE  FALSE
    <2>1. Before(chunks, a + 1) <= Before(chunks, b)
      BY <1>1, <1>2, BeforeMonotone
    <2>2. Before(chunks, a + 1) = Before(chunks, a) + chunks[a].size
      BY BeforeStep
    <2>3. Before(chunks, a + 1) \in Nat /\ Before(chunks, b) \in Nat
      BY <1>1, BeforeStep
    <2> QED
      BY <1>2, <2>1, <2>2, <2>3 DEF Within
  <1> QED
    BY <1>1, <1>2

(* The bytes of a chunk are found where the chunks in front of it end.     *)
LEMMA ByteAt ==
    ASSUME NEW chunks, IsFile(chunks), NEW k \in 1..Len(chunks),
           NEW i \in 0..(chunks[k].size - 1)
    PROVE  Byte(chunks, Before(chunks, k) + i) = <<chunks[k].what, i>>
  <1> DEFINE o == Before(chunks, k) + i
             c == CHOOSE c \in DOMAIN chunks : Within(chunks, c, o)
  <1>1. Len(chunks) \in Nat /\ DOMAIN chunks = 1..Len(chunks)
    BY DEF IsFile
  <1>2. Before(chunks, k) \in Nat /\ chunks[k].size \in Nat
    BY <1>1, BeforeStep DEF IsFile
  <1>3. Within(chunks, k, o)
    BY <1>2 DEF Within
  <1>4. c \in 1..Len(chunks) /\ Within(chunks, c, o)
    BY <1>1, <1>3
  <1> HIDE DEF c
  <1>5. c = k
    BY <1>2, <1>3, <1>4, ChunksDisjoint
  <1>6. Byte(chunks, o) = <<chunks[c].what, o - Before(chunks, c)>>
    BY <1>1, <1>3 DEF Byte, Within, c
  <1> QED
    BY <1>2, <1>5, <1>6

(* Nothing is found behind the last chunk.                                 *)
LEMMA NothingBehind ==
    ASSUME NEW chunks, IsFile(chunks), NEW o \in Int, o >= Size(chunks)
    PROVE  Byte(chunks, o) = Nothing
  <1>1. Len(chunks) \in Nat /\ DOMAIN chunks = 1..Len(chunks)
    BY DEF IsFile
  <1>2. ASSUME NEW k \in 1..Len(chunks), Within(chunks, k, o) PROVE FALSE
    <2>1. Before(chunks, k + 1) <= Size(chunks)
      BY <1>1, BeforeMonotone DEF Size
    <2>2. Before(chunks, k + 1) = Before(chunks, k) + chunks[k].size
      BY BeforeStep
    <2>3. Size(chunks) \in Nat /\ Before(chunks, k) \in Nat /\ chunks[k].size \in Nat
      BY <1>1, BeforeStep DEF IsFile, Size
    <2> QED
      BY <1>2, <2>1, <2>2, <2>3 DEF Within
  <1> QED
    BY <1>1, <1>2 DEF Byte, Within

(* One more chunk at the end leaves the others where they are.             *)
LEMMA BeforeAppend ==
    ASSUME NEW chunks, IsFile(chunks), NEW c, c.size \in Nat
    PROVE  /\ IsFile(Append(chunks, c))
           /\ Len(Append(chunks, c)) = Len(chunks) + 1
           /\ \A k \in 1..Len(chunks) : Append(chunks, c)[k] = chunks[k]
           /\ \A k \in 1..(Len(chunks) + 1) :
                  Before(Append(chunks, c), k) = Before(chunks, k)
  <1> DEFINE more == Append(chunks, c)
  <1>1. Len(chunks) \in Nat
    BY DEF IsFile
  <1>2. PICK S : chunks \in Seq(S)
    BY DEF IsFile
  <1>3. /\ more \in Seq(S \cup {c})
        /\ Len(more) = Len(chunks) + 1
        /\ \A k \in 1..Len(chunks) : more[k] = chunks[k]
        /\ more[Len(chunks) + 1] = c
    <2>1. chunks \in Seq(S \cup {c})
      BY <1>2
    <2> QED
      BY <2>1, AppendProperties
  <1> HIDE DEF more
  <1>4. IsFile(more)
    BY <1>1, <1>3 DEF IsFile
  <1> DEFINE T == {n \in Nat : n <= Len(chunks) => Before(more, n + 1) = Before(chunks, n + 1)}
  <1>5. 0 \in T
    BY <1>4, BeforeStep
  <1>6. ASSUME NEW n \in Nat, n \in T PROVE n + 1 \in T
    <2> SUFFICES ASSUME n + 1 <= Len(chunks)
                 PROVE  Before(more, n + 2) = Before(chunks, n + 2)
      BY <1>1
    <2>1. n + 1 \in 1..Len(chunks) /\ n + 1 \in 1..Len(more) /\ (n + 1) + 1 = n + 2
      BY <1>1, <1>3
    <2>2. Before(more, n + 2) = Before(more, n + 1) + more[n + 1].size
      BY <1>4, <2>1, BeforeStep
    <2>3. Before(chunks, n + 2) = Before(chunks, n + 1) + chunks[n + 1].size
      BY <2>1, BeforeStep
    <2>4. Before(more, n + 1) = Before(chunks, n + 1)
      BY <1>1, <1>6
    <2> QED
      BY <1>3, <2>1, <2>2, <2>3, <2>4
  <1>7. \A n \in Nat : n \in T
    <2> HIDE DEF T
    <2> QED
      BY <1>5, <1>6, SetInduction
  <1>8. ASSUME NEW k \in 1..(Len(chunks) + 1) PROVE Before(more, k) = Before(chunks, k)
    <2>1. k - 1 \in Nat /\ k - 1 <= Len(chunks) /\ (k - 1) + 1 = k
      BY <1>1
    <2>2. k - 1 \in T
      BY <1>7, <2>1
    <2> QED
      BY <2>1, <2>2
  <1> QED
    BY <1>3, <1>4, <1>8 DEF more

(* The sequences that the parts of a file are joined to.                   *)
LEMMA Join11 ==
    ASSUME NEW a, NEW b
    PROVE  <<a>> \o <<b>> = <<a, b>>
  <1> DEFINE S == {a, b}
  <1>1. <<a>> \o <<b>> \in Seq(S) /\ <<a, b>> \in Seq(S)
    OBVIOUS
  <1>2. Len(<<a>> \o <<b>>) = 2 /\ Len(<<a, b>>) = 2
    OBVIOUS
  <1>3. \A i \in 1..2 : (<<a>> \o <<b>>)[i] = <<a, b>>[i]
    OBVIOUS
  <1> HIDE DEF S
  <1> QED
    BY <1>1, <1>2, <1>3, SeqEqual

(* The same for other numbers of chunks.                                   *)
LEMMA Join21 ==
    ASSUME NEW a, NEW b, NEW c
    PROVE  <<a, b>> \o <<c>> = <<a, b, c>>
  <1> DEFINE S == {a, b, c}
  <1>1. <<a, b>> \o <<c>> \in Seq(S) /\ <<a, b, c>> \in Seq(S)
    OBVIOUS
  <1>2. Len(<<a, b>> \o <<c>>) = 3 /\ Len(<<a, b, c>>) = 3
    OBVIOUS
  <1>3. \A i \in 1..3 : (<<a, b>> \o <<c>>)[i] = <<a, b, c>>[i]
    OBVIOUS
  <1> HIDE DEF S
  <1> QED
    BY <1>1, <1>2, <1>3, SeqEqual

(* The same for other numbers of chunks.                                   *)
LEMMA Join31 ==
    ASSUME NEW a, NEW b, NEW c, NEW d
    PROVE  <<a, b, c>> \o <<d>> = <<a, b, c, d>>
  <1> DEFINE S == {a, b, c, d}
  <1>1. <<a, b, c>> \o <<d>> \in Seq(S) /\ <<a, b, c, d>> \in Seq(S)
    OBVIOUS
  <1>2. Len(<<a, b, c>> \o <<d>>) = 4 /\ Len(<<a, b, c, d>>) = 4
    OBVIOUS
  <1>3. \A i \in 1..4 : (<<a, b, c>> \o <<d>>)[i] = <<a, b, c, d>>[i]
    OBVIOUS
  <1> HIDE DEF S
  <1> QED
    BY <1>1, <1>2, <1>3, SeqEqual

(* The same for other numbers of chunks.                                   *)
LEMMA Join22 ==
    ASSUME NEW a, NEW b, NEW e, NEW f
    PROVE  <<a, b>> \o <<e, f>> = <<a, b, e, f>>
  <1> DEFINE S == {a, b, e, f}
  <1>1. <<a, b>> \o <<e, f>> \in Seq(S) /\ <<a, b, e, f>> \in Seq(S)
    OBVIOUS
  <1>2. Len(<<a, b>> \o <<e, f>>) = 4 /\ Len(<<a, b, e, f>>) = 4
    OBVIOUS
  <1>3. \A i \in 1..4 : (<<a, b>> \o <<e, f>>)[i] = <<a, b, e, f>>[i]
    OBVIOUS
  <1> HIDE DEF S
  <1> QED
    BY <1>1, <1>2, <1>3, SeqEqual

(* The same for other numbers of chunks.                                   *)
LEMMA Join32 ==
    ASSUME NEW a, NEW b, NEW c, NEW e, NEW f
    PROVE  <<a, b, c>> \o <<e, f>> = <<a, b, c, e, f>>
  <1> DEFINE S == {a, b, c, e, f}
  <1>1. <<a, b, c>> \o <<e, f>> \in Seq(S) /\ <<a, b, c, e, f>> \in Seq(S)
    OBVIOUS
  <1>2. Len(<<a, b, c>> \o <<e, f>>) = 5 /\ Len(<<a, b, c, e, f>>) = 5
    OBVIOUS
  <1>3. \A i \in 1..5 : (<<a, b, c>> \o <<e, f>>)[i] = <<a, b, c, e, f>>[i]
    OBVIOUS
  <1> HIDE DEF S
  <1> QED
    BY <1>1, <1>2, <1>3, SeqEqual

(* The same for other numbers of chunks.                                   *)
LEMMA Join42 ==
    ASSUME NEW a, NEW b, NEW c, NEW d, NEW e, NEW f
    PROVE  <<a, b, c, d>> \o <<e, f>> = <<a, b, c, d, e, f>>
  <1> DEFINE S == {a, b, c, d, e, f}
  <1>1. <<a, b, c, d>> \o <<e, f>> \in Seq(S) /\ <<a, b, c, d, e, f>> \in Seq(S)
    OBVIOUS
  <1>2. Len(<<a, b, c, d>> \o <<e, f>>) = 6 /\ Len(<<a, b, c, d, e, f>>) = 6
    OBVIOUS
  <1>3. \A i \in 1..6 : (<<a, b, c, d>> \o <<e, f>>)[i] = <<a, b, c, d, e, f>>[i]
    OBVIOUS
  <1> HIDE DEF S
  <1> QED
    BY <1>1, <1>2, <1>3, SeqEqual

(* The names of the string table lie where STR_OFF says.                   *)
LEMMA StringsLaidOut ==
    /\ Size(Strings) = shstrtab_size
    /\ StringAt(STR_OFF.null) = ""
    /\ StringAt(STR_OFF.text) = ".text"
    /\ StringAt(STR_OFF.data) = ".data"
    /\ StringAt(STR_OFF.bss) = ".bss"
    /\ StringAt(STR_OFF.shstrtab) = ".shstrtab"
  <1>1. IsFile(Strings) /\ Len(Strings) = 5 /\ DOMAIN Strings = 1..5
    <2>1. ASSUME NEW a, NEW b, NEW c, NEW d, NEW e
          PROVE  <<a, b, c, d, e>> \in Seq({a, b, c, d, e}) /\ Len(<<a, b, c, d, e>>) = 5
      OBVIOUS
    <2>2. (\E S : Strings \in Seq(S)) /\ Len(Strings) = 5
      BY <2>1, Zenon DEF Strings
    <2>3. \A k \in 1..5 : Strings[k].size \in Nat
      <3>1. /\ Strings[1].size \in Nat
            /\ Strings[2].size \in Nat
            /\ Strings[3].size \in Nat
            /\ Strings[4].size \in Nat
            /\ Strings[5].size \in Nat
        BY DEF Strings
      <3> QED
        BY <3>1
    <2> QED
      BY <2>2, <2>3 DEF IsFile
  <1>2. Before(Strings, 1) = 0
        /\ \A k \in 1..5 : Before(Strings, k + 1) = Before(Strings, k) + Strings[k].size
    BY <1>1, BeforeStep
  <1>3. /\ Before(Strings, 1) = 0
        /\ Before(Strings, 2) = 1
        /\ Before(Strings, 3) = 7
        /\ Before(Strings, 4) = 13
        /\ Before(Strings, 5) = 18
        /\ Before(Strings, 6) = 28
    <2>1. /\ Strings[1].size = 1
          /\ Strings[2].size = 6
          /\ Strings[3].size = 6
          /\ Strings[4].size = 5
          /\ Strings[5].size = 10
      BY DEF Strings
    <2> QED
      BY <1>2, <2>1
  <1>4. ASSUME NEW o, NEW k \in 1..5, Before(Strings, k) = o
        PROVE  StringAt(o) = Strings[k].name
    <2> DEFINE c == CHOOSE c \in DOMAIN Strings : Before(Strings, c) = o
    <2>1. c \in 1..5 /\ Before(Strings, c) = o
      BY <1>1, <1>4
    <2>2. StringAt(o) = Strings[c].name
      BY DEF StringAt
    <2> HIDE DEF c
    <2>3. c = k
      BY <1>3, <1>4, <2>1
    <2> QED
      BY <2>2, <2>3
  <1>5. /\ StringAt(0) = Strings[1].name
        /\ StringAt(1) = Strings[2].name
        /\ StringAt(7) = Strings[3].name
        /\ StringAt(13) = Strings[4].name
        /\ StringAt(18) = Strings[5].name
    BY <1>3, <1>4
  <1>6. Size(Strings) = 28
    BY <1>1, <1>3 DEF Size
  <1> QED
    BY <1>5, <1>6 DEF Strings, STR_OFF, shstrtab_size
=============================================================================
