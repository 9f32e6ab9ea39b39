------------------------------ MODULE Registers ------------------------------
(***************************************************************************)
(* parse_register of src/instruction.c, and the names it stands for.       *)
(*                                                                         *)
(* A register operand is what sscanf leaves of it and strcspn cuts at the  *)
(* next blank: a letter with a decimal number behind it, one of the fixed  *)
(* names, or something else, which is refused whatever it is.  What comes  *)
(* behind the fifth character changes nothing, as no buffer holds it: an   *)
(* operand that is longer is given by its first five.  A number is its     *)
(* value: %hhu reads x01 and x+1 as it reads x1, so the three are one      *)
(* operand here.                                                           *)
(***************************************************************************)
EXTENDS Integers

Letters == {"x", "a", "s", "t"}
Decimals == -999..9999
Names == {"zero", "ra", "sp", "gp", "tp"}

(* "fp" and "(a1)" stand for what fits the buffer and is no register,      *)
(* "zero5" for zero with something behind it, and "a1,2" for a register    *)
(* with a comma and a number behind it, which only an operand that ends    *)
(* its line can hold: everywhere else the comma ends the operand.          *)
Others == {"fp", "(a1)", "zero5", "a1,2"}

Token == [name : Letters, number : Decimals] \cup [name : Names \cup Others, number : {0}]

Numbered(letter, n) == [name |-> letter, number |-> n]
Fixed(name) == [name |-> name, number |-> 0]
Comma == Fixed("a1,2")

(* The buffer holds REGISTER_LEN - 1 = 4 characters: a letter and at most  *)
(* three digits.  The fixed names fit, "zero" exactly.                     *)
TooLong(t) == t.number >= 1000 \/ t.number <= -100 \/ t.name = "zero5"

(* What "%4[^#\n]" keeps of an operand that is too long.                   *)
Cut(t) == IF t.name = "zero5" THEN Fixed("zero")
          ELSE IF TooLong(t)
               THEN [t EXCEPT !.number = IF @ < 0 THEN -((-@) \div 10) ELSE @ \div 10]
          ELSE t

(* sscanf(&reg[1], "%hhu"): the number goes through an unsigned char.      *)
Scanned(t) == t.number % 256

INVALID == -1

(* Mutant: s11 is left out.                                                *)
parse_register_Ten(t) ==
    CASE t.name = "x" /\ Scanned(t) <= 31 -> Scanned(t)
      [] t.name = "a" /\ Scanned(t) <= 7  -> Scanned(t) + 10
      [] t.name = "s" /\ Scanned(t) < 2   -> Scanned(t) + 8
      [] t.name = "s" /\ Scanned(t) \in 2..10 -> Scanned(t) + 16
      [] t.name = "t" /\ Scanned(t) < 3   -> Scanned(t) + 5
      [] t.name = "t" /\ Scanned(t) \in 3..6 -> Scanned(t) + 25
      [] t.name = "zero" -> 0
      [] t.name = "ra" -> 1
      [] t.name = "sp" -> 2
      [] t.name = "gp" -> 3
      [] t.name = "tp" -> 4
      [] OTHER -> INVALID
parse_register(t) ==
    CASE t.name = "x" /\ Scanned(t) <= 31 -> Scanned(t)
      [] t.name = "a" /\ Scanned(t) <= 7  -> Scanned(t) + 10
      [] t.name = "s" /\ Scanned(t) < 2   -> Scanned(t) + 8
      [] t.name = "s" /\ Scanned(t) \in 2..11 -> Scanned(t) + 16
      [] t.name = "t" /\ Scanned(t) < 3   -> Scanned(t) + 5
      [] t.name = "t" /\ Scanned(t) \in 3..6 -> Scanned(t) + 25
      [] t.name = "zero" -> 0
      [] t.name = "ra" -> 1
      [] t.name = "sp" -> 2
      [] t.name = "gp" -> 3
      [] t.name = "tp" -> 4
      [] OTHER -> INVALID

-----------------------------------------------------------------------------
(* The names of the RISC-V calling convention, in the order of the         *)
(* registers.  fp, its other name of x8, is one the assembler never knew.  *)
ABI ==
    <<Fixed("zero"), Fixed("ra"), Fixed("sp"), Fixed("gp"), Fixed("tp"),
      Numbered("t", 0), Numbered("t", 1), Numbered("t", 2),
      Numbered("s", 0), Numbered("s", 1),
      Numbered("a", 0), Numbered("a", 1), Numbered("a", 2), Numbered("a", 3),
      Numbered("a", 4), Numbered("a", 5), Numbered("a", 6), Numbered("a", 7),
      Numbered("s", 2), Numbered("s", 3), Numbered("s", 4), Numbered("s", 5),
      Numbered("s", 6), Numbered("s", 7), Numbered("s", 8), Numbered("s", 9),
      Numbered("s", 10), Numbered("s", 11),
      Numbered("t", 3), Numbered("t", 4), Numbered("t", 5), Numbered("t", 6)>>

Registers == 0..31

(* The registers an operand names: none or one.                            *)
Named(t) == {r \in Registers : t = Numbered("x", r) \/ t = ABI[r + 1]}
=============================================================================
