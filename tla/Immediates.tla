----------------------------- MODULE Immediates -----------------------------
(***************************************************************************)
(* How li and la of src/instruction.c split a 32-bit value into the parts  *)
(* of lui or auipc and addi, and what the processor makes of the parts.    *)
(*                                                                         *)
(* The pseudo-instruction is expanded, every instruction of the expansion  *)
(* goes through the immediate check and the bit field of encode(), as any  *)
(* instruction of the source does, and the words are executed.  Sizes are  *)
(* parameters: LOW is the number of values of the immediate of addi, HIGH  *)
(* of that of lui and auipc.                                               *)
(***************************************************************************)
EXTENDS Integers, Sequences

CONSTANTS LOW,     \* 2^12
          HIGH,    \* 2^20
          Longs,   \* the operands of li considered
          Words    \* the addresses considered, uint32_t

ASSUME LowAssumption == LOW \in Nat \ {0} /\ LOW % 2 = 0
ASSUME HighAssumption == HIGH \in Nat \ {0} /\ HIGH % 2 = 0
ASSUME LongsAssumption == Longs \subseteq Int
ASSUME WordsAssumption == Words \subseteq 0..(LOW * HIGH - 1)

WORD == LOW * HIGH

(* The value of the low bits of x, read as a signed number of n values.    *)
Signed(x, n) == ((x + n \div 2) % n) - n \div 2

Int32 == (-(WORD \div 2))..(WORD \div 2 - 1)
Int12 == (-(LOW \div 2))..(LOW \div 2 - 1)

(* INT20_MIN to INT20_MAX, wider than a signed field: either reading of    *)
(* the 20 bits is accepted.  Mutant: only the signed one is.               *)
Int20_Signed == (-(HIGH \div 2))..(HIGH \div 2 - 1)
Int20 == (-(HIGH \div 2))..(HIGH - 1)

(* (x << 20) >> 20                                                         *)
LowPart(x) == Signed(x, LOW)

(* (x - lo) >> 12 in int32_t.  The subtraction overflows where x is close  *)
(* to INT32_MAX; a build then has the wrapped difference or, in a wider    *)
(* register, the exact one.  Mutant: x >> 12, with nothing to make up for  *)
(* the sign of the low part.                                               *)
HighParts_Truncated(x) == {x \div LOW}
HighParts(x) == {d \div LOW : d \in {x - LowPart(x), Signed(x - LowPart(x), WORD)}}

Instruction(o, r, i) == [op |-> o, rs1 |-> r, imm |-> i]

(* expand_li_instr, for an operand in range: the possible expansions.      *)
expand_li_instr(x) ==
    IF x \in Int12 THEN {<<Instruction("addi", "zero", x)>>}
    ELSE {IF LowPart(x) = 0
          THEN <<Instruction("lui", "zero", h)>>
          ELSE <<Instruction("lui", "zero", h), Instruction("addi", "rd", LowPart(x))>>
             : h \in HighParts(x)}

(* expand_la_instr: both conversions to int32_t keep the value mod 2^32.   *)
Offset(symbol, pc) == Signed(symbol - Signed(pc, WORD), WORD)

expand_la_instr(symbol, pc) ==
    LET x == Offset(symbol, pc)
    IN  {<<Instruction("auipc", "pc", h), Instruction("addi", "rd", LowPart(x))>>
             : h \in HighParts(x)}

(* encode() for the three instructions: the check, then the bit field.     *)
ImmediateFits(i) == i.imm \in (IF i.op = "addi" THEN Int12 ELSE Int20)

Field(i) == i.imm % (IF i.op = "addi" THEN LOW ELSE HIGH)

(* What the processor does with a word, by the RISC-V manual: the upper    *)
(* field is shifted left, the lower one is sign-extended, sums wrap.       *)
Execute(i, field, pc, rd) ==
    CASE i.op = "lui"   -> field * LOW
      [] i.op = "auipc" -> (pc + field * LOW) % WORD
      [] i.op = "addi"  -> ((IF i.rs1 = "zero" THEN 0 ELSE rd) + Signed(field, LOW)) % WORD

-----------------------------------------------------------------------------
VARIABLES long,      \* the bits of a long where the assembler runs, 32 or 64
          op,        \* the pseudo-instruction, li or la
          want,      \* operand of li or address of the symbol of la
          pc,        \* address of the pseudo-instruction
          expansion, \* instructions not yet encoded
          rd,        \* the register after the words encoded so far
          state      \* "source", "encode", "done" or "refused"

vars == <<long, op, want, pc, expansion, rd, state>>

Init ==
    /\ long \in {32, 64}
    /\ \/ op = "li" /\ want \in Longs /\ pc = 0
       \/ op = "la" /\ want \in Words /\ pc \in Words
    /\ expansion = <<>>
    /\ rd = 0
    /\ state = "source"

(* strtol answers with the nearest number a long holds.                    *)
Clamped(x) == IF x < -(WORD \div 2) THEN -(WORD \div 2)
              ELSE IF x >= WORD \div 2 THEN WORD \div 2 - 1
              ELSE x

(* imm64 after %li, which stores a long.  One of 64 bits, for which the    *)
(* clamping changes no verdict, fills it.  One of 32, as on the RP2350,    *)
(* goes to the lower half (little-endian) of an imm64 that was 0: the      *)
(* number arrives without its sign.                                        *)
Scanned(x) == IF long = 64 THEN x ELSE Clamped(x) % WORD

Expand ==
    /\ state = "source"
    /\ op = "li" => Scanned(want) \in Int32
    /\ expansion' \in (IF op = "li" THEN expand_li_instr(Scanned(want))
                                    ELSE expand_la_instr(want, pc))
    /\ state' = "encode"
    /\ UNCHANGED <<long, op, want, pc, rd>>

(* CHECK_IMMEDIATE on the operand of li.                                   *)
RefuseOperand ==
    /\ state = "source"
    /\ op = "li" /\ Scanned(want) \notin Int32
    /\ state' = "refused"
    /\ UNCHANGED <<long, op, want, pc, expansion, rd>>

(* encode_pseudo_instr: the next instruction of the expansion meets        *)
(* CHECK_IMMEDIATE and is encoded.  Its word is run at once: the words of  *)
(* a pair stand one after the other, so auipc runs at pc.                  *)
Encode ==
    LET i == Head(expansion)
    IN  /\ state = "encode"
        /\ rd' = IF ImmediateFits(i) THEN Execute(i, Field(i), pc, rd) ELSE rd
        /\ expansion' = Tail(expansion)
        /\ state' = CASE ~ImmediateFits(i)    -> "refused"
                      [] Len(expansion) = 1   -> "done"
                      [] OTHER                -> "encode"
        /\ UNCHANGED <<long, op, want, pc>>

Next == Expand \/ RefuseOperand \/ Encode

Spec == Init /\ [][Next]_vars

-----------------------------------------------------------------------------
(* The register holds the operand of li, or the address of the symbol of   *)
(* la, mod 2^32: at the edges too, where the low part is negative, the     *)
(* difference overflows or the distance crosses the sign.  An operand that *)
(* is no 32-bit number gets this far only where a long has 32 bits and     *)
(* strtol made INT32_MAX of it.                                            *)
Loaded ==
    state = "done" =>
        IF op = "la" \/ want \in Int32
        THEN rd = want % WORD
        ELSE long = 32 /\ want > 0 /\ rd = WORD \div 2 - 1

(* Whatever the expansion of an operand in range, the checks that encode() *)
(* makes on instructions of the source let it through.  What li refuses is *)
(* out of range or, where a long has 32 bits, negative.                    *)
ExpansionAccepted ==
    state = "refused" => op = "li" /\ (want \notin Int32 \/ (long = 32 /\ want < 0))
=============================================================================
