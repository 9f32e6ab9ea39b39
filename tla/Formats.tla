------------------------------- MODULE Formats -------------------------------
(***************************************************************************)
(* The instruction table of gperf/instructions.gperf, the word formats of  *)
(* include/instruction.h, and the other side of them: how a RISC-V         *)
(* processor reads a word.                                                 *)
(*                                                                         *)
(* A word is the set of its bits that are 1, so | is union and a shift     *)
(* moves the bits.                                                         *)
(***************************************************************************)
EXTENDS Integers

(* The bits of a number, as a 32-bit two's complement word.                *)
Bits(v) == {i \in 0..30 : (v \div 2^i) % 2 = 1} \cup IF v < 0 THEN {31} ELSE {}

Mask(n) == 0..(n - 1)
Left(w, n) == {b + n : b \in w} \cap Mask(32)
Right(w, n) == {b - n : b \in w \ Mask(n)}

Opcodes(type, opcode, funct3, funct7) ==
    [type |-> type, opcode |-> opcode, funct3 |-> funct3, funct7 |-> funct7]

Table ==
    [add   |-> Opcodes("R", 51, 0, 0),  sub  |-> Opcodes("R", 51, 0, 32),
     xor   |-> Opcodes("R", 51, 4, 0),  or   |-> Opcodes("R", 51, 6, 0),
     and   |-> Opcodes("R", 51, 7, 0),  sll  |-> Opcodes("R", 51, 1, 0),
     srl   |-> Opcodes("R", 51, 5, 0),  sra  |-> Opcodes("R", 51, 5, 32),
     slt   |-> Opcodes("R", 51, 2, 0),  sltu |-> Opcodes("R", 51, 3, 0),
     addi  |-> Opcodes("I", 19, 0, 0),  xori |-> Opcodes("I", 19, 4, 0),
     ori   |-> Opcodes("I", 19, 6, 0),  andi |-> Opcodes("I", 19, 7, 0),
     slli  |-> Opcodes("I", 19, 1, 0),  srli |-> Opcodes("I", 19, 5, 0),
     srai  |-> Opcodes("I", 19, 5, 32), slti |-> Opcodes("I", 19, 2, 0),
     sltiu |-> Opcodes("I", 19, 3, 0),
     lb    |-> Opcodes("I", 3, 0, 0),   lh   |-> Opcodes("I", 3, 1, 0),
     lw    |-> Opcodes("I", 3, 2, 0),   lbu  |-> Opcodes("I", 3, 4, 0),
     lhu   |-> Opcodes("I", 3, 5, 0),   ecall |-> Opcodes("Z", 115, 0, 0),
     sb    |-> Opcodes("S", 35, 0, 0),  sh   |-> Opcodes("S", 35, 1, 0),
     sw    |-> Opcodes("S", 35, 2, 0),
     auipc |-> Opcodes("U", 23, 0, 0),  lui  |-> Opcodes("U", 55, 0, 0),
     beq   |-> Opcodes("B", 99, 0, 0),  bne  |-> Opcodes("B", 99, 1, 0),
     blt   |-> Opcodes("B", 99, 4, 0),  bge  |-> Opcodes("B", 99, 5, 0),
     bltu  |-> Opcodes("B", 99, 6, 0),  bgeu |-> Opcodes("B", 99, 7, 0)]

Plains == DOMAIN Table

(* is_load_store: of the I-type only the loads ask.                        *)
is_load_store(name) == name \in {"lb", "lh", "lw", "lbu", "lhu", "sb", "sh", "sw"}

-----------------------------------------------------------------------------
(* The ASSEMBLE_?_TYPE macros; rd, rs1 and rs2 are numbers, imm a word.    *)

Opcode(i) == Bits(i.opcode)
Funct3(i) == Left(Bits(i.funct3), 12)
Funct7(i) == Left(Bits(i.funct7), 25)
Rd(r)  == Left(Bits(r), 7)
Rs1(r) == Left(Bits(r), 15)
Rs2(r) == Left(Bits(r), 20)

ASSEMBLE_R_TYPE(i, rs2, rs1, rd) ==
    Funct7(i) \cup Rs2(rs2) \cup Rs1(rs1) \cup Funct3(i) \cup Rd(rd) \cup Opcode(i)

ASSEMBLE_I_TYPE(i, rs1, imm, rd) ==
    Left(imm \cap Mask(12), 20) \cup Rs1(rs1) \cup Funct3(i) \cup Rd(rd) \cup Opcode(i)

ASSEMBLE_S_TYPE(i, rs1, rs2, imm) ==
    Left(Right(imm, 5) \cap Mask(7), 25) \cup Rs2(rs2) \cup Rs1(rs1)
        \cup Funct3(i) \cup Left(imm \cap Mask(5), 7) \cup Opcode(i)

(* Mutant: bits 11 and 12 of the offset are swapped.                       *)
ASSEMBLE_B_TYPE_Swapped(i, rs1, rs2, imm) ==
    Left(Right(imm, 11) \cap Mask(1), 31) \cup Left(Right(imm, 5) \cap Mask(6), 25)
        \cup Rs2(rs2) \cup Rs1(rs1) \cup Funct3(i)
        \cup Left(Right(imm, 1) \cap Mask(4), 8)
        \cup Left(Right(imm, 12) \cap Mask(1), 7) \cup Opcode(i)
ASSEMBLE_B_TYPE(i, rs1, rs2, imm) ==
    Left(Right(imm, 12) \cap Mask(1), 31) \cup Left(Right(imm, 5) \cap Mask(6), 25)
        \cup Rs2(rs2) \cup Rs1(rs1) \cup Funct3(i)
        \cup Left(Right(imm, 1) \cap Mask(4), 8)
        \cup Left(Right(imm, 11) \cap Mask(1), 7) \cup Opcode(i)

ASSEMBLE_U_TYPE(i, rd, imm) ==
    Left(imm \cap Mask(20), 12) \cup Rd(rd) \cup Opcode(i)

ASSEMBLE_Z_TYPE(i) == Funct7(i) \cup Funct3(i) \cup Opcode(i)

-----------------------------------------------------------------------------
(* A RISC-V processor                                                      *)

Slice(w, low, n) == Right(w, low) \cap Mask(n)

(* The bit of the word that bit i of the immediate is taken from, bit 31   *)
(* of the word being the sign; NoBit reads as 0.                           *)
NoBit == 32
ImmediateBit(type, i) ==
    CASE type = "I" -> IF i <= 10 THEN i + 20 ELSE 31
      [] type = "S" -> IF i <= 4 THEN i + 7 ELSE IF i <= 10 THEN i + 20 ELSE 31
      [] type = "B" -> IF i = 0 THEN NoBit ELSE IF i <= 4 THEN i + 7
                       ELSE IF i <= 10 THEN i + 20 ELSE IF i = 11 THEN 7 ELSE 31
      [] type = "U" -> IF i < 12 THEN NoBit ELSE i

Immediate(type, w) == {i \in Mask(32) : ImmediateBit(type, i) \in w}

(* The major opcodes, each with its instructions in the order of funct3.   *)
Major ==
    {[code |-> 51,  type |-> "R", names |-> <<"add", "sll", "slt", "sltu", "xor", "srl", "or", "and">>],
     [code |-> 19,  type |-> "I", names |-> <<"addi", "slli", "slti", "sltiu", "xori", "srli", "ori", "andi">>],
     [code |-> 3,   type |-> "I", names |-> <<"lb", "lh", "lw", "ld", "lbu", "lhu", "lwu", "-">>],
     [code |-> 35,  type |-> "S", names |-> <<"sb", "sh", "sw", "sd", "-", "-", "-", "-">>],
     [code |-> 99,  type |-> "B", names |-> <<"beq", "bne", "-", "-", "blt", "bge", "bltu", "bgeu">>],
     [code |-> 55,  type |-> "U", names |-> [f \in 1..8 |-> "lui"]],
     [code |-> 23,  type |-> "U", names |-> [f \in 1..8 |-> "auipc"]],
     [code |-> 115, type |-> "Z", names |-> [f \in 1..8 |-> "ecall"]]}

(* Bit 30 tells sub from add, sra from srl and srai from srli.             *)
Alternate == [add |-> "sub", srl |-> "sra", srli |-> "srai"]

Shifts == {"slli", "srli", "srai"}

(* The number whose bits are a set.                                        *)
Number(bits, limit) == CHOOSE n \in limit : Bits(n) = bits

(* The instruction a word is, or the opcode none has.                      *)
Decode(w) ==
    LET major == CHOOSE m \in Major : Bits(m.code) = Slice(w, 0, 7)
        base  == major.names[Number(Slice(w, 12, 3), 0..7) + 1]
        name  == IF base \in DOMAIN Alternate /\ 30 \in w THEN Alternate[base] ELSE base
    IN  [name |-> name,
         rd   |-> IF major.type \in {"R", "I", "U"} THEN Slice(w, 7, 5) ELSE {},
         rs1  |-> IF major.type \in {"R", "I", "S", "B"} THEN Slice(w, 15, 5) ELSE {},
         rs2  |-> IF major.type \in {"R", "S", "B"} THEN Slice(w, 20, 5) ELSE {},
         imm  |-> CASE name \in Shifts -> Slice(w, 20, 5)
                    [] name \notin Shifts /\ major.type \in {"I", "S", "B", "U"} -> Immediate(major.type, w)
                    [] OTHER -> {}]
=============================================================================
