------------------------------- MODULE Encoding ------------------------------
(***************************************************************************)
(* One instruction on its way through process_segment_text of              *)
(* src/instruction.c: expand_pseudo_instr for the pseudo-instructions of   *)
(* one instruction, and encode() with its three places to give up, one     *)
(* after another: sscanf, the range of the immediate, parse_register for   *)
(* each operand.  li and la, of two instructions, are in module            *)
(* Immediates.                                                             *)
(***************************************************************************)
EXTENDS Registers, Formats, Sequences

CONSTANTS Lines,    \* the lines considered
          WIDTH     \* bits of a register when an expansion is executed

ASSUME WidthAssumption == WIDTH \in 1..30

Pseudos == {"mv", "neg", "nop", "not", "seqz", "snez"}

(* What sscanf finds behind the name of the instruction: everything its    *)
(* format asks for ("full"), two registers only ("bare"), or less ("bad"). *)
Shapes == {"full", "bare", "bad"}

OperandLine(name, shape, rd, rs1, rs2, imm) ==
    [name |-> name, shape |-> shape, rd |-> rd, rs1 |-> rs1, rs2 |-> rs2, imm |-> imm]

SourceLine ==
    [name : Plains \cup Pseudos, shape : Shapes, rd : Token, rs1 : Token, rs2 : Token, imm : Int]

ASSUME LinesAssumption == Lines \subseteq SourceLine

VARIABLES
    source,   \* the line of the file
    line,     \* lineBuf of encode(): the source, or what it was expanded to
    step,     \* "expand", "scan", "check", "registers" or "done"
    regs,     \* the registers parsed so far, by operand
    err,      \* what encode() or the expansion returned
    word      \* *out_encoded

vars == <<source, line, step, regs, err, word>>

Type == Table[line.name].type

Fail(e) ==
    /\ step' = "done"
    /\ err' = e
    /\ UNCHANGED <<source, line, regs, word>>

Goto(s) == step' = s /\ UNCHANGED <<source, err, word>>

Init ==
    /\ source \in Lines
    /\ line = source
    /\ step = IF source.name \in Pseudos THEN "expand" ELSE "scan"
    /\ regs = <<>>
    /\ err = "OK"
    /\ word = {}

-----------------------------------------------------------------------------
(* expand_pseudo_instr.  The operand behind the comma is rs1, or rs2 of    *)
(* snez; either ends the line, so one that is too long is cut.             *)

Zero == Fixed("zero")

(* Mutant: the operands of sub are the wrong way round.                    *)
expand_neg_instr_Swapped(rd, rs) == OperandLine("sub", "full", rd, rs, Zero, 0)
expand_neg_instr(rd, rs) == OperandLine("sub", "full", rd, Zero, rs, 0)

(* The expansion is printed and encode() reads it again: behind a1,2 the   *)
(* number is the immediate, and the one meant is not looked at.            *)
Printed(name, rd, rs, imm) ==
    IF rs = Comma
    THEN OperandLine(name, "full", rd, Numbered("a", 1), Zero, 2)
    ELSE OperandLine(name, "full", rd, rs, Zero, imm)

Expansion(name, rd, rs) ==
    CASE name = "mv"   -> Printed("addi", rd, rs, 0)
      [] name = "neg"  -> expand_neg_instr(rd, rs)
      [] name = "nop"  -> Printed("addi", Zero, Zero, 0)
      [] name = "not"  -> Printed("xori", rd, rs, -1)
      [] name = "seqz" -> Printed("sltiu", rd, rs, 1)
      [] name = "snez" -> OperandLine("sltu", "full", rd, Zero, rs, 0)

PseudoScans == \/ source.name = "nop"
               \/ source.shape = "full" /\ ~TooLong(source.rd)

ExpandFails == step = "expand" /\ ~PseudoScans /\ Fail("PARSE_ERROR")

Expand ==
    /\ step = "expand" /\ PseudoScans
    /\ line' = Expansion(source.name, source.rd, Cut(source.rs1))
    /\ Goto("scan")
    /\ UNCHANGED regs

-----------------------------------------------------------------------------
(* encode                                                                  *)

(* The order in which the handle_?_type_instr parse their operands.        *)
Operands(type) == CASE type = "R" -> <<"rs2", "rs1", "rd">>
                    [] type = "I" -> <<"rs1", "rd">>
                    [] type = "S" -> <<"rs2", "rs1">>
                    [] type = "B" -> <<"rs1", "rs2">>
                    [] type = "U" -> <<"rd">>
                    [] type = "Z" -> <<>>

Uses(type) == {Operands(type)[k] : k \in DOMAIN Operands(type)}

(* The operand nothing has to match behind, so that it is cut.             *)
Last(name) == IF Table[name].type = "R" THEN {"rs2"}
              ELSE IF is_load_store(name) THEN {"rs1"} ELSE {}

Scans ==
    \/ Type = "Z"
    \/ /\ line.shape = "full" \/ (line.shape = "bare" /\ is_load_store(line.name))
       /\ \A r \in Uses(Type) \ Last(line.name) : ~TooLong(line[r])

ScanFails == step = "scan" /\ ~Scans /\ Fail("PARSE_ERROR")

(* Loads and stores without an offset have the offset 0.                   *)
Scan ==
    /\ step = "scan" /\ Scans
    /\ line' = [r \in DOMAIN line |->
                   IF r \in Last(line.name) THEN Cut(line[r])
                   ELSE IF r = "imm" /\ line.shape = "bare" THEN 0
                   ELSE line[r]]
    /\ Goto("check")
    /\ UNCHANGED regs

ImmediateFits(type, imm) ==
    CASE type \in {"I", "S"} -> imm \in -2^11..2^11 - 1
      [] type = "B" -> imm \in -2^12..2^12 - 1 /\ imm % 2 = 0
      [] type = "U" -> imm \in -2^19..2^20 - 1
      [] OTHER -> TRUE

CheckFails == step = "check" /\ ~ImmediateFits(Type, line.imm) /\ Fail("INVALID_IMMEDIATE")

Check ==
    /\ step = "check" /\ ImmediateFits(Type, line.imm)
    /\ Goto("registers")
    /\ UNCHANGED <<line, regs>>

(* The operand parse_register is called for next.                          *)
NextOperand == line[Operands(Type)[Len(regs) + 1]]

RegisterFails ==
    /\ step = "registers" /\ Len(regs) < Len(Operands(Type))
    /\ parse_register(NextOperand) = INVALID
    /\ Fail("INVALID_REGISTER")

Register ==
    /\ step = "registers" /\ Len(regs) < Len(Operands(Type))
    /\ parse_register(NextOperand) # INVALID
    /\ regs' = Append(regs, parse_register(NextOperand))
    /\ UNCHANGED <<source, line, step, err, word>>

Assembled ==
    LET i   == Table[line.name]
        imm == Bits(line.imm)
    IN  CASE Type = "R" -> ASSEMBLE_R_TYPE(i, regs[1], regs[2], regs[3])
          [] Type = "I" -> ASSEMBLE_I_TYPE(i, regs[1], imm, regs[2])
          [] Type = "S" -> ASSEMBLE_S_TYPE(i, regs[2], regs[1], imm)
          [] Type = "B" -> ASSEMBLE_B_TYPE(i, regs[1], regs[2], imm)
          [] Type = "U" -> ASSEMBLE_U_TYPE(i, regs[1], imm)
          [] Type = "Z" -> ASSEMBLE_Z_TYPE(i)

Encode ==
    /\ step = "registers" /\ Len(regs) = Len(Operands(Type))
    /\ word' = Assembled
    /\ step' = "done"
    /\ UNCHANGED <<source, line, regs, err>>

Returned == step = "done" /\ UNCHANGED vars

Next == \/ ExpandFails \/ Expand \/ ScanFails \/ Scan \/ CheckFails \/ Check
        \/ RegisterFails \/ Register \/ Encode \/ Returned

Spec == Init /\ [][Next]_vars

-----------------------------------------------------------------------------
(* What a line says, and what executing a word does                        *)

Encoded == step = "done" /\ err = "OK"

NamesRegisters(l) == \A r \in Uses(Table[l.name].type) : Named(l[r]) # {}

(* The decoding of the line itself, its operands read as the calling       *)
(* convention and the manual have them.                                    *)
Meant(l) ==
    LET type  == Table[l.name].type
        Of(r) == IF r \in Uses(type) THEN Bits(CHOOSE n \in Registers : n \in Named(l[r])) ELSE {}
    IN  [name |-> l.name, rd |-> Of("rd"), rs1 |-> Of("rs1"), rs2 |-> Of("rs2"),
         imm |-> CASE type \in {"I", "S", "B"} -> Bits(l.imm)
                   [] type = "U"               -> Left(Bits(l.imm), 12)
                   [] OTHER                    -> {}]

(* An immediate a word of the type can hold: a number of 32 bits; those    *)
(* taken from one place of the word are equal, those taken from none 0.    *)
Encodable(type, imm) ==
    CASE type \in {"I", "S", "B"} ->
        /\ imm \div 2^30 \in -2..1
        /\ \A i, j \in Mask(32) :
               LET b == ImmediateBit(type, i)
               IN  /\ b = NoBit => i \notin Bits(imm)
                   /\ b = ImmediateBit(type, j) => (i \in Bits(imm) <=> j \in Bits(imm))
      [] type = "U" -> \E high \in {0, -1} : imm \div 2^19 = high \/ imm \div 2^20 = 0
      [] OTHER -> TRUE

RegisterValues == 0..(2^WIDTH - 1)

(* A register as the low bits of a word.                                   *)
Low(bits) == Number(bits \cap Mask(WIDTH), RegisterValues)

Result(d, x) ==
    LET a == x[Number(d.rs1, Registers)]
        b == x[Number(d.rs2, Registers)]
        i == Low(d.imm)
    IN  CASE d.name = "addi"  -> (a + i) % 2^WIDTH
          [] d.name = "sub"   -> (a - b) % 2^WIDTH
          [] d.name = "xori"  -> Low((Bits(a) \ Bits(i)) \cup (Bits(i) \ Bits(a)))
          [] d.name = "sltiu" -> IF a < i THEN 1 ELSE 0
          [] d.name = "sltu"  -> IF a < b THEN 1 ELSE 0

(* Register 0 is wired to 0.                                               *)
Write(x, r, v) == IF r = 0 THEN x ELSE [x EXCEPT ![r] = v]

Execute(d, x) == Write(x, Number(d.rd, Registers), Result(d, x))

Meaning(name, v) == CASE name = "mv"   -> v
                      [] name = "neg"  -> -v % 2^WIDTH
                      [] name = "not"  -> 2^WIDTH - 1 - v
                      [] name = "seqz" -> IF v = 0 THEN 1 ELSE 0
                      [] name = "snez" -> IF v = 0 THEN 0 ELSE 1

-----------------------------------------------------------------------------
(* Properties                                                              *)

(* A processor reads the word of an instruction back as the very line:     *)
(* the instruction, the registers by the names the calling convention      *)
(* gives them, every bit of the immediate, which the S and B formats       *)
(* scatter over the word.  Of the operands that name no register only      *)
(* those get through whose number %hhu turns into another one.  Left out   *)
(* are srai, see Funct7Kept, and shifts by more than 31.                   *)
Decoded ==
    Encoded =>
        /\ \A r \in Uses(Type) : Named(line[r]) = {} => line[r].number > 255
        /\ /\ NamesRegisters(line)
           /\ line.name # "srai" /\ (line.name \in Shifts => line.imm \in 0..31)
           => Decode(word) = Meant(line)

(* encode() refuses nothing it could encode: when it gives up, the line    *)
(* lacks an operand or has one that is no register, or the immediate is    *)
(* not one the format can hold.  The limits of include/instruction.h and   *)
(* the handling of the letters in parse_register decide this case by case. *)
RefusedForCause ==
    step = "done" /\ err # "OK" =>
        \/ source.shape = "bad"
        \/ source.shape = "bare" /\ ~is_load_store(source.name)
        \/ IF source.name \in Pseudos
           THEN Named(source.rd) = {} \/ Named(source.rs1) = {}
           ELSE \/ ~NamesRegisters(source)
                \/ ~Encodable(Type, source.imm)

(* Executed, the instruction a pseudo-instruction was expanded to does     *)
(* what the name of the pseudo-instruction says, for any value in the      *)
(* register, and touches nothing else; even when both registers are one    *)
(* and when the result goes to x0.  What is assembled although the operand *)
(* behind the comma is no register is a number %hhu turns into another,    *)
(* zero with something behind it, or the a1,2 of an expansion that goes on *)
(* with a comma: mv, not and seqz then assemble an immediate nobody meant. *)
PseudoMeans ==
    Encoded /\ source.name \in Pseudos =>
        /\ source.name # "nop" /\ Named(source.rs1) = {} =>
               \/ source.rs1.number > 255
               \/ source.rs1 = Fixed("zero5")
               \/ source.rs1 = Comma /\ source.name \in {"mv", "not", "seqz"}
        /\ \A rd \in Named(source.rd), rs \in Named(source.rs1), v \in RegisterValues :
               LET x == Write([r \in Registers |-> IF r = 0 THEN 0 ELSE r % 2^WIDTH], rs, v)
               IN  Execute(Decode(word), x) =
                       IF source.name = "nop" THEN x
                       ELSE Write(x, rd, Meaning(source.name, x[rs]))

(* gperf/instructions.gperf:29, "srai", 0x13, 0x5, 0x20, and line 28 for   *)
(* srli: the last seven bits of an immediate shift by less than 32 are     *)
(* those of the table, which is all that tells the two apart.              *)
Funct7Kept ==
    Encoded /\ line.name \in Shifts /\ line.imm \in 0..31
        => Slice(word, 25, 7) = Bits(Table[line.name].funct7)
=============================================================================
