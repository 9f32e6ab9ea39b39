------------------------------- MODULE Source -------------------------------
(***************************************************************************)
(* What a source line is to the two passes of src/instruction.c.           *)
(*                                                                         *)
(* Both passes cut a line in the same way: string_trim, is_ignorable_line, *)
(* the test for a leading dot, an optional first token that ends in a      *)
(* colon, and then a statement.  The characters are left out; what is kept *)
(* is what each function reports about them.                               *)
(*                                                                         *)
(* A label is the name as it is stored, cut at LABEL_LEN - 1 = 63          *)
(* characters, and so is the operand of la: one of 64 and more runs over   *)
(* the end of symbol_name[NAME_LEN] in expand_pseudo_instr, and a source   *)
(* with such a line is not among the Files of any module.                  *)
(***************************************************************************)
EXTENDS Naturals, Sequences

CONSTANTS Labels,       \* names that can label a line or be the operand of la
          NoLabel       \* the absence of a name

ASSUME NoLabelAssumption == NoLabel \notin Labels

(* The values of enum assembler_error the two passes return.               *)
Errors == {"OK", "ERR", "UNKNOWN_PSEUDO", "INVALID_REGISTER",
           "INVALID_IMMEDIATE", "PARSE_ERROR", "UNKNOWN_INSTRUCTION",
           "SYM_NOT_FOUND", "FILE_ERROR"}

(* The contents of the local buffer `segment`: empty until the first dot   *)
(* line; "other" stands for every name the assembler does not know, an     *)
(* unlabelled directive such as ".word 1" among them.                      *)
SegmentNames == {"", "text", "data", "bss", "other"}

InText(segment) == segment \in {"", "text"}

(* A statement, the part of a line behind its label:                       *)
(*   none       nothing is left on the line                                *)
(*   plain      an instruction of the gperf table that is not of type 'P'  *)
(*   pseudo     an instruction of type 'P' other than la, expanded to n    *)
(*              instructions                                               *)
(*   la         la with the symbol sym                                     *)
(*   directive  a token with a leading dot; its operands lay down n bytes  *)
(*              before the end of the line or the first malformed operand  *)
(*   unknown    any other first token                                      *)
(* `parse` is the error expand_pseudo_instr or parse_data_directive finds  *)
(* in the operands, in either pass; `encode` is the error encode() finds,  *)
(* which only the second pass calls.                                       *)
Statement == [op : {"none", "plain", "pseudo", "la", "directive", "unknown"},
              n : Nat, sym : Labels \cup {NoLabel},
              parse : Errors, encode : Errors]

IsInstruction(s) == s.op \in {"plain", "pseudo", "la"}

(* expand_li_instr yields one or two instructions, expand_la_instr two,    *)
(* the other expansions one.                                               *)
Words(s) == CASE s.op = "plain"  -> 1
              [] s.op = "pseudo" -> s.n
              [] s.op = "la"     -> 2
              [] OTHER           -> 0

(* A line as fgets, string_trim and is_ignorable_line deliver it.          *)
Line == [kind : {"blank", "dot", "content"}, segment : SegmentNames,
         label : Labels \cup {NoLabel}, stmt : Statement]

(* A content line is not empty, and without a label its first token is the *)
(* start of the line: a leading dot would have made it a dot line.  Other  *)
(* lines are not looked at any further.                                    *)
WellFormedLine(l) ==
    /\ l.kind # "content" => l.label = NoLabel /\ l.stmt.op = "none"
    /\ l.kind = "content" /\ l.label = NoLabel
           => l.stmt.op \notin {"none", "directive"}
    /\ l.stmt.op = "pseudo" => l.stmt.n \in 1..2

SourceLine == {l \in Line : WellFormedLine(l)}

(* Constructors, for the sets of lines the model checker enumerates.       *)
NoStatement == [op |-> "none", n |-> 0, sym |-> NoLabel,
                parse |-> "OK", encode |-> "OK"]

Blank == [kind |-> "blank", segment |-> "", label |-> NoLabel,
          stmt |-> NoStatement]

Dot(s) == [Blank EXCEPT !.kind = "dot", !.segment = s]

Content(l, s) == [Blank EXCEPT !.kind = "content", !.label = l, !.stmt = s]

Plain(e)        == [NoStatement EXCEPT !.op = "plain", !.encode = e]
Pseudo(n, p, e) == [NoStatement EXCEPT !.op = "pseudo", !.n = n,
                                       !.parse = p, !.encode = e]
La(l)           == [NoStatement EXCEPT !.op = "la", !.sym = l]
Directive(n, p) == [NoStatement EXCEPT !.op = "directive", !.n = n, !.parse = p]
Unknown         == [NoStatement EXCEPT !.op = "unknown"]
=============================================================================
