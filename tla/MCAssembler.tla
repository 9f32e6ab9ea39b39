---------------------------- MODULE MCAssembler -----------------------------
(***************************************************************************)
(* Finite sets of source files for Assembler: the short files over every   *)
(* line, and files that are a line longer over the lines of a program.     *)
(***************************************************************************)
EXTENDS AssemblerRefinement, AssemblerInvariant, SequencesExt

CONSTANTS MaxLines,    \* lines of the longest file
          msg, val, buf  \* the names the files define and use

(* One line for every way either pass can go.                              *)
EveryLine ==
    {Blank, Dot("text"), Dot("data"), Dot("bss"), Dot("other"),
     Content(NoLabel, Plain("OK")), Content(NoLabel, Plain("PARSE_ERROR")),
     Content(NoLabel, Pseudo(2, "OK", "OK")),
     Content(NoLabel, Pseudo(1, "INVALID_IMMEDIATE", "OK")),
     Content(NoLabel, Pseudo(1, "OK", "INVALID_REGISTER")),
     Content(NoLabel, La(msg)), Content(NoLabel, Unknown),
     Content(msg, NoStatement), Content(val, Plain("OK")),
     Content(msg, Directive(1, "OK")), Content(val, Directive(12, "OK")),
     Content(val, Directive(0, "UNKNOWN_PSEUDO")),
     Content(buf, Directive(0, "OK"))}

(* The lines an assembled program is made of, for longer files.            *)
GoodLine ==
    {Dot("text"), Dot("data"), Content(NoLabel, Plain("OK")),
     Content(NoLabel, La(msg)), Content(NoLabel, La(val)),
     Content(msg, Directive(1, "OK")), Content(val, Directive(3, "OK"))}

EveryFile == BoundedSeq(EveryLine, MaxLines)
LongerFile == EveryFile \cup BoundedSeq(GoodLine, MaxLines + 1)

(* Files that pass the first pass and differ in what they lay down, and    *)
(* lines of .bss, which only a replaced file can bring to the second pass. *)
ReplacedFile ==
    BoundedSeq({Dot("data"), Dot("bss"), Content(NoLabel, Plain("OK")),
                Content(NoLabel, Pseudo(2, "OK", "OK")), Content(NoLabel, La(msg)),
                Content(msg, Directive(1, "OK"))}, MaxLines)
=============================================================================
