-------------------------- MODULE AssemblerInvariant ------------------------
(***************************************************************************)
(* The inductive invariant behind the safety properties of Assembler.      *)
(*                                                                         *)
(* What ties the two passes together is not in the state of the program:   *)
(* when the second pass runs, the offsets of the first are gone, but for   *)
(* their last values and those the symbol table kept.  The invariant goes  *)
(* by the history variable `mark`, the position of the first pass before   *)
(* every line, and says how each position follows from the one before it.  *)
(***************************************************************************)
EXTENDS Assembler, FiniteSets

Here == [segment |-> segment, text |-> text_offset, data |-> data_offset]

(* The lines the first pass has gone through without an error.             *)
Measured(j) == phase # "failed" /\ (phase = "scan" => j < ln)

(* The lines the second pass has gone through without an error.            *)
Assembled(j) == phase = "done" \/ (phase = "assemble" /\ j < ln)

(* Where a line takes the first pass.  Only instructions in .text and      *)
(* directives in .data move it on; no content outside the two gets by.     *)
Moves(l, m, n) ==
    /\ l.kind = "blank" => n = m
    /\ l.kind = "dot" => n = [m EXCEPT !.segment = l.segment]
    /\ l.kind = "content" =>
           \/ /\ InText(m.segment)
              /\ n = [m EXCEPT !.text = m.text + OPCODE_LEN * Words(l.stmt)]
           \/ /\ m.segment = "data"
              /\ l.label # NoLabel
              /\ n = [m EXCEPT !.data = m.data + l.stmt.n]

Advanced(j) == Moves(file[j], mark[j], mark[j + 1])

Bounds ==
    /\ ln \in 1..(Len(file) + 1)
    /\ DOMAIN mark = 1..(Len(file) + 1)
    /\ mark[1] = Start

Positions ==
    /\ \A j \in 1..Len(file) : Measured(j) => Advanced(j)
    /\ phase \in {"scan", "assemble"} => mark[ln] = Here
    /\ phase \in {"assemble", "done"} =>
           size = [text |-> mark[Len(file) + 1].text,
                   data |-> mark[Len(file) + 1].data]

(* Every label the first pass went past is in the table, and no two lines  *)
(* have the same.                                                          *)
LabelsKnown ==
    \A j \in 1..Len(file) :
        Measured(j) /\ file[j].label # NoLabel =>
            /\ file[j].label \in Names(table)
            /\ \A i \in 1..(j - 1) : file[i].label # file[j].label

UniqueNames ==
    \A i, j \in DOMAIN table : table[i].name = table[j].name => i = j

(* What the second pass adds to the verdict of the first.                  *)
Shapes ==
    \A j \in 1..Len(file) :
        Assembled(j) /\ file[j].kind = "content" =>
            /\ InText(mark[j].segment) => file[j].label = NoLabel
            /\ mark[j].segment = "data" => file[j].stmt.op = "directive"

(* The inductive invariant: between them the two passes have measured      *)
(* every line the same way and have checked it.                            *)
IInv ==
    /\ TypeOK
    /\ Bounds
    /\ Positions
    /\ LabelsKnown
    /\ UniqueNames
    /\ Shapes
    /\ CapacityRespected

-----------------------------------------------------------------------------
(* What the invariant leaves open: the contents of the segments            *)

(* The table has every label under the position the first pass had there.  *)
SymbolsTrue ==
    \A j \in 1..Len(file) :
        Measured(j) /\ file[j].label # NoLabel =>
            symtable_lookup(table, file[j].label) =
                IF InText(mark[j].segment) THEN mark[j].text ELSE mark[j].data

(* A word of .text names the line that it lies under and the half of the   *)
(* pair that it is, and a la carries the distance to its symbol.           *)
WordTrue(o) ==
    LET w == text[o]
        s == file[w.line].stmt
    IN  /\ w.line \in 1..Len(file) /\ Assembled(w.line)
        /\ file[w.line].kind = "content" /\ InText(mark[w.line].segment)
        /\ o < mark[w.line + 1].text
        /\ w.half \in {1, 2} /\ o = mark[w.line].text + OPCODE_LEN * (w.half - 1)
        /\ s.op = "la" => s.sym \in Names(table)
        /\ w.rel = IF s.op = "la"
                   THEN size.text - mark[w.line].text + symtable_lookup(table, s.sym)
                   ELSE 0

(* A byte of .data names the line that it lies under.                      *)
ByteTrue(x) ==
    /\ data[x] \in 1..Len(file) /\ Assembled(data[x])
    /\ file[data[x]].kind = "content" /\ mark[data[x]].segment = "data"
    /\ mark[data[x]].data <= x /\ x < mark[data[x] + 1].data

(* Instructions start at multiples of their length, nothing in between.    *)
Aligned ==
    /\ \A o \in Bytes : o % OPCODE_LEN # 0 => text[o] = NoWord
    /\ phase \in {"assemble", "done"} => text_offset % OPCODE_LEN = 0

Placed ==
    phase \in {"assemble", "done"} =>
        /\ \A o \in Bytes : o < text_offset /\ o % OPCODE_LEN = 0 => WordTrue(o)
        /\ \A x \in Bytes : x < data_offset => ByteTrue(x)
        /\ phase = "done" => size = [text |-> text_offset, data |-> data_offset]

ImageInv == IInv /\ SymbolsTrue /\ Aligned /\ Placed

(* For a file that may be replaced between the passes, when the positions  *)
(* of the first pass mean nothing: the second has laid down all it counts, *)
(* line after line.                                                        *)
Filled ==
    phase \in {"assemble", "done"} =>
        /\ ln <= Len(file) + 1
        /\ text_offset % OPCODE_LEN = 0
        /\ phase = "done" => size = [text |-> text_offset, data |-> data_offset]
        /\ \A b \in Bytes : b < text_offset /\ b % OPCODE_LEN = 0 =>
               /\ text[b].line \in 1..(ln - 1)
               /\ \A c \in Bytes : c < b /\ c % OPCODE_LEN = 0 =>
                      text[c].line <= text[b].line
        /\ \A x \in Bytes : x < data_offset =>
               /\ data[x] \in 1..(ln - 1)
               /\ \A y \in Bytes : y < x => data[y] <= data[x]

-----------------------------------------------------------------------------
(* What the verdict rests on: the table and the checks                     *)

(* The lines that have put a name in the table.                            *)
Defining == {j \in 1..Len(file) : Measured(j) /\ file[j].label # NoLabel}

(* The table holds their names, each once, and nothing else.               *)
Entries ==
    phase # "failed" =>
        /\ Names(table) = {file[j].label : j \in Defining}
        /\ Len(table) = Cardinality(Defining)
        /\ Len(table) <= MAX_SYMBOLS

(* No la gets by the first pass but with a name that is defined by then.   *)
DefinedAbove ==
    \A j \in 1..Len(file) :
        LET s == file[j].stmt
        IN  /\ Measured(j)
            /\ file[j].kind = "content" /\ InText(mark[j].segment) /\ s.op = "la"
            => s.sym # NoLabel /\ \E i \in 1..j : file[i].label = s.sym

(* No statement gets by the second unless all is well with it.             *)
Checked ==
    \A j \in 1..Len(file) :
        LET s == file[j].stmt
        IN  Assembled(j) /\ file[j].kind = "content" =>
                /\ InText(mark[j].segment) =>
                       /\ IsInstruction(s)
                       /\ s.op \in {"pseudo", "la"} => s.parse = "OK"
                       /\ s.encode = "OK"
                /\ mark[j].segment = "data" => s.parse = "OK"

(* The inductive invariant with what the verdict of the passes rests on.   *)
VerdictInv == ImageInv /\ Entries /\ DefinedAbove /\ Checked
=============================================================================
