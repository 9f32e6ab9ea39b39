------------------------------ MODULE Assembly ------------------------------
(***************************************************************************)
(* What the assembler promises, with no passes, no offsets carried along   *)
(* and no symbol table: a source file that can be read is either rejected, *)
(* or accepted with the one image its lines call for.                      *)
(*                                                                         *)
(* Everything is defined from the whole file.  The segment of a line is    *)
(* that of the last dot line above it, the offset of a line is the sum of  *)
(* what the lines above it lay down in its segment, and the value of a     *)
(* symbol is the offset of the line that it labels.                        *)
(***************************************************************************)
EXTENDS Source, Integers, FiniteSetsExt

CONSTANTS MAX_SYMBOLS, DATA_SIZE

VARIABLES file, verdict, image

vars == <<file, verdict, image>>

NoImage == [text |-> <<>>, data |-> <<>>]

-----------------------------------------------------------------------------
Before(j) == 1..(j - 1)

SegmentAt(f, j) ==
    LET dots == {i \in Before(j) : f[i].kind = "dot"}
    IN  IF dots = {} THEN "" ELSE f[Max(dots)].segment

ContentLines(f) == {j \in DOMAIN f : f[j].kind = "content"}
TextLines(f) == {j \in ContentLines(f) : InText(SegmentAt(f, j))}
DataLines(f) == {j \in ContentLines(f) : SegmentAt(f, j) = "data"}

(* Bytes of .text and of .data that the lines before j lay down.           *)
TextAt(f, j) ==
    MapThenSumSet(LAMBDA i : 4 * Words(f[i].stmt), TextLines(f) \cap Before(j))
DataAt(f, j) ==
    MapThenSumSet(LAMBDA i : f[i].stmt.n, DataLines(f) \cap Before(j))

TextSize(f) == TextAt(f, Len(f) + 1)
DataSize(f) == DataAt(f, Len(f) + 1)

(* The line that defines a name.                                           *)
Definer(f, l) == CHOOSE j \in DataLines(f) : f[j].label = l

-----------------------------------------------------------------------------
(* An instruction has no label and encodes; la names data defined above it.*)
AcceptableText(f, j) ==
    LET s == f[j].stmt
    IN  /\ f[j].label = NoLabel
        /\ IsInstruction(s)
        /\ s.op \in {"pseudo", "la"} => s.parse = "OK"
        /\ s.encode = "OK"
        /\ s.op = "la" =>
               \E i \in DataLines(f) \cap Before(j) : f[i].label = s.sym

(* A data line has a label of its own and a well-formed directive.         *)
AcceptableData(f, j) ==
    /\ f[j].label # NoLabel
    /\ f[j].stmt.op = "directive" /\ f[j].stmt.parse = "OK"
    /\ \A i \in DataLines(f) \ {j} : f[i].label # f[j].label

Acceptable(f) ==
    /\ ContentLines(f) = TextLines(f) \cup DataLines(f)
    /\ \A j \in TextLines(f) : AcceptableText(f, j)
    /\ \A j \in DataLines(f) : AcceptableData(f, j)
    /\ Cardinality(DataLines(f)) <= MAX_SYMBOLS
    /\ TextSize(f) <= DATA_SIZE
    /\ DataSize(f) <= DATA_SIZE

(* The word at byte o of .text.  A la carries the distance from its own    *)
(* place to its symbol: the rest of .text, then the way into .data.        *)
WordAt(f, o) ==
    LET j == CHOOSE i \in TextLines(f) :
                 TextAt(f, i) <= o /\ o < TextAt(f, i + 1)
        s == f[j].stmt
    IN  [line |-> j,
         half |-> 1 + (o - TextAt(f, j)) \div 4,
         rel  |-> IF s.op = "la"
                  THEN TextSize(f) - TextAt(f, j) + DataAt(f, Definer(f, s.sym))
                  ELSE 0]

(* The line that lays down byte x of .data.                                *)
ByteAt(f, x) == CHOOSE i \in DataLines(f) : DataAt(f, i) <= x /\ x < DataAt(f, i + 1)

Image(f) ==
    [text |-> [k \in 1..(TextSize(f) \div 4) |-> WordAt(f, 4 * (k - 1))],
     data |-> [k \in 1..DataSize(f) |-> ByteAt(f, k - 1)]]

-----------------------------------------------------------------------------
Init == file \in Seq(SourceLine) /\ verdict = "pending" /\ image = NoImage

Accept ==
    /\ verdict = "pending" /\ Acceptable(file)
    /\ verdict' = "accepted"
    /\ image' = Image(file)
    /\ UNCHANGED file

Reject ==
    /\ verdict = "pending" /\ ~Acceptable(file)
    /\ verdict' = "rejected"
    /\ UNCHANGED <<file, image>>

(* The file cannot be read.                                                *)
GiveUp ==
    /\ verdict = "pending"
    /\ verdict' = "unreadable"
    /\ UNCHANGED <<file, image>>

Next == Accept \/ Reject \/ GiveUp

Spec == Init /\ [][Next]_vars /\ WF_vars(Next)
=============================================================================
