------------------------------ MODULE LineReader -----------------------------
(***************************************************************************)
(* The head of the loop of either pass of src/instruction.c, with          *)
(* string_trim and is_ignorable_line of src/utils.c: from the characters   *)
(* of a file to the lines of module Source.  fgets hands over at most      *)
(* LINE_BUF_LEN - 1 characters, whether the line ends there or not.        *)
(***************************************************************************)
EXTENDS Naturals, Sequences, SequencesExt

CONSTANTS LINE_BUF_LEN,
          Texts     \* the files considered, sequences of Characters

(* What the code tells apart: the end of a line, other characters isspace  *)
(* knows, the start of a comment, a dot, and all others.                   *)
Characters == {"newline", "space", "#", ".", "x"}

ASSUME BufferAssumption == LINE_BUF_LEN \in Nat /\ LINE_BUF_LEN > 1
ASSUME TextsAssumption == Texts \subseteq Seq(Characters)

VARIABLES
    text,        \* the file
    rest,        \* the part of it fgets has not read
    line,        \* line_buffer, then the pointer string_trim returned
    step,        \* "fgets", "trim", "inspect" or "eof"
    delivered    \* what the loop went on with: trimmed lines

vars == <<text, rest, line, step, delivered>>

isspace(c) == c \in {"newline", "space"}

string_trim(s) ==
    LET kept == {i \in DOMAIN s : ~isspace(s[i])}
    IN  IF kept = {} THEN <<>> ELSE SubSeq(s, Min(kept), Max(kept))

is_ignorable_line(s) ==
    LET kept == {i \in DOMAIN s : ~isspace(s[i])}
    IN  kept # {} => s[Min(kept)] = "#"

(* How many characters fgets takes.  Mutant: the terminating zero is       *)
(* counted twice.                                                          *)
fgets_Short(s) ==
    Min({Len(s), LINE_BUF_LEN - 2} \cup {i \in DOMAIN s : s[i] = "newline"})
fgets(s) ==
    Min({Len(s), LINE_BUF_LEN - 1} \cup {i \in DOMAIN s : s[i] = "newline"})

Init ==
    /\ text \in Texts
    /\ rest = text
    /\ line = <<>>
    /\ step = "fgets"
    /\ delivered = <<>>

Read ==
    /\ step = "fgets" /\ rest # <<>>
    /\ line' = SubSeq(rest, 1, fgets(rest))
    /\ rest' = SubSeq(rest, fgets(rest) + 1, Len(rest))
    /\ step' = "trim"
    /\ UNCHANGED <<text, delivered>>

EndOfFile ==
    /\ step = "fgets" /\ rest = <<>>
    /\ step' = "eof"
    /\ UNCHANGED <<text, rest, line, delivered>>

Trim ==
    /\ step = "trim"
    /\ line' = string_trim(line)
    /\ step' = "inspect"
    /\ UNCHANGED <<text, rest, delivered>>

Ignore ==
    /\ step = "inspect" /\ is_ignorable_line(line)
    /\ step' = "fgets"
    /\ UNCHANGED <<text, rest, line, delivered>>

(* A segment line or a statement; see Source for what comes of it.         *)
Deliver ==
    /\ step = "inspect" /\ ~is_ignorable_line(line)
    /\ delivered' = Append(delivered,
                           [kind |-> IF line[1] = "." THEN "dot" ELSE "content",
                            line |-> line])
    /\ step' = "fgets"
    /\ UNCHANGED <<text, rest, line>>

Ended == step = "eof" /\ UNCHANGED vars

Next == Read \/ EndOfFile \/ Trim \/ Ignore \/ Deliver \/ Ended

Spec == Init /\ [][Next]_vars

-----------------------------------------------------------------------------
(* The lines of a file: what stands behind its beginning or a newline, as  *)
(* far as the next newline or the end.                                     *)

Breaks == {0} \cup {i \in DOMAIN text : text[i] = "newline"}

End(b) == Min({Len(text) + 1} \cup {i \in Breaks : i > b})

Line(b) == SubSeq(text, b + 1, End(b) - 1)

Fits == \A b \in Breaks : Len(Line(b)) < LINE_BUF_LEN

Blank(l) == \A k \in DOMAIN l : l[k] = "space"
StartsWith(l, c) ==
    \E k \in DOMAIN l : l[k] = c /\ \A j \in 1..(k - 1) : l[j] = "space"
Ignorable(l) == Blank(l) \/ StartsWith(l, "#")

(* What was delivered is the line but for the white space around it, and   *)
(* is taken for what the line is.                                          *)
Stripped(s, l) ==
    /\ s # <<>> /\ s[1] # "space" /\ s[Len(s)] # "space"
    /\ \E i \in 0..(Len(l) - Len(s)) :
           \A k \in DOMAIN l :
               l[k] = IF k - i \in DOMAIN s THEN s[k - i] ELSE "space"

Answers(d, l) ==
    Stripped(d.line, l) /\ (d.kind = "dot" <=> StartsWith(l, "."))

(* Of the lines behind bs those that mean something were delivered, each   *)
(* once and in order, the others not at all.                               *)
Delivered(bs) ==
    \E at \in [DOMAIN delivered -> bs] :
        /\ \A k, m \in DOMAIN delivered : k < m => at[k] < at[m]
        /\ \A k \in DOMAIN delivered : Answers(delivered[k], Line(at[k]))
        /\ \A b \in bs : ~Ignorable(Line(b)) <=> \E k \in DOMAIN delivered : at[k] = b

-----------------------------------------------------------------------------
(* Properties                                                              *)

(* A file whose lines fit in the buffer is taken line by line, the last    *)
(* one with or without a newline: every line that is not blank and no      *)
(* comment once, whole and in order, the others not at all.  This holds up *)
(* to lines that fill the buffer, whose newline comes back as a line of    *)
(* its own.  Module Source builds on it.                                   *)
LinesWhole == step = "eof" /\ Fits => Delivered(Breaks)
=============================================================================
