----------------------------- MODULE Assembler ------------------------------
(***************************************************************************)
(* The two passes of src/instruction.c over one source file: scan_labels   *)
(* computes the offset of every label and the size of every segment, then  *)
(* assemble_file reads the file again and fills the segments.  One step is *)
(* one iteration of the fgets loop of a pass, or its end.                  *)
(*                                                                         *)
(* The segments hold who wrote them in place of the bits: a byte of .data  *)
(* is the number of its source line, a word of .text the number of its     *)
(* source line and, for the pair an la expands to, the distance from the   *)
(* pc of the pair to the symbol.  The encoding of that distance into auipc *)
(* and addi is the subject of module Immediates.  What a failing line      *)
(* wrote lies at or above the offset of its segment, which nothing reads   *)
(* any more, and is left out.                                              *)
(***************************************************************************)
EXTENDS Directive, SymTable, Integers

CONSTANTS Files,        \* the source files considered, sequences of lines
          base_vaddr    \* ctx->base_vaddr, as argparse set it

(* sizeof(Elf32_Ehdr) + sizeof(Elf32_Phdr)                                 *)
HEADERS_LEN == 52 + 32

ASSUME FilesAssumption == Files \subseteq Seq(SourceLine)
ASSUME BaseAssumption == base_vaddr \in Nat

VARIABLES
    file,         \* the lines of the file named by arguments->infile
    phase,        \* the pass that runs, "done", or "failed"
    err,          \* the assembler_error a pass returned
    ln,           \* the line the next fgets returns
    segment,      \* local buffer of either pass
    text_offset,  \* local of either pass
    data_offset,  \* local of either pass
    table,        \* ctx->table
    size,         \* ctx->segments[].size of .text and .data; .bss stays 0
    text,         \* ctx->segments[SEGMENT_TEXT].data
    data,         \* ctx->segments[SEGMENT_DATA].data
    mark          \* history: where the first pass stood before each line

vars == <<file, phase, err, ln, segment, text_offset, data_offset, table,
          size, text, data, mark>>

Bytes == 0..(DATA_SIZE - 1)

NoWord == [line |-> 0, half |-> 0, rel |-> 0]
Word == [line : Nat, half : 0..2, rel : Int]

Position == [segment : SegmentNames, text : Nat, data : Nat]
Start == [segment |-> "", text |-> 0, data |-> 0]

get_text_vaddr == base_vaddr + HEADERS_LEN

(* Mutant: the size of .text is taken from the pass that runs.             *)
get_data_vaddr_Running == get_text_vaddr + text_offset
get_data_vaddr == get_text_vaddr + size.text

Init ==
    /\ file \in Files
    /\ phase = "scan"
    /\ err = "OK"
    /\ ln = 1
    /\ segment = ""
    /\ text_offset = 0
    /\ data_offset = 0
    /\ table = <<>>
    /\ size = [text |-> 0, data |-> 0]
    /\ text = [b \in Bytes |-> NoWord]
    /\ data = [b \in Bytes |-> 0]
    /\ mark = [j \in 1..(Len(file) + 1) |-> Start]

(* The guard of a step on a line of the given kind.                        *)
Reads(p, kind) == phase = p /\ ln <= Len(file) /\ file[ln].kind = kind

Return(e) ==
    /\ phase' = "failed"
    /\ err' = e

(* fopen fails in front of the loop of a pass.                             *)
Unreadable ==
    /\ phase \in {"scan", "assemble"} /\ ln = 1
    /\ Return("FILE_ERROR")
    /\ UNCHANGED <<file, ln, segment, text_offset, data_offset, table, size,
                   text, data, mark>>

-----------------------------------------------------------------------------
(* Operand errors both passes can find in .text; those of .data are in     *)
(* module Directive.                                                       *)

(* expand_pseudo_instr: the operands, then, for la, the symbol.            *)
expand_pseudo_instr(s, tbl) ==
    IF s.op \in {"pseudo", "la"} /\ s.parse # "OK" THEN s.parse
    ELSE IF s.op = "la" /\ s.sym \notin Names(tbl) THEN "SYM_NOT_FOUND"
    ELSE "OK"

-----------------------------------------------------------------------------
(* scan_labels                                                             *)

(* A label is refused outside the segments that have an offset.  Mutant:   *)
(* a label of .bss shares the offset of .data.                             *)
Labellable_Bss(seg) == InText(seg) \/ seg \in {"data", "bss"}
Labellable(seg) == InText(seg) \/ seg = "data"

(* Mutant: the two offsets are swapped.                                    *)
LabelAddress_Swapped == IF InText(segment) THEN data_offset ELSE text_offset
LabelAddress == IF InText(segment) THEN text_offset ELSE data_offset

LabelType == IF InText(segment) THEN "SYM_SEGMENT_TEXT" ELSE "SYM_SEGMENT_DATA"

LabelRefused(l) ==
    /\ l.label # NoLabel
    /\ ~Labellable(segment) \/ ~symtable_accepts(table, l.label)

Labelled(l) ==
    IF l.label = NoLabel THEN table
    ELSE symtable_insert(table, l.label, LabelAddress, LabelType)

(* What the first pass finds wrong with the statement of a line.           *)
ScanError(s, tbl) ==
    IF s.op = "none" THEN "OK"
    ELSE IF InText(segment)
         THEN IF IsInstruction(s) THEN expand_pseudo_instr(s, tbl)
                                  ELSE "UNKNOWN_INSTRUCTION"
    ELSE IF segment \in {"data", "bss"} THEN parse_data_directive(s, data_offset)
    ELSE "ERR"

(* What a statement lays down.  Mutants: a pseudo-instruction counts as one *)
(* instruction; the terminator of a string is not counted.                 *)
TextBytes_One(s) == IF InText(segment) THEN OPCODE_LEN ELSE 0
TextBytes(s) == IF InText(segment) THEN OPCODE_LEN * Words(s) ELSE 0
DataBytes_Short(s) == IF InText(segment) THEN 0 ELSE s.n - 1
DataBytes(s) == IF InText(segment) THEN 0 ELSE s.n

(* The loop goes on with the next line.                                    *)
ScanOn(seg, t, d) ==
    /\ ln' = ln + 1
    /\ segment' = seg
    /\ text_offset' = t
    /\ data_offset' = d
    /\ mark' = [mark EXCEPT ![ln + 1] = [segment |-> seg, text |-> t, data |-> d]]
    /\ UNCHANGED <<file, phase, err, size, text, data>>

ScanFail(e) ==
    /\ Return(e)
    /\ UNCHANGED <<file, ln, segment, text_offset, data_offset, size, text,
                   data, mark>>

(* Mutant: the loop goes on without reading the next line.                 *)
ScanBlank_Stuck == Reads("scan", "blank") /\ UNCHANGED vars
ScanBlank ==
    /\ Reads("scan", "blank")
    /\ ScanOn(segment, text_offset, data_offset)
    /\ UNCHANGED table

ScanDot ==
    /\ Reads("scan", "dot")
    /\ ScanOn(file[ln].segment, text_offset, data_offset)
    /\ UNCHANGED table

ScanLabelRefused ==
    /\ Reads("scan", "content")
    /\ LabelRefused(file[ln])
    /\ ScanFail("ERR")
    /\ UNCHANGED table

(* The label is in the table before the statement is looked at.            *)
ScanStatement ==
    /\ Reads("scan", "content")
    /\ ~LabelRefused(file[ln])
    /\ table' = Labelled(file[ln])
    /\ LET s == file[ln].stmt
           e == ScanError(s, table')
       IN  \/ e = "OK" /\ ScanOn(segment, text_offset + TextBytes(s),
                                          data_offset + DataBytes(s))
           \/ e # "OK" /\ ScanFail(e)

(* End of the file: the sizes are published and the file is opened again.  *)
ScanEnd ==
    /\ phase = "scan" /\ ln > Len(file)
    /\ size' = [text |-> text_offset, data |-> data_offset]
    /\ phase' = "assemble"
    /\ ln' = 1
    /\ segment' = ""
    /\ text_offset' = 0
    /\ data_offset' = 0
    /\ UNCHANGED <<file, err, table, text, data, mark>>

-----------------------------------------------------------------------------
(* assemble_file                                                           *)

(* process_segment_text looks the first token up as it stands, so a label  *)
(* is an instruction nobody knows.                                         *)
TextError(l) ==
    LET s == l.stmt
        x == expand_pseudo_instr(s, table)
    IN  IF l.label # NoLabel \/ ~IsInstruction(s) THEN "UNKNOWN_INSTRUCTION"
        ELSE IF x # "OK" THEN x
        ELSE IF s.encode # "OK" THEN s.encode
        ELSE IF ~Fits(text_offset, OPCODE_LEN * Words(s)) THEN "ERR"
        ELSE "OK"

(* process_segment_data skips a label, and then needs a directive.         *)
DataError(s) ==
    IF s.op = "none" THEN "PARSE_ERROR" ELSE parse_data_directive(s, data_offset)

(* process_assembly_line                                                   *)
AssembleError(l) ==
    IF InText(segment) THEN TextError(l)
    ELSE CASE segment = "data" -> DataError(l.stmt)
           [] segment = "bss"  -> "OK"
           [] OTHER            -> "ERR"

(* expand_la_instr: the distance from the pc of the pair to the symbol.    *)
RelativeAddress(s) ==
    IF s.op = "la"
    THEN (get_data_vaddr + symtable_lookup(table, s.sym))
             - (get_text_vaddr + text_offset)
    ELSE 0

(* The copy of the encoded instructions to the text segment.               *)
EmitText(s) ==
    [b \in Bytes |->
        IF b = text_offset THEN [line |-> ln, half |-> 1, rel |-> RelativeAddress(s)]
        ELSE IF b = text_offset + OPCODE_LEN /\ Words(s) = 2
             THEN [line |-> ln, half |-> 2, rel |-> RelativeAddress(s)]
        ELSE text[b]]

(* The bytes a directive lays down at the end of the data segment.         *)
EmitData(s) ==
    [b \in Bytes |-> IF b \in data_offset..(data_offset + s.n - 1)
                     THEN ln ELSE data[b]]

AssembleOn(seg, t, d) ==
    /\ ln' = ln + 1
    /\ segment' = seg
    /\ text_offset' = t
    /\ data_offset' = d
    /\ UNCHANGED <<file, phase, err, table, size, mark>>

AssembleBlank ==
    /\ Reads("assemble", "blank")
    /\ AssembleOn(segment, text_offset, data_offset)
    /\ UNCHANGED <<text, data>>

AssembleDot ==
    /\ Reads("assemble", "dot")
    /\ AssembleOn(file[ln].segment, text_offset, data_offset)
    /\ UNCHANGED <<text, data>>

AssembleText ==
    /\ Reads("assemble", "content") /\ InText(segment)
    /\ AssembleError(file[ln]) = "OK"
    /\ text' = EmitText(file[ln].stmt)
    /\ AssembleOn(segment, text_offset + OPCODE_LEN * Words(file[ln].stmt),
                  data_offset)
    /\ UNCHANGED data

AssembleData ==
    /\ Reads("assemble", "content") /\ segment = "data"
    /\ AssembleError(file[ln]) = "OK"
    /\ data' = EmitData(file[ln].stmt)
    /\ AssembleOn(segment, text_offset, data_offset + file[ln].stmt.n)
    /\ UNCHANGED text

(* process_segment_bss has no body.                                        *)
AssembleBss ==
    /\ Reads("assemble", "content") /\ segment = "bss"
    /\ AssembleError(file[ln]) = "OK"
    /\ AssembleOn(segment, text_offset, data_offset)
    /\ UNCHANGED <<text, data>>

(* The sizes are set from the offsets whether the loop ended or broke off. *)
(* Mutant: those of the first pass are kept.                               *)
PublishSizes_Dropped == size' = size
PublishSizes == size' = [text |-> text_offset, data |-> data_offset]

AssembleFail ==
    /\ Reads("assemble", "content")
    /\ AssembleError(file[ln]) # "OK"
    /\ Return(AssembleError(file[ln]))
    /\ PublishSizes
    /\ UNCHANGED <<file, ln, segment, text_offset, data_offset, table, text,
                   data, mark>>

AssembleEnd ==
    /\ phase = "assemble" /\ ln > Len(file)
    /\ phase' = "done"
    /\ PublishSizes
    /\ UNCHANGED <<file, err, ln, segment, text_offset, data_offset, table,
                   text, data, mark>>

-----------------------------------------------------------------------------
Scan == ScanBlank \/ ScanDot \/ ScanLabelRefused \/ ScanStatement \/ ScanEnd

Assemble == \/ AssembleBlank \/ AssembleDot \/ AssembleText \/ AssembleData
            \/ AssembleBss \/ AssembleFail \/ AssembleEnd

(* Both passes have returned.                                              *)
Returned == phase \in {"done", "failed"} /\ UNCHANGED vars

Next == Unreadable \/ Scan \/ Assemble \/ Returned

Spec == Init /\ [][Next]_vars

(* One sequential program: it takes its next step while it has one.        *)
FairSpec == Spec /\ WF_vars(Next)

(* Each pass opens the file by name, so another process may replace it     *)
(* between the two.                                                        *)
Replace ==
    /\ phase = "assemble" /\ ln = 1
    /\ \E f \in Files : f # file /\ file' = f
    /\ UNCHANGED <<phase, err, ln, segment, text_offset, data_offset, table,
                   size, text, data, mark>>

ReplacingSpec == Init /\ [][Next \/ Replace]_vars

-----------------------------------------------------------------------------
(* Properties                                                              *)

(* Types of the context and of the locals of both passes.                  *)
TypeOK ==
    /\ file \in Seq(SourceLine)
    /\ phase \in {"scan", "assemble", "done", "failed"}
    /\ err \in Errors
    /\ ln \in Nat \ {0}
    /\ segment \in SegmentNames
    /\ text_offset \in Nat /\ data_offset \in Nat
    /\ table \in Seq(Symbol(Labels))
    /\ size \in [text : Nat, data : Nat]
    /\ text \in [Bytes -> Word]
    /\ data \in [Bytes -> Nat]
    /\ DOMAIN mark \subseteq Nat /\ \A j \in DOMAIN mark : mark[j] \in Position

(* The two passes agree: before every line assemble_file stands in the     *)
(* segment and at the offsets scan_labels had before the same line.  The   *)
(* addresses computed by the first pass mean something in the second only  *)
(* because of this, and the passes share no code that would ensure it.     *)
PassesAgree ==
    phase = "assemble" =>
        mark[ln] = [segment |-> segment, text |-> text_offset, data |-> data_offset]

(* assemble_file overwrites the segment sizes with its own offsets.  When  *)
(* it succeeds that changes nothing, so get_data_vaddr, which every la     *)
(* used before, is the address writer32 gives .data afterwards.            *)
SizesConfirmed ==
    [][phase = "assemble" /\ phase' = "done" => size' = size]_vars

(* Where writer32 puts byte o of .text and byte x of .data in memory.      *)
TextAddress(o) == base_vaddr + HEADERS_LEN + o
DataAddress(x) == base_vaddr + HEADERS_LEN + size.text + x

(* Every la of an assembled program reaches its data: pc plus distance is  *)
(* the address in .data where the line that defines the symbol starts,     *)
(* bytes of earlier lines below it, bytes of that and later lines from it  *)
(* on.  expand_la_instr works with a size of .text and an offset in .data  *)
(* that were computed before either segment existed.                       *)
LaReachesData ==
    phase = "done" =>
        \A o \in Bytes, j \in 1..Len(file) :
            /\ o < size.text
            /\ text[o].half = 1
            /\ file[text[o].line].stmt.op = "la"
            /\ file[j].kind = "content"
            /\ file[j].label = file[text[o].line].stmt.sym
            => LET b == TextAddress(o) + text[o].rel - DataAddress(0)
               IN  /\ b \in 0..size.data
                   /\ \A x \in 0..(size.data - 1) : data[x] >= j <=> x >= b

(* The offsets of the second pass never leave the arrays they index, for   *)
(* any file, even one replaced after the first pass measured it.           *)
CapacityRespected ==
    phase \in {"assemble", "done"} =>
        text_offset <= DATA_SIZE /\ data_offset <= DATA_SIZE

(* Below the sizes that writer32 goes by, an assembled image holds no byte *)
(* the second pass did not lay down itself, and it lays them down in the   *)
(* order of the lines.  For any file, even one replaced after the first    *)
(* pass measured it: then the sizes of that pass would not do.             *)
ImageFilled ==
    phase = "done" =>
        /\ \A b \in Bytes : b < size.text /\ b % OPCODE_LEN = 0 =>
               /\ text[b].line \in 1..Len(file)
               /\ \A c \in Bytes : c < b /\ c % OPCODE_LEN = 0 =>
                      text[c].line <= text[b].line
        /\ \A x \in Bytes : x < size.data =>
               /\ data[x] \in 1..Len(file)
               /\ \A y \in 0..(x - 1) : data[y] <= data[x]

(* What the two passes let through: no content outside .text and .data,    *)
(* no label in .text, a label on every line of .data, and no name twice.   *)
(* Each pass refuses only part of the rest.                                *)
AcceptedShape ==
    phase = "done" =>
        \A j \in 1..Len(file) : file[j].kind = "content" =>
            LET seg == mark[j].segment
            IN  /\ InText(seg) \/ seg = "data"
                /\ InText(seg) => file[j].label = NoLabel
                /\ seg = "data" =>
                       /\ file[j].label # NoLabel
                       /\ file[j].stmt.op = "directive"
                       /\ \A i \in 1..(j - 1) : file[i].label # file[j].label

(* Both loops come to an end and main gets a verdict on every file.        *)
Termination == <>(phase \in {"done", "failed"})
=============================================================================
