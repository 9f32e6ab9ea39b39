# Verification of riscv-as

riscv-as is a two-pass assembler for RV32: it reads one source file twice and
writes an ELF executable. This directory holds TLA+ modules of its logic, TLC
runs that check them on small instances, and TLAPS proofs for every instance.

## The system

`main` (src/src/main.c) is one sequential program:

    argparse -> scan_labels -> assemble_file -> writer32 -> exit status

The state the parts share is one `assembler_ctx`: three segments (bytes, size,
capacity), the symbol table, and the base address.

| part | state it keeps | operations | what makes it correct |
|---|---|---|---|
| argument parser (argparser.c) | `arguments_s` | `argparse` | a file name and a base address reach the passes |
| main driver (main.c) | context, exit code | `init_segments`, `main` | it stops after an error; success means an output file with the program |
| first pass (instruction.c, `scan_labels`) | offsets of .text and .data, current segment | one iteration per line | every label gets the offset its line has in the second pass; sizes are final |
| second pass (`assemble_file`, `process_*`) | offsets, current segment, segment bytes | one iteration per line | it lays down what the first pass measured, within capacity, or fails |
| symbol table (symtable.c) | up to 128 entries | `symtable_insert`, `symtable_lookup` | no name twice, no entry lost, a full table refuses |
| directive handlers (`parse_data_directive`, `handle_data_*`) | none of their own | integers, strings, space | the same bytes and errors in both passes |
| pseudo expansion (`expand_*`) | up to two instructions | one per pseudo-instruction | the expansion computes what the pseudo-instruction names |
| encoding (`encode`, `handle_*_type_instr`, `parse_register`, `ASSEMBLE_*`) | none | one per format | the processor decodes what was written |
| instruction table (gperf) | constant | `find_instruction` | as in the ISA |
| ELF writer (writer.c) | output file | `writer32`, `get_text_vaddr`, `get_data_vaddr` | the segments are loaded where the passes assumed; failures are reported |
| PICO build (writer.c, CMakeLists.txt) | mounted file system | `pico_*` of the host project | what was mounted is unmounted |
| utilities, logging, errors | none | trimming, messages | wording only |

What is hard here is not concurrency inside the program. It is that two passes
written separately have to measure every line alike; that `la` computes an
address from a symbol table and a segment size that change meaning between the
passes; that each pass opens the file by name, so the second may see another
one; that fixed capacities bite in the middle of a line; that 32-bit values are
split into signed parts; and that the order of legal lines decides whether a
file is accepted. `PROJECT.json` lists each hazard with its line and the
properties that cover it.

## The modules

| module | models | how |
|---|---|---|
| `SymTable` | symtable.c | the sequence of entries; insertion and lookup are operators |
| `LineReader` | the head of either loop: fgets, `string_trim`, `is_ignorable_line` | characters of five kinds, one action per call |
| `Source` | what a line is to both passes | a record: kind, label, statement with its size and the errors its operands have |
| `Directive` | what both passes rely on in `parse_data_directive` | size and error from a summary of the directive |
| `DataDirectives` | `handle_data_integer`, `handle_data_string`, `handle_data_space` | byte by byte, one action per way a loop can go; checked against `Directive` |
| `Assembler` | `scan_labels`, `assemble_file`, `process_*`, `expand_pseudo_instr` | one action per way an iteration of a loop can go |
| `AssemblerInvariant` | - | the inductive invariants of `Assembler`: `IInv`, `ImageInv`, `VerdictInv`, and `Filled` for replaced files |
| `Assembly` | the promise | accepted or rejected, and the image, defined from the whole file |
| `AssemblerRefinement` | - | `Assembler` implements `Assembly` |
| `Immediates` | `expand_li_instr`, `expand_la_instr`, the checks and fields of `encode` for addi, lui, auipc | expand, then encode instruction by instruction, executed by an external processor |
| `Registers` | `parse_register` | a function of the operand, beside the names of the calling convention |
| `Formats` | instructions.gperf, the `ASSEMBLE_*` macros | words as sets of bits, beside a decoder made from the manual |
| `Encoding` | `encode`, `handle_*_type_instr`, the one-instruction `expand_*` | one action per place where `encode` can give up |
| `ElfLayout` | the offsets and headers of writer.c | operators of the two sizes, beside a loader |
| `ElfWriter` | `writer32` on a host | one action per stdio call and per failure |
| `PicoWriter` | `writer32` in a PICO_BUILD | one action per `pico_*` call and per failure, called again and again |
| `Driver` | `main`, `argparse` | composes `Assembler` and `ElfWriter` |
| `AssemblerProofs` | - | theorems about `Assembler`, that it implements `Assembly`, and about `Driver` |
| `DataDirectivesProofs`, `ImmediatesProofs`, `EncodingProofs`, `ElfWriterProofs`, `PicoWriterProofs`, `LineReaderProofs` | - | theorems about the module they are named after |
| `LayoutLemmas` | - | lemmas on chunks and offsets for both writers |
| `MC...` | - | the finite sets TLC runs over |

    LineReader (lines) --> Source --> Directive --> Assembler --> Driver
                                        ^                           ^
                           DataDirectives (keeps its contract)      |
    Registers, Formats --> Encoding        ElfLayout --> ElfWriter -+
                           Immediates              \--> PicoWriter

`Driver` extends `Assembler` and instantiates `ElfWriter` with the sizes the
passes leave. `Directive` is the interface between the passes and the handlers:
`KeepsContract` of `DataDirectives` says that a run of a handler answers as
`parse_data_directive` of `Directive` does, which is all `Assembler` uses.
`LineReader` shows that the lines `Source` starts from are those of the file.

### Assembler

Variables carry the names of the code: `segment`, `text_offset` and
`data_offset` are the locals of either pass, `table` and `size` are
`ctx->table` and `ctx->segments[].size`, `text` and `data` the arrays. `phase`
says which pass runs and `err` what it returned; `ln` is the position in the
file. `mark` is a history variable: where the first pass stood before each line.

| action | code |
|---|---|
| `ScanBlank`, `ScanDot` | instruction.c 1058-1066 |
| `ScanLabelRefused` | 1090-1100, an unknown segment or a refused name |
| `ScanStatement` | 1068-1178, the label goes in before the statement is looked at |
| `ScanEnd` | 1180-1186, and the start of the second pass |
| `AssembleBlank`, `AssembleDot` | 1012-1022 |
| `AssembleText`, `AssembleData`, `AssembleBss` | 892-973 |
| `AssembleFail` | a `process_*` error: the loop breaks, the sizes are still published |
| `AssembleEnd` | 1030-1036 |
| `Unreadable` | `fopen` fails in either pass |
| `Replace` | another process replaces the file between the passes (`ReplacingSpec` only) |
| `Returned` | the passes are over |

Characters are left out. A line says what each function reports about it, with
one statement record for both passes, because both call the same parsers on the
same text; the errors `encode` reports are separate, as only the second pass
calls it. A byte in a segment is the number of the line that laid it down, a
word of an `la` also the distance it encodes, so the properties can say where
things ended up. A label alone on a data line passes the first pass
(1111-1114) and is a parse error in the second (868-871): `DataError` says so.

Of a line that fails, the bytes written before the failure are left out: they
lie at or above the offset and nothing reads them, as `main` stops.

### DataDirectives

`data` is the array with one cell more, for the byte that an unknown escape puts
behind it; `data_offset` is the offset of the pass and `current_size` that of
the handler, taken over on success only. Strings are sequences of character
codes, an integer operand its value or `Malformed`. `Image` and `Fault` define
what a directive means from the directive alone. `host` is the machine the
assembler runs on: its byte order and how many values its `size_t` has.
`handle_data_space` casts the count, a `long long`, to `size_t` (812), so with
one of 32 bits `.space 4294967296` is accepted as nothing: `AsSize`. Both passes
make the same of it (`KeepsContract`); what the directive asked for is not there,
and `LaidDown` leaves such counts out.

### Registers, Formats, Encoding

A word is the set of its 1 bits, so `|` is union, `<<` moves bits and 32 bits
need no arithmetic. `Decode` is external and laid out by the manual: opcode
groups with their instructions in the order of funct3, and for each immediate
bit the bit of the word it comes from. `encode` is four steps: `Scan` (with the
implicit offset of loads and stores, and the cut of the last operand to four
characters, which no later character has to match), `Check`, `Register` for
each operand in the order of the handler, `Encode`. The J format has no entry
in the table and is left out. `PseudoMeans` executes the decoded word on
registers of `WIDTH` bits.

A shift amount is checked against 12 bits, so `srli` by 1025 is accepted and
reads back as `srai` by 1; `Decoded` speaks of amounts below 32. An operand too
long for the buffer is an error except at the end of a line, where `zero5` is
read as `zero`: `Scan` cuts it, and `Decoded` speaks of what is left. A register
number is its value: `%hhu` takes `x01` and `x+1` for `x1`, and so does `Token`.

An expansion is printed and `encode` reads the text again. That is the same as
handing the operands over, but for an operand with a comma in it, which only the
last of a line can have: `mv a0, a1,2` becomes `addi a0, a1,2, 0` and is
assembled as `addi a0, a1, 2`. `Printed` says so, for the operand `a1,2`; `neg`
and `snez` print that operand last again and `parse_register` refuses it there.
Commas with anything but a number behind them are refused by all six.

### LineReader

The end of a line, other white space, `#`, a dot and any other character are
what the code tells apart. The two passes have the same loop head. What the lines
of a file are is defined from the text alone, by where its newlines are.

### ElfWriter, PicoWriter

A file is a sequence of chunks; what is on disk is its first `flushed` bytes, so
a byte on disk is known by its chunk and its place there. stdio passes on any
part of what it was handed, at any call (`Cuts` bounds the offsets at which it
may stop); `fwrite` can fail anywhere, `fclose` too. `fault` records it.
A reader of the file is external: `Byte`, `StringAt` and `Memory` go by the
headers only. In `PicoWriter` each of mount, open, write, close and unmount can
fail; what an already mounted file system answers is not known and either answer
is taken. The code takes 1 as the success of `pico_write`. `written` is what
`pico_write` has taken and `kept` what the file on the flash got of it: all of it
when `pico_close` succeeds, any part of it when it fails. writer32 looks at the
result of neither the close nor the unmount, so `CloseFails` and `UnmountFails` go
on as `Close` and `Unmount` do, to the answer OK.

### Driver

`stage` is the place in `main`; `argv` the options argp has not seen. The
passes' `base_vaddr` is a constant, so a run considers the command lines that
lead to it. `driver` has those with `-p`, whose base an option has to set, in any
place among the others; the proofs are for any base. `OneBase` says that the base
in the arguments, which `main` hands out, is that constant. argp ends the program
on an option it does not know, and on help.

### Immediates

`LOW` and `HIGH` are 2^12 and 2^20 in the code. The subtraction in
`(imm32 - lo) >> 12` overflows `int32_t` next to `INT32_MAX`; both outcomes a
build can have are in `HighParts`. Left shifts of negative numbers have the
outcome compilers give them. A register is not named: writing to `zero`, which
discards the value, is left out.

`long` is the size of a `long` where the assembler runs. `%li` stores one into
`imm64`, an `int64_t` (229, 232): with 32 bits, as on the RP2350, the upper half
keeps the 0 it was initialised with, so a negative operand arrives as a large
number and is refused, and one out of range is what `strtol` made of it. `Scanned`
is that conversion; the outcome for a little-endian host, which the RP2350 is.

## The runs

| run | instance | shows |
|---|---|---|
| `every_line` | every file of at most 4 lines over 18 lines, one for each way a pass can go, and of at most 5 over the 7 lines of a program; 12-byte segments, 2 symbols | the types, `PassesAgree`, `SizesConfirmed`, `CapacityRespected`, `AcceptedShape`, `LaReachesData`, the inductive invariant `VerdictInv`, which has the others in it, `Termination`, and `KeepsPromise`: `Assembler` implements `Assembly` |
| `replaced` | files of at most 3 lines, replaced between the passes | `CapacityRespected` and `ImageFilled` for a file the first pass never saw |
| `immediates` | words of 3 + 4 bits, all operands and addresses, either size of `long` | `Loaded`, `ExpansionAccepted` |
| `data_directives` | segments of 4 bytes filled with directives, every string of at most 4 characters of 4 kinds, hosts of either byte order with a `size_t` of 8 values or of more than any count | `KeepsContract`, `LaidDown`, `OverrunRefused` |
| `encoding` | every instruction with immediates around every power of two to 2^21, every operand of 6 instructions with some 200 operands, every pair of 7 operands for each pseudo-instruction, and an operand with a comma wherever it can stand | `Decoded`, `RefusedForCause`, `PseudoMeans` |
| `elf_writer` | 3 sizes of .text and of .data, stdio cut at every offset, any call failing | `AnswerIsTrue`, `LoadedInPlace`, `TablesTrue` |
| `pico_writer` | the same sizes, three older files, any number of calls, any failing | `NothingHeld`, `SegmentsWritten` |
| `driver` | files of at most 3 lines, alone and behind two symbols, eight command lines with `-p`, writer faults | `OneBase`, `SuccessLoads`, `ErrorLeavesOutput`, `Exits` |
| `line_reader` | every file of at most 6 characters, a buffer of 4 | `LinesWhole` |
| `says_srai` | as `encoding` | `Funct7Kept` violated, see below |
| `says_elf` | as `elf_writer` | `ProducesElf` violated, see below |
| `says_pico` | as `pico_writer` | `PicoProduces` violated, see below |

Why the bounds are enough. Four lines hold two segment switches, a definition
and a use; the fifth, in the files of a program, puts text or data of another
line on either side, so that an offset in .text and one in .data differ. A
capacity of three words is overrun by a second pair, in its middle, and by a
12-byte directive behind one byte; two symbols fill the table and a third name
finds it full. Fields of 3 and 4 bits have all the cases of
12 and 20: a low part that is negative, zero or positive, both ends of the
range, the overflow, a distance that wraps. A segment of 4 bytes is filled by
one `.word`, by two `.half`, by a string with or without escapes, and each of
them meets it full at every offset. The operands of `encoding` lie around the
last number of each register letter, around 256 and at the widths that are cut.
The writer's sizes are none, one and two units, and its files have at most 320
bytes, all of which stdio may stop at. Six characters make three lines or one
that needs two buffers. The behaviour of `driver` behind two symbols has an `la`
whose offset is not 0. What the proofs cover does not
depend on the bounds at all.

Every property of a passing run has a mutant in `PROJECT.json`, a plausible
slip in the code that TLC catches by that property; the mutants' operators
stand beside the definitions they replace (`Fits_First`, `Labellable_Bss`, ...).

Fairness is weak fairness of the whole next-state relation: the program is a
single sequential process that goes on while it can. Nothing more is assumed,
and `Termination`, `Exits` and the liveness of `KeepsPromise` need nothing more.
In `Driver` it stands for every call of libc returning, with success or not.

Deadlock is checked in every run (the last action of each module stutters at the
end) but `immediates`, which really stops after its last instruction.

### Where the repository says something else

Three runs show the code at odds with what the repository says of it:

- instructions.gperf:29 gives srai a funct7; `ASSEMBLE_I_TYPE` drops it, so srai
  is srli (`says_srai`).
- writer.h:27 says an ELF is produced; the failure of the last `fclose`, which
  writes out what stdio still holds, is ignored (`says_elf`).
- The same comment, for a PICO_BUILD: the failure of `pico_close`, which commits
  what littlefs still holds, is ignored, and OK is returned for a file without
  the segments (`says_pico`).

The rest was met while modelling. The models follow the code in each of these,
and the properties are stated so as to say what does hold:

- instruction.c:250 has a note to come back to labels as addresses for jumps, and
  251 says that for now only variables work. `scan_labels` records a label in
  .text; `process_segment_text` takes it for an unknown instruction, even when
  nothing refers to it (`AcceptedShape`, `KeepsPromise`).
- test/pseudoins.s:3 has `li t2, -4096`, and README.md:6 makes the assembler a
  library for the RP2350; with the `long` of that board `li` refuses every
  negative number (`ExpansionAccepted`).
- instruction.h:26 says the assembler supports .bss; the first pass refuses
  every label in it and no other line of it can reserve space.
- main.c:52 says the first scan computes label addresses; that scan looks
  symbols up while it collects them, so `la` above its label fails. `Assembly`
  has this as the rule for what is acceptable.
- instruction.c:749 refuses a string when the segment is full; an unknown escape
  lays down two bytes after that test. The overrun is one byte, and the line is
  refused then (`OverrunRefused`).
- README.md:23 speaks of any host PC; integers are laid down in the byte order
  of the host, and `is_little_endian` has no caller. `LaidDown` is about hosts
  that are little-endian.
- instruction.c:363 lists a0-a7; a256 is accepted as a0, and x287 as x31. Other
  spellings of a number are its value (x01, x+1), so the only operands of an
  instruction that get through without naming a register are those with a number
  above 255 (`Decoded`). The last operand of a pseudo-instruction may also have
  something behind it (`PseudoMeans`).
- instruction.c:814 refuses a `.space` beyond the capacity; where `size_t` has 32
  bits, 2^32 and more are taken modulo 2^32 first.
- writer.h:27 again: a PICO_BUILD fills in the headers and writes only the
  segments.
- writer.c:36 says page align; the sections claim the alignment, but .text
  starts 84 bytes behind the base and .data right behind .text.
- argparser.c:27 and README.md:29 promise an output file; a program of data
  alone ends in success and gets none, as `ErrorLeavesOutput` has it.
- utils.h:35 says comment lines are skipped; what lies behind the first 511
  characters of one is assembled. `LinesWhole` is about lines that fit.

## The proofs

Every theorem is for all values of the constants that the assumptions of the
modules allow: files are sequences of lines, the capacity is a multiple of four,
the table has an entry, sizes, bases and the offsets where stdio may stop are
natural numbers, field widths are even, addresses are words, operands of
directives are integers or malformed, a `size_t` has more values than the
segment has bytes, operands of instructions are tokens of
`Registers` beside any integer, command lines are sequences of options. TLC evaluates
the assumptions on every run.

| module | theorem | states |
|---|---|---|
| `AssemblerProofs` | `Invariance`, `ImageInvariance` | `[]IInv`, `[]ImageInv` |
| | `TypeCorrect`, `Agreement`, `Confirmation`, `Acceptance` | `TypeOK`, `PassesAgree`, `SizesConfirmed`, `AcceptedShape` |
| | `LaReaches` | `LaReachesData` |
| | `Capacity`, `NoGap` | `CapacityRespected`, `ImageFilled`, for files replaced between the passes |
| | `VerdictInvariance` | `[]VerdictInv` |
| | `Refinement` | `KeepsPromise` but for its fairness |
| | `PassesAdvance`, `ProgramAdvances` | `Termination` and `Exits` but for their fairness |
| | `MainInvariance`, `OutputIsSafe`, `SuccessIsLoaded` | `[]MainInv`, `ErrorLeavesOutput`, `SuccessLoads` |
| | `BaseIsOne` | `OneBase` |
| `ImmediatesProofs` | `Loads`, `Accepts` | `Loaded`, `ExpansionAccepted` |
| `EncodingProofs` | `Invariance` | `[]IInv` |
| | `ReadBack`, `Refused`, `PseudosMean` | `Decoded`, `RefusedForCause`, `PseudoMeans` |
| `DataDirectivesProofs` | `LaidSoFar` | `[]DInv` |
| | `Overrun`, `Contract`, `InMemory` | `OverrunRefused`, `KeepsContract`, `LaidDown` |
| `ElfWriterProofs` | `Invariance`, `AnswerTrue`, `Loading`, `Tables` | `[]IInv`, `AnswerIsTrue`, `LoadedInPlace`, `TablesTrue` |
| `PicoWriterProofs` | `Invariance`, `NothingStaysHeld`, `Written` | `[]IInv`, `NothingHeld`, `SegmentsWritten` |
| `LineReaderProofs` | `Invariance`, `Lines` | `[]IInv`, `LinesWhole` |

### The passes

`PassesAgree` is not inductive: when the second pass runs, the offsets of the
first are gone. `IInv` therefore goes by `mark`. `Positions` says that each
mark follows from the one before it by `Moves`, a relation on one line; the
second pass, standing at mark `j`, takes line `j` the same way or fails, so it
stands at mark `j + 1`. `LabelsKnown` and `UniqueNames` are what `AcceptedShape`
and the symbol table need, `Shapes` is what the second pass adds. There is one
lemma per action, and the temporal steps combine them. `Capacity` needs only
its own conjunct, as the guard of each step tests the capacity itself; that is
why it survives a replaced file. So does `Filled`, from which `NoGap` follows.

`ImageInv` adds the contents. `SymbolsTrue`: a label is in the table under the
position of its line. `Placed`: every word and byte below the offsets names a
line that the mark before it and the mark behind it enclose, and a word of `la`
the distance to its symbol. `Aligned`: there are words at multiples of four and
none in between. A step writes at the offset and above, so `WordTrue` and
`ByteTrue` stay for what is below (`WordKept`, `ByteKept`) and hold for what is
new (`PlacedText`, `PlacedData`). `LaReaches` then has to find the data of a
symbol: marks are ordered (`MarksOrdered`), so the byte at the offset of a label
belongs to its line unless that line is empty.

### The refinement

`Assembly` defines positions as sums over the sets of lines before a line,
`Assembler` adds up as it goes. `AssemblerProofs` first shows that the folds of
the community modules, which are recursive functions on sets, have one solution
over a finite set of numbers, the sum in order (`SolvesTotal`), and so that a sum
grows by the weight of the element that is added. From this `PositionsAre`: the
marks of the first pass are the positions that `Assembly` defines.

What a verdict rests on is more than `ImageInv` has. `VerdictInv` adds `Entries`
(the table has the names of the lines gone by and nothing else, so its length is
their number and a full table means too many labels), `DefinedAbove` (no `la`
got by without its label above it) and `Checked` (no statement got by the second
pass that is not well formed). With it, a pass that fails at a line refuses it
for one of the reasons `Assembly` has (`LineRefusedRightly`, `LabelRefusedRightly`,
`StatementRefusedRightly`), one that gets to the end has a file that is
acceptable (`AcceptedRightly`), and the image is the one defined from the whole
file (`WordRight`, `ByteRight`, `ImageRight`). Every step is a step of `Assembly`
or a stutter (`PromiseStep`).

### Encoding

The proof works on words as sets of bits, and on single bits of them. `Bits` is
made with `2^i`, of which the provers know nothing but its value for a literal;
`Pow` is that power under a name, and the lemmas on it (`Grows`, `Halves`) go
through the exponents of a word one by one. From them: a number is narrow when
its upper bits are all equal (`NarrowBits`), numbers with the same bits are the
same (`SameBits`), and counting down from a power turns every bit (`Complement`).

`WordR` to `WordZ` say what each field of an assembled word holds, `ImmediateI`
to `ImmediateU` that the bits of the immediate come back together, and
`Decoding` that opcode, funct3 and bit 30 tell the instructions of the table
apart. The decoder picks an opcode and a number by its bits, so this rests on
`CodesDiffer` and `SameBits`. `ReadsR` to `ReadsZ` put these together, with the
two exceptions of `Decoded`: srai, and shifts by more than 31.

The invariant of the steps says that the line is still what the source says
(`Follows`: its expansion, or the source with operands cut and the offset filled
in), that its operands are in their buffers as they stand (`Buffered`) and that
the registers parsed are those of the operands (`Parsed`). `NamedIsParsed` and
`ParsedIsNamed` are both directions of `parse_register`: what the convention
names is read as that register, and what is read is named unless its number is
above 255. A refusal is then for a cause, since `EncodableFits` shows that the
limits of the header exclude no immediate a word can hold. `PseudoMeans` needs
the whole way: the expansion, its encoding, the decoder and the arithmetic of
the processor; it is proved for registers of up to 30 bits. What gets through
without a register for its last operand is taken care of by `OddOperands`: a
number is cut to one that has gone round, or refused when it is negative
(`NegativeRefused`), and a comma is refused where it is printed last.

### Directives

What a handler has laid down is part of what the directive means. `Meaning`
defines that by recursion from the end of the operand, the handler reads from
its start. `DInv` says that what is laid down, followed by the meaning of what
is left, is the meaning of the whole; `MeaningStep` and `FlattenIs` are the
lemmas about the recursive definitions. The segment may be passed by one byte,
of an unknown escape, and then no test for room succeeds any more: that is
`Within`, and `Overrun` follows from it. `Contract` is an action property: it
compares a step that returns with `parse_data_directive` of `Directive`. Of a
`size_t` it needs that the capacity fits in it (`SizeIs`): what the cast makes of
a count is then a number, and a count it changes is none `LaidDown` speaks of.

### Immediates

`Signed` is a remainder shifted by half (`SignedReading`), so a
value is its low part plus a multiple of `LOW`, in range (`ExactParts`); both
outcomes of the overflow differ by a multiple of a word and pass the check
(`Parts`); the processor's sums are right modulo a word (`Wrapped`,
`SameRules`). The invariant says what is left of the expansion and what the
register still lacks (`Pending`), measured against what `%li` has left of the
operand (`ScannedType`).

### The writers and the program

`Before(Plan, k)`, the bytes of the chunks before the k-th, is a fold;
`LayoutLemmas` has what follows from it for plans of up to six chunks. `Progress`
of `ElfWriterProofs` says how much of the plan may be on disk at each call and
that what failed is what the next call answers for; a file that reaches the end
of its segment is then one whose bytes lie where the headers say. `PicoWriter`'s
invariant says between which calls the file is in use, that what is written is
the start of the plan, and that what the file got is a start of what was written,
all of it unless a write or the close failed (`Kept`). From `Kept` follow the
bytes of the file (`FileIs`), whatever older file was there.

`MainInv`, of `Driver`, has `ImageInv` of the passes and `IInv` of `ElfWriter`
side by side (`OneBase` has an invariant of its own, `BaseInv`: until argp is
done, what is left of the command line asks for the base or the arguments have
it). The passes are over when `writer32` is called, so their lemmas
serve as they are. `SuccessIsLoaded` puts together that the file is complete,
that a complete file is loaded in place, and that `la` carries the distance to
its data, for every source, every command line and every way stdio may fail.

### The end

That a program ends is liveness. What can be proved of it is that it cannot go
on: `PassSteps` counts the steps the passes have left, one for each line and for
the ends of the loops, and `PassesAdvance` says that every step takes one off and
that 2n + 3 is the most there are. `StepsLeft` adds the options that argp has not
seen, the calls `writer32` can make (the plan of a file has at most six chunks)
and the parts of `main`; `ProgramAdvances` says the same of it. No fairness is
needed for either. What remains to `Termination` and `Exits` is that a step is
taken while there is one.

### The reader

A line is what lies between two breaks, a break being the start of the text or a
newline. `LinesWhole` says at the end of the file that the deliveries come from
the lines that are not ignorable, each from one, in order. The invariant
has to say where `fgets` stands in the middle: between two lines, or, after a
line that fills the buffer, in front of the newline that was left behind
(`Stands`). The lines that begin before that are delivered, but for the one in the
buffer (`HoldsLine`); a buffer that holds only the newline of the line before is
blank and adds nothing (`HoldsNewline`). `FgetsIs`, `TrimIs` and `IgnoredIs` say
what the three functions return; `IgnoreMore` and `DeliverMore` that one more line
keeps the deliveries in order. All of it needs `Fits`: a line longer than the
buffer comes in pieces.

### Induction

The induction theorems of the library take a predicate, which the provers cannot
instantiate. `SetInduction` says the same of a set, and follows from the least
element of a well-founded order. With it the proofs go by induction over the
lines of a file, the elements of a set and the operand of a directive.

### Model-checked only

- `Termination`, `Exits` and the fairness of `KeepsPromise`: liveness is beyond
  the prover, as is ENABLED.

## Not modelled

- The J format and `ret`: no entry of the table leads to them.
- Names are cut at 63 characters when a label is stored (1079), before it is
  compared, so two long names with the same start are one. In the model a label
  is the name as stored. The operand of `la` is read with an unbounded `%s` into
  64 characters (243-245): a longer one runs over the end of the buffer, which is
  undefined, and no file of the models has such a line.
- A NUL in the source, which ends a line for the string functions.
- `e_ident`, `e_flags`, `p_flags` and the like: constants that nothing reads.
- Two names for one file (`-c x -o x`): the source has been read when writer32
  opens the output.
- Logging, error texts, `print_code`: wording only. gperf's hash function is
  generated.
- The host project of a PICO_BUILD, its file system, and the order in which it
  calls the passes. It has a table to reset between two files.

## Plan

Done: the two passes with their symbol table and the promise they implement,
immediates, directives, encoding, the writers, the driver, the reader; proofs of
all their safety properties, and of the bounds on the steps they take.
