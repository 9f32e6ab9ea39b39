--------------------------- MODULE DataDirectives ---------------------------
(***************************************************************************)
(* The handlers behind parse_data_directive of src/instruction.c, operand  *)
(* by operand and byte by byte: handle_data_integer, handle_data_string    *)
(* and handle_data_space lay the operands of one directive after another   *)
(* down in the array of a segment, as either pass does.                    *)
(*                                                                         *)
(* A directive is what strtok and sscanf deliver: an integer operand is    *)
(* its value or Malformed, a string operand the characters behind the name *)
(* of the directive, as codes.                                             *)
(***************************************************************************)
EXTENDS Directive, Integers, SequencesExt

CONSTANTS SizeTypes,      \* how many values size_t may have, 2^32 or 2^64
          Directives,     \* the directives the segment is filled with
          Malformed       \* an operand sscanf does not take for a number

ASSUME DirectivesAssumption ==
    /\ Malformed \notin Int
    /\ \A d \in Directives : d.args \in Seq(Int \cup {Malformed})

ASSUME SizeTypesAssumption ==
    SizeTypes # {} /\ \A m \in SizeTypes : m \in Nat /\ m > DATA_SIZE

VARIABLES
    host,          \* where the assembler runs: its byte order and its size_t
    data,          \* the array, and in cell DATA_SIZE what lies behind it
    data_offset,   \* of the pass: where the next directive starts
    current_size,  \* of the handler: where the next byte goes
    directive,     \* the directive being handled
    args,          \* its operands or characters not yet handled
    handler,       \* "none", or the loop that runs
    err,           \* what the last call returned
    before         \* history: the array when the directive was met

vars == <<host, data, data_offset, current_size, directive, args, handler, err,
          before>>

Cells == 0..DATA_SIZE

(* Byte k of a long long, from the least significant on.                   *)
Byte(v, k) ==
    LET Shifted[j \in 0..k] == IF j = 0 THEN v ELSE Shifted[j - 1] \div 256
    IN  Shifted[k] % 256

(* memcpy(&data[current_size], &val, step) on the host.                    *)
Copied(v, step) ==
    [k \in 1..step |-> Byte(v, IF host.order = "little" THEN k - 1 ELSE 8 - k)]

Put(d, at, bytes) ==
    [c \in Cells |-> IF c \in at..(at + Len(bytes) - 1) THEN bytes[c - at + 1]
                                                        ELSE d[c]]

(* Mutant: .half is not told from .word.                                   *)
Step_NoHalf(name) == IF name = ".byte" THEN 1 ELSE 4
Step(name) == CASE name = ".byte" -> 1 [] name = ".half" -> 2 [] OTHER -> 4

Quote == 34
Backslash == 92

(* The escapes of handle_data_string: n, t, r, backslash and quote.        *)
Escapes == {110, 116, 114, Backslash, Quote}
Escape(c) == CASE c = 110 -> 10 [] c = 116 -> 9 [] c = 114 -> 13 [] OTHER -> c

(* The characters between the first quote and the last.                    *)
Quotes(s) == {i \in DOMAIN s : s[i] = Quote}
Inside(s) == SubSeq(s, Min(Quotes(s)) + 1, Max(Quotes(s)) - 1)

-----------------------------------------------------------------------------
Init ==
    /\ host \in [order : {"little", "big"}, size_t : SizeTypes]
    /\ data = [c \in Cells |-> 0]
    /\ before = data
    /\ data_offset = 0
    /\ current_size = 0
    /\ directive = CHOOSE d \in Directives : TRUE
    /\ args = <<>>
    /\ handler = "none"
    /\ err = "OK"

(* The handler returns; the caller takes its offset over on success only.  *)
Return(e, offset) ==
    /\ handler' = "none"
    /\ err' = e
    /\ data_offset' = IF e = "OK" THEN offset ELSE data_offset
    /\ current_size' = offset
    /\ UNCHANGED <<host, directive, args, before>>

Refuse(e) == Return(e, current_size) /\ UNCHANGED data

Lay(bytes, left) ==
    /\ data' = Put(data, current_size, bytes)
    /\ current_size' = current_size + Len(bytes)
    /\ args' = left
    /\ UNCHANGED <<host, data_offset, directive, handler, err, before>>

(* The pass meets the next directive; it stops at the first error.         *)
Call ==
    /\ handler = "none" /\ err = "OK"
    /\ directive' \in Directives
    /\ handler' = CASE directive'.name \in {".byte", ".half", ".word"} -> "integer"
                    [] directive'.name \in {".string", ".asciz", ".asciiz"} -> "string"
                    [] directive'.name = ".space" -> "space"
                    [] OTHER -> "unknown"
    /\ args' = IF handler' = "string" /\ Cardinality(Quotes(directive'.args)) > 1
               THEN Inside(directive'.args) ELSE directive'.args
    /\ before' = data
    /\ current_size' = data_offset
    /\ UNCHANGED <<host, data, data_offset, err>>

UnknownDirective == handler = "unknown" /\ Refuse("UNKNOWN_PSEUDO")

-----------------------------------------------------------------------------
(* handle_data_integer: the literal, then the room, then the bytes.        *)

IntegerMalformed ==
    /\ handler = "integer" /\ args # <<>> /\ Head(args) = Malformed
    /\ Refuse("PARSE_ERROR")

IntegerFull ==
    /\ handler = "integer" /\ args # <<>> /\ Head(args) # Malformed
    /\ ~Fits(current_size, Step(directive.name))
    /\ Refuse("ERR")

Integer ==
    /\ handler = "integer" /\ args # <<>> /\ Head(args) # Malformed
    /\ Fits(current_size, Step(directive.name))
    /\ Lay(Copied(Head(args), Step(directive.name)), Tail(args))

IntegerEnd == handler = "integer" /\ args = <<>> /\ Refuse("OK")

-----------------------------------------------------------------------------
(* handle_data_string: one test for room per round of the loop.            *)

Unquoted == Cardinality(Quotes(directive.args)) <= 1

StringMalformed == handler = "string" /\ Unquoted /\ Refuse("PARSE_ERROR")

StringFull == /\ handler = "string" /\ ~Unquoted
              /\ current_size >= DATA_SIZE
              /\ Refuse("ERR")

(* The characters a round lays down.  Mutant: those of an unknown escape   *)
(* are swapped.                                                            *)
Round_Swapped(s) ==
    IF s[1] = Backslash /\ Len(s) > 1
    THEN IF s[2] \in Escapes THEN <<Escape(s[2])>> ELSE <<s[2], Backslash>>
    ELSE <<s[1]>>
Round(s) ==
    IF s[1] = Backslash /\ Len(s) > 1
    THEN IF s[2] \in Escapes THEN <<Escape(s[2])>> ELSE <<Backslash, s[2]>>
    ELSE <<s[1]>>

Taken(s) == IF s[1] = Backslash /\ Len(s) > 1 THEN 2 ELSE 1

StringRound ==
    /\ handler = "string" /\ ~Unquoted /\ args # <<>>
    /\ current_size < DATA_SIZE
    /\ Lay(Round(args), SubSeq(args, Taken(args) + 1, Len(args)))

(* Mutant: the terminator is not tested for room.                          *)
StringEnd_Untested ==
    /\ handler = "string" /\ ~Unquoted /\ args = <<>>
    /\ data' = Put(data, current_size, <<0>>)
    /\ Return("OK", current_size + 1)
StringEnd ==
    /\ handler = "string" /\ ~Unquoted /\ args = <<>>
    /\ current_size < DATA_SIZE
    /\ data' = Put(data, current_size, <<0>>)
    /\ Return("OK", current_size + 1)

-----------------------------------------------------------------------------
(* handle_data_space: a count and, optionally, the byte to fill with.      *)

SpaceWellFormed ==
    /\ args # <<>>
    /\ args[1] # Malformed /\ args[1] >= 0
    /\ Len(args) > 1 => args[2] # Malformed /\ args[2] \in 0..255

SpaceFill == IF Len(args) > 1 THEN args[2] ELSE 0

SpaceMalformed == handler = "space" /\ ~SpaceWellFormed /\ Refuse("PARSE_ERROR")

(* A long long as a size_t: the cast of the test, the third argument of    *)
(* memset, and what the sum is stored as.                                  *)
AsSize(v) == v % host.size_t

SpaceFull ==
    /\ handler = "space" /\ SpaceWellFormed
    /\ AsSize(args[1]) > DATA_SIZE - current_size
    /\ Refuse("ERR")

Space ==
    /\ handler = "space" /\ SpaceWellFormed
    /\ AsSize(args[1]) <= DATA_SIZE - current_size
    /\ data' = Put(data, current_size, [k \in 1..AsSize(args[1]) |-> SpaceFill])
    /\ Return("OK", current_size + AsSize(args[1]))

-----------------------------------------------------------------------------
Stopped == handler = "none" /\ err # "OK" /\ UNCHANGED vars

Next == \/ Call \/ UnknownDirective \/ Stopped
        \/ IntegerMalformed \/ IntegerFull \/ Integer \/ IntegerEnd
        \/ StringMalformed \/ StringFull \/ StringRound \/ StringEnd
        \/ SpaceMalformed \/ SpaceFull \/ Space

Spec == Init /\ [][Next]_vars

-----------------------------------------------------------------------------
(* What a directive means, from the directive alone                        *)

IsInteger(d) == d.name \in {".byte", ".half", ".word"}
IsString(d) == d.name \in {".string", ".asciz", ".asciiz"}
IsSpace(d) == d.name = ".space"

(* The literals in front of the first malformed one.                       *)
Good(d) == {i \in DOMAIN d.args : \A j \in 1..i : d.args[j] # Malformed}

(* The characters of a string behind position i of s, escapes read.        *)
Meaning(s) ==
    LET From[i \in 1..(Len(s) + 2)] ==
            IF i > Len(s) THEN <<>>
            ELSE IF s[i] # Backslash \/ i = Len(s) THEN <<s[i]>> \o From[i + 1]
            ELSE IF s[i + 1] \in Escapes THEN <<Escape(s[i + 1])>> \o From[i + 2]
            ELSE <<Backslash, s[i + 1]>> \o From[i + 2]
    IN  From[1]

Width == [name \in {".byte", ".half", ".word"} |->
              CASE name = ".byte" -> 1 [] name = ".half" -> 2 [] name = ".word" -> 4]

(* Two's complement, the least significant byte first, as the target has   *)
(* it.                                                                     *)
Image(d) ==
    CASE IsInteger(d) ->
           FlattenSeq([i \in 1..Cardinality(Good(d)) |->
                           [k \in 1..Width[d.name] |-> Byte(d.args[i], k - 1)]])
      [] IsString(d) -> Append(Meaning(Inside(d.args)), 0)
      [] IsSpace(d) -> [k \in 1..d.args[1] |-> IF Len(d.args) > 1 THEN d.args[2] ELSE 0]

(* The error in the operands.                                              *)
Fault(d) ==
    CASE IsInteger(d) -> IF Cardinality(Good(d)) < Len(d.args) THEN "PARSE_ERROR" ELSE "OK"
      [] IsString(d)  -> IF Cardinality(Quotes(d.args)) <= 1 THEN "PARSE_ERROR" ELSE "OK"
      [] IsSpace(d)   -> IF /\ d.args # <<>>
                            /\ d.args[1] # Malformed /\ d.args[1] >= 0
                            /\ Len(d.args) > 1 =>
                                   d.args[2] # Malformed /\ d.args[2] \in 0..255
                         THEN "OK" ELSE "PARSE_ERROR"
      [] OTHER        -> "UNKNOWN_PSEUDO"

(* The bytes a directive takes up on this host: of .space as many as its   *)
(* size_t makes of the count.                                              *)
Room(d) ==
    CASE IsSpace(d) /\ Fault(d) = "OK"    -> AsSize(d.args[1])
      [] IsString(d) /\ Fault(d) = "OK"   -> Len(Image(d))
      [] IsInteger(d)                     -> Len(Image(d))
      [] OTHER                            -> 0

(* The statement of module Source that stands for the directive.           *)
Summary(d) == Directive(Room(d), Fault(d))

-----------------------------------------------------------------------------
(* Properties                                                              *)

Returns == handler # "none" /\ handler' = "none"

(* Every call answers as Directive says, from the size and the fault of    *)
(* the whole directive and the offset it starts at: the bytes laid down    *)
(* one after another, the tests for room in between and what an escape     *)
(* takes up add up to that.  Both passes depend on getting the same answer,*)
(* also of a .space whose count does not fit in a size_t of 32 bits.       *)
KeepsContract ==
    [][Returns =>
        LET s == Summary(directive)
        IN  /\ err' = parse_data_directive(s, data_offset)
            /\ data_offset' = data_offset + (IF err' = "OK" THEN s.n ELSE 0)]_vars

(* A directive that succeeds has laid down the bytes it means, right where *)
(* the last one ended, and nothing else; one that fails has left the bytes *)
(* of the earlier ones alone.  The target is little-endian, so integers    *)
(* need a host that is; the code does not ask whether it is.  Nor does it  *)
(* ask whether the count of a .space fits in a size_t, as 2^32 does not in *)
(* one of 32 bits: such a directive is accepted as a smaller one.          *)
LaidDown ==
    [][Returns =>
        /\ /\ err' = "OK"
           /\ IsInteger(directive) => host.order = "little"
           /\ IsSpace(directive) => directive.args[1] < host.size_t
           => data' = Put(before, data_offset, Image(directive))
        /\ \A c \in Cells : c < data_offset => data'[c] = before[c]]_vars

(* The second byte of an unknown escape is laid down without a test of its *)
(* own.  It may go one past the capacity, never further, and the call is   *)
(* then refused, so no offset beyond the capacity comes out of a pass.     *)
OverrunRefused ==
    /\ current_size <= DATA_SIZE + 1
    /\ handler = "none" /\ current_size > DATA_SIZE => err = "ERR"
    /\ data_offset <= DATA_SIZE
=============================================================================
