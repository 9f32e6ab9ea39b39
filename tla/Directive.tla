------------------------------ MODULE Directive -----------------------------
(***************************************************************************)
(* What both passes rely on when they call parse_data_directive: of a      *)
(* directive only the number of bytes it asks for and the error in its     *)
(* operands count, and of the segment only how full it is.                 *)
(*                                                                         *)
(* Module DataDirectives has the handlers themselves, byte by byte, and    *)
(* shows that they keep to this.                                           *)
(***************************************************************************)
EXTENDS Source

CONSTANT DATA_SIZE    \* capacity of a segment in bytes (OPCODE_LEN * 512)

OPCODE_LEN == 4

ASSUME DataSizeAssumption == DATA_SIZE \in Nat /\ DATA_SIZE % OPCODE_LEN = 0

(* n bytes more fit in a segment.  Mutant: only the first is checked.      *)
Fits_First(offset, n) == offset < DATA_SIZE
Fits(offset, n) == offset + n <= DATA_SIZE

(* parse_data_directive: the operands are laid down one after another, so  *)
(* a full segment is noticed before a malformed operand behind them.       *)
parse_data_directive(s, current_size) ==
    IF s.op # "directive" THEN "UNKNOWN_PSEUDO"
    ELSE IF ~Fits(current_size, s.n) THEN "ERR"
    ELSE s.parse
=============================================================================
