----------------------------- MODULE MCEncoding ------------------------------
(***************************************************************************)
(* The lines the model checker enumerates: every operand in turn goes      *)
(* through all tokens, every instruction through all immediates, and every *)
(* pseudo-instruction through pairs of registers.                          *)
(***************************************************************************)
EXTENDS Encoding

Bad == Fixed("(a1)")

(* Around the last number of each letter, around 256, where %hhu starts    *)
(* over, and with four and five characters.                                *)
Numbers == (-2..34) \cup {-999, -200, -99} \cup (254..268) \cup {287, 288, 512, 999, 2561, 1000}

Tokens == [name : Letters, number : Numbers]
          \cup ({Fixed(n) : n \in Names \cup Others} \ {Comma})

X(n) == Numbered("x", n)

(* One instruction for every way the operands are read.                    *)
RegisterLines ==
    UNION {{OperandLine(n, s, t, X(9), X(20), 4),
            OperandLine(n, s, X(7), t, X(20), 4),
            OperandLine(n, s, X(7), X(9), t, 4)} :
               n \in {"sub", "xori", "lw", "sh", "bne", "lui"},
               s \in {"full", "bare"}, t \in Tokens}

(* A comma in the operand that ends the line.                              *)
CommaLines ==
    {OperandLine("sub", s, X(7), X(9), Comma, 4) : s \in Shapes} \cup
    {OperandLine(n, s, X(7), Comma, X(20), 4) : n \in {"lw", "sh"}, s \in Shapes}

(* The powers of two and their neighbours.                                 *)
Immediates == UNION {{2^i - 1, 2^i, 2^i + 1, -2^i - 1, -2^i, 1 - 2^i} : i \in 0..21}

ImmediateLines ==
    {OperandLine(n, s, X(21), X(10), X(31), i) : n \in Plains, s \in Shapes, i \in Immediates}

Few == {X(0), X(1), Numbered("a", 3), Numbered("s", 11), X(2561), Fixed("zero5"), Bad}

PseudoLines ==
    {OperandLine(n, s, d, t, Zero, 0) : n \in Pseudos, s \in Shapes, d \in Few, t \in Few \cup {Comma}}

AllLines == RegisterLines \cup CommaLines \cup ImmediateLines \cup PseudoLines
=============================================================================
