---------------------------- MODULE MCLineReader -----------------------------
(* Every file of at most MaxLength characters.                             *)
EXTENDS LineReader

CONSTANT MaxLength

AllTexts == BoundedSeq(Characters, MaxLength)
=============================================================================
