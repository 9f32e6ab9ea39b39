---------------------------- MODULE MCImmediates ----------------------------
(***************************************************************************)
(* Immediates with fields of a few bits: every operand of li in and next   *)
(* to the range of a word, every pair of a symbol and a pc.                *)
(***************************************************************************)
EXTENDS Immediates

AllLongs == (-(WORD \div 2) - LOW)..(WORD \div 2 + LOW)
AllWords == 0..(WORD - 1)
=============================================================================
