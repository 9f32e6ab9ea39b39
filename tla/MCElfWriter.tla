----------------------------- MODULE MCElfWriter -----------------------------
(* Sizes of no instruction, one and two, and stdio cut at every offset.    *)
EXTENDS ElfWriter

Offsets == 0..400
=============================================================================
