------------------------ MODULE AssemblerRefinement -------------------------
(***************************************************************************)
(* The two passes keep the promise of Assembly.  The verdict is where the  *)
(* passes stand, and the image is what lies below the segment sizes once   *)
(* both have succeeded, the part of the segments writer32 writes.          *)
(***************************************************************************)
EXTENDS Assembler

Verdict == CASE phase = "done"   -> "accepted"
             [] phase = "failed" -> IF err = "FILE_ERROR" THEN "unreadable"
                                    ELSE "rejected"
             [] OTHER            -> "pending"

Contents ==
    IF phase = "done"
    THEN [text |-> [k \in 1..(size.text \div OPCODE_LEN) |->
                        text[OPCODE_LEN * (k - 1)]],
          data |-> [k \in 1..size.data |-> data[k - 1]]]
    ELSE [text |-> <<>>, data |-> <<>>]

Promise == INSTANCE Assembly WITH verdict <- Verdict, image <- Contents

(* Every file gets the verdict Assembly gives it, and an accepted one the  *)
(* image Assembly gives it: scan_labels and assemble_file together reject  *)
(* exactly what is not acceptable, and place every word, byte and symbol   *)
(* where the source order puts it.                                         *)
KeepsPromise == Promise!Spec
=============================================================================
