------------------------------ MODULE PicoWriter -----------------------------
(***************************************************************************)
(* writer32 of src/writer.c in a PICO_BUILD: the same layout is computed,  *)
(* but only the two segments are written, through the file system on the   *)
(* flash of the board.  The host project calls it as often as it likes.    *)
(*                                                                         *)
(* pico_mount, pico_open, pico_write, pico_close and pico_unmount belong   *)
(* to the host project.  They are known by their use alone: each of them   *)
(* may fail, and LFS_O_RDWR neither creates nor truncates.  What was       *)
(* written is on the flash for certain once pico_close has succeeded.      *)
(***************************************************************************)
EXTENDS ElfLayout

CONSTANTS TextSizes, DataSizes,   \* the sizes writer32 is called with
          OldSizes                \* the sizes of the file found

ASSUME SizesAssumption ==
    TextSizes \subseteq Nat /\ DataSizes \subseteq Nat /\ OldSizes \subseteq Nat

VARIABLES
    text_len, data_len,   \* the sizes of the segments of this call
    old_len,   \* the size of the file before this call
    call,      \* the next call, or "returned"
    written,   \* the chunks pico_write has taken since pico_open
    kept,      \* those of them that the file on the flash got
    mounted,   \* the file system is mounted
    open,      \* fp was opened and has not been passed to pico_close
    fault,     \* the calls that have failed in this call of writer32
    ret        \* what writer32 returned

pvars == <<text_len, data_len, old_len, call, written, kept, mounted, open, fault, ret>>

sizes == <<text_len, data_len, old_len>>

(* An empty segment is left out.  Mutant: .data comes first.               *)
Segments_Swapped(t, d) ==
    (IF d > 0 THEN <<Chunk("data", d)>> ELSE <<>>)
        \o (IF t > 0 THEN <<Chunk("text", t)>> ELSE <<>>)
Segments(t, d) ==
    (IF t > 0 THEN <<Chunk("text", t)>> ELSE <<>>)
        \o (IF d > 0 THEN <<Chunk("data", d)>> ELSE <<>>)

Plan == Segments(text_len, data_len)

Init ==
    /\ text_len \in TextSizes /\ data_len \in DataSizes /\ old_len \in OldSizes
    /\ call = "pico_mount"
    /\ written = <<>> /\ kept = <<>>
    /\ mounted = FALSE
    /\ open = FALSE
    /\ fault = {}
    /\ ret = "none"

Returns(e) == call' = "returned" /\ ret' = e

(* What a file can have got of what was written when its close fails.      *)
Parts == {SubSeq(written, 1, n) : n \in 0..Len(written)}

(* Of a file system that is mounted already either answer is possible.     *)
Mount ==
    /\ call = "pico_mount"
    /\ call' = "pico_open"
    /\ mounted' = TRUE
    /\ UNCHANGED <<sizes, written, kept, open, fault, ret>>

MountFails ==
    /\ call = "pico_mount"
    /\ fault' = fault \cup {"pico_mount"}
    /\ Returns("ELF_ERROR")
    /\ UNCHANGED <<sizes, written, kept, mounted, open>>

AfterWrite == IF Len(written') < Len(Plan) THEN "pico_write" ELSE "pico_close"

Open ==
    /\ call = "pico_open"
    /\ open' = TRUE
    /\ written' = <<>>
    /\ call' = AfterWrite
    /\ UNCHANGED <<sizes, kept, mounted, fault, ret>>

OpenFails ==
    /\ call = "pico_open"
    /\ fault' = fault \cup {"pico_open"}
    /\ Returns("ELF_ERROR")
    /\ UNCHANGED <<sizes, written, kept, mounted, open>>

Write ==
    /\ call = "pico_write"
    /\ written' = Append(written, Plan[Len(written) + 1])
    /\ call' = AfterWrite
    /\ UNCHANGED <<sizes, kept, mounted, open, fault, ret>>

(* pico_close, whatever it answers, but no pico_unmount.  Mutant: neither. *)
WriteFails_Open ==
    /\ call = "pico_write"
    /\ fault' = fault \cup {"pico_write"}
    /\ kept' \in Parts
    /\ Returns("ELF_ERROR")
    /\ UNCHANGED <<sizes, written, mounted, open>>
WriteFails ==
    /\ call = "pico_write"
    /\ fault' = fault \cup {"pico_write"}
    /\ kept' \in Parts
    /\ open' = FALSE
    /\ Returns("ELF_ERROR")
    /\ UNCHANGED <<sizes, written, mounted>>

Close ==
    /\ call = "pico_close"
    /\ open' = FALSE
    /\ kept' = written
    /\ call' = "pico_unmount"
    /\ UNCHANGED <<sizes, written, mounted, fault, ret>>

(* The results of the last two calls are not looked at: whatever they are, *)
(* writer32 goes on.                                                      *)
CloseFails ==
    /\ call = "pico_close"
    /\ open' = FALSE
    /\ kept' \in Parts
    /\ fault' = fault \cup {"pico_close"}
    /\ call' = "pico_unmount"
    /\ UNCHANGED <<sizes, written, mounted, ret>>

Unmount ==
    /\ call = "pico_unmount"
    /\ mounted' = FALSE
    /\ Returns("OK")
    /\ UNCHANGED <<sizes, written, kept, open, fault>>

UnmountFails ==
    /\ call = "pico_unmount"
    /\ fault' = fault \cup {"pico_unmount"}
    /\ Returns("OK")
    /\ UNCHANGED <<sizes, written, kept, mounted, open>>

(* The file: what it got, and behind that the rest of a longer old one.    *)
File == IF old_len > Size(kept)
        THEN Append(kept, Chunk("old", old_len - Size(kept)))
        ELSE kept

(* The host project assembles the next program to the same file.  The      *)
(* chunk of a write that failed may be there in part, and the host may do  *)
(* with the file what it likes: any size is possible.                      *)
CallAgain ==
    /\ call = "returned"
    /\ text_len' \in TextSizes /\ data_len' \in DataSizes
    /\ old_len' \in OldSizes \cup {Size(File)}
    /\ written' = <<>> /\ kept' = <<>>
    /\ call' = "pico_mount"
    /\ fault' = {}
    /\ ret' = "none"
    /\ UNCHANGED <<mounted, open>>

Next == \/ Mount \/ MountFails \/ Open \/ OpenFails \/ Write \/ WriteFails
        \/ Close \/ CloseFails \/ Unmount \/ UnmountFails \/ CallAgain

Spec == Init /\ [][Next]_pvars

-----------------------------------------------------------------------------
(* Properties                                                              *)

(* Whatever failed, in this call or an earlier one, no call returns with   *)
(* a file that it has not passed to pico_close, and one that succeeds has  *)
(* given the file system back, even when a failed one before it did not:   *)
(* only pico_unmount itself can leave it mounted then.                     *)
NothingHeld ==
    call = "returned" =>
        /\ ~open
        /\ ret = "OK" /\ mounted => "pico_unmount" \in fault

(* .text at the start of the file and .data right behind it, the place of  *)
(* each byte of .data being the one the layout gives it less the headers.  *)
InPlace ==
    /\ \A i \in 0..(text_len - 1) : Byte(File, i) = <<"text", i>>
    /\ \A i \in 0..(data_len - 1) :
           Byte(File, data_offset(text_len) + i - text_offset) = <<"data", i>>

(* A call that returns OK with a close that succeeded has the segments in  *)
(* the file at their places.  Nothing is said of what lies behind them, an *)
(* older file that was longer.  OK means that mount, open and the writes   *)
(* succeeded; that of the close it does not tell.                          *)
SegmentsWritten ==
    call = "returned" =>
        /\ ret = "OK" <=> fault \subseteq {"pico_close", "pico_unmount"}
        /\ ret = "OK" /\ "pico_close" \notin fault => InPlace

-----------------------------------------------------------------------------
(* What the repository says and the code does not do                       *)

(* include/writer.h:27, "Produces an ELF (32 bits)": of the headers this   *)
(* build writes none, but when it returns OK at least the segments are in  *)
(* the file.                                                               *)
PicoProduces == call = "returned" /\ ret = "OK" => InPlace
=============================================================================
