-------------------------- MODULE PicoWriterProofs --------------------------
(***************************************************************************)
(* Theorems of module PicoWriter, for segments of every size, every file   *)
(* found on the flash and any number of calls of writer32 that fail.       *)
(***************************************************************************)
EXTENDS PicoWriter, LayoutLemmas

Calls == {"pico_mount", "pico_open", "pico_write", "pico_close", "pico_unmount", "returned"}

TypeOK ==
    /\ text_len \in Nat /\ data_len \in Nat /\ old_len \in Nat
    /\ call \in Calls
    /\ mounted \in BOOLEAN
    /\ open \in BOOLEAN
    /\ fault \subseteq Calls \ {"returned"}
    /\ ret \in {"none", "OK", "ELF_ERROR"}

(* pico_write goes through the plan from its start.                        *)
Prefix ==
    /\ IsFile(written)
    /\ Len(written) <= Len(Plan)
    /\ \A k \in 1..Len(written) : written[k] = Plan[k]

(* What the file got has sizes, and it is all that was written if the      *)
(* close succeeded.                                                        *)
Kept ==
    /\ IsFile(kept)
    /\ call = "pico_unmount" /\ "pico_close" \notin fault => kept = written
    /\ call = "returned" /\ ret = "OK" /\ "pico_close" \notin fault => kept = written

(* The file is in use between pico_open and pico_close and at no other     *)
(* time; what is mounted may be what an earlier call left behind.  Only    *)
(* what the last two calls answer goes unnoticed.                          *)
Held ==
    /\ call \in {"pico_mount", "pico_open"} => ~open
    /\ call = "pico_open" => mounted
    /\ call = "pico_write" => mounted /\ Len(written) < Len(Plan)
    /\ call = "pico_close" => mounted /\ Len(written) = Len(Plan)
    /\ call = "pico_unmount" =>
           ~open /\ mounted /\ Len(written) = Len(Plan) /\ fault \subseteq {"pico_close"}
    /\ call \in {"pico_mount", "pico_open", "pico_write", "pico_close"} => fault = {}
    /\ call = "returned" =>
           /\ ~open
           /\ ret = "OK" => /\ Len(written) = Len(Plan)
                            /\ mounted => "pico_unmount" \in fault
           /\ ret = "OK" <=> fault \subseteq {"pico_close", "pico_unmount"}

IInv == TypeOK /\ Prefix /\ Kept /\ Held

-----------------------------------------------------------------------------
(* The plan                                                                *)

(* The plan is a file of up to two chunks, none of them empty.             *)
LEMMA PlanIs ==
    ASSUME text_len \in Nat, data_len \in Nat
    PROVE  LET t == Chunk("text", text_len)
               d == Chunk("data", data_len)
           IN  /\ text_len > 0 /\ data_len > 0 => Plan = <<t, d>>
               /\ text_len > 0 /\ data_len = 0 => Plan = <<t>>
               /\ text_len = 0 /\ data_len > 0 => Plan = <<d>>
               /\ text_len = 0 /\ data_len = 0 => Plan = <<>>
  <1> DEFINE t == Chunk("text", text_len)
             d == Chunk("data", data_len)
  <1>1. Plan = (IF text_len > 0 THEN <<t>> ELSE <<>>) \o (IF data_len > 0 THEN <<d>> ELSE <<>>)
    BY DEF Plan, Segments
  <1> HIDE DEF t, d
  <1>2. /\ <<t>> \o <<d>> = <<t, d>>
        /\ <<t>> \o <<>> = <<t>>
        /\ <<>> \o <<d>> = <<d>>
        /\ <<>> \o <<>> = <<>>
    BY Join11
  <1>3. CASE text_len > 0 /\ data_len > 0
    BY <1>1, <1>2, <1>3 DEF t, d
  <1>4. CASE text_len > 0 /\ data_len = 0
    BY <1>1, <1>2, <1>4 DEF t, d
  <1>5. CASE text_len = 0 /\ data_len > 0
    BY <1>1, <1>2, <1>5 DEF t, d
  <1>6. CASE text_len = 0 /\ data_len = 0
    BY <1>1, <1>2, <1>6 DEF t, d
  <1> QED
    BY <1>3, <1>4, <1>5, <1>6

(* What pico_writer lays out is a file.                                    *)
LEMMA PlanIsFile ==
    ASSUME text_len \in Nat, data_len \in Nat
    PROVE  IsFile(Plan) /\ Len(Plan) \in Nat
  <1> DEFINE t == Chunk("text", text_len)
             d == Chunk("data", data_len)
  <1>1. t.size \in Nat /\ d.size \in Nat
    BY DEF Chunk
  <1>2. Plan = <<t, d>> \/ Plan = <<t>> \/ Plan = <<d>> \/ Plan = <<>>
    BY PlanIs
  <1> HIDE DEF t, d
  <1>3. ASSUME Plan = <<t, d>> PROVE Plan \in Seq({t, d}) /\ Len(Plan) = 2
    BY <1>3
  <1>4. ASSUME Plan = <<t>> PROVE Plan \in Seq({t, d}) /\ Len(Plan) = 1
    BY <1>4
  <1>5. ASSUME Plan = <<d>> PROVE Plan \in Seq({t, d}) /\ Len(Plan) = 1
    BY <1>5
  <1>6. ASSUME Plan = <<>> PROVE Plan \in Seq({t, d}) /\ Len(Plan) = 0
    BY <1>6
  <1>7. Plan \in Seq({t, d}) /\ Len(Plan) \in Nat
    BY <1>2, <1>3, <1>4, <1>5, <1>6
  <1>8. \A k \in 1..Len(Plan) : Plan[k] \in {t, d}
    BY <1>7
  <1>9. \A k \in 1..Len(Plan) : Plan[k].size \in Nat
    BY <1>1, <1>8
  <1> QED
    BY <1>7, <1>9 DEF IsFile

(* The plan does not change during a call.                                 *)
LEMMA PlanKept ==
    ASSUME UNCHANGED sizes
    PROVE  Plan' = Plan
  BY DEF Plan, Segments, sizes

-----------------------------------------------------------------------------
(* What a call leaves behind                                               *)

(* The empty file is a file.                                               *)
LEMMA EmptyIsFile == IsFile(<<>>) /\ Len(<<>>) = 0
  <1>1. <<>> \in Seq({}) /\ Len(<<>>) = 0
    OBVIOUS
  <1>2. \A k \in 1..Len(<<>>) : <<>>[k].size \in Nat
    BY <1>1
  <1> QED
    BY <1>1, <1>2 DEF IsFile

(* What is left of a longer file moves none of the chunks of the file.     *)
LEMMA FileIs ==
    ASSUME TypeOK, IsFile(kept)
    PROVE  /\ IsFile(File)
           /\ Len(kept) \in Nat /\ Len(File) \in Nat /\ Len(File) >= Len(kept)
           /\ \A k \in 1..Len(kept) : File[k] = kept[k]
  <1>1. Len(kept) \in Nat
    BY DEF IsFile
  <1>2. Size(kept) \in Nat
    BY <1>1, BeforeStep DEF Size
  <1> DEFINE rest == Chunk("old", old_len - Size(kept))
  <1>3. CASE old_len > Size(kept)
    <2>1. rest.size \in Nat
      BY <1>2, <1>3 DEF Chunk, TypeOK
    <2>2. File = Append(kept, rest)
      BY <1>3 DEF File
    <2> HIDE DEF rest
    <2> QED
      BY <1>1, <2>1, <2>2, BeforeAppend
  <1>4. CASE ~(old_len > Size(kept))
    BY <1>1, <1>4 DEF File
  <1> QED
    BY <1>3, <1>4

(* What a file got of what was written has sizes.                          *)
LEMMA PartsAreFiles ==
    ASSUME IsFile(written), NEW f \in Parts
    PROVE  IsFile(f)
  <1>1. PICK n \in 0..Len(written) : f = SubSeq(written, 1, n)
    BY DEF Parts
  <1>2. PICK S : written \in Seq(S)
    BY DEF IsFile
  <1>3. Len(written) \in Nat /\ \A k \in 1..Len(written) : written[k].size \in Nat
    BY DEF IsFile
  <1>4. f \in Seq(S) /\ Len(f) = n /\ \A k \in 1..n : f[k] = written[k]
    BY <1>1, <1>2, <1>3
  <1>5. \A k \in 1..Len(f) : f[k].size \in Nat
    BY <1>3, <1>4
  <1> QED
    BY <1>4, <1>5 DEF IsFile

(* The invariant holds before the first call.                              *)
LEMMA InvInit ==
    ASSUME Init PROVE IInv
  <1>1. text_len \in Nat /\ data_len \in Nat /\ old_len \in Nat
    BY SizesAssumption DEF Init
  <1>2. Prefix
    BY <1>1, EmptyIsFile, PlanIsFile DEF Init, Prefix
  <1>3. Kept
    BY EmptyIsFile DEF Init, Kept
  <1> QED
    BY <1>1, <1>2, <1>3 DEF Init, IInv, TypeOK, Held, Calls

(* Each call of the file system keeps it, and so does the next program.    *)
LEMMA InvStep ==
    ASSUME IInv, Next
    PROVE  IInv'
  <1> USE DEF IInv, TypeOK, Calls
  <1>1. IsFile(Plan) /\ Len(Plan) \in Nat
    BY PlanIsFile
  <1>2. Len(written) \in Nat /\ Len(written) <= Len(Plan)
    BY DEF Prefix, IsFile
  <1>3. ASSUME UNCHANGED <<sizes, written>> PROVE Prefix' /\ Plan' = Plan
    BY <1>3, PlanKept DEF Prefix
  <1>4. CASE Mount
    BY <1>3, <1>4 DEF Mount, Held, Kept, sizes
  <1>5. CASE MountFails
    BY <1>3, <1>5 DEF MountFails, Returns, Held, Kept, sizes
  <1>6. CASE Open
    <2>1. Plan' = Plan
      BY <1>6, PlanKept DEF Open
    <2>2. Prefix'
      BY <1>1, <1>6, <2>1, EmptyIsFile DEF Open, Prefix
    <2>3. Kept'
      BY <1>6 DEF Open, Kept, AfterWrite
    <2> QED
      BY <1>1, <1>6, <2>1, <2>2, <2>3, EmptyIsFile DEF Open, AfterWrite, Held, sizes
  <1>7. CASE OpenFails
    BY <1>3, <1>7 DEF OpenFails, Returns, Held, Kept, sizes
  <1>8. CASE Write
    <2>1. Plan' = Plan
      BY <1>8, PlanKept DEF Write
    <2>2. Len(written) + 1 \in 1..Len(Plan)
      BY <1>1, <1>2, <1>8 DEF Write, Held
    <2>3. Plan[Len(written) + 1].size \in Nat
      BY <1>1, <2>2 DEF IsFile
    <2>4. /\ IsFile(written')
          /\ Len(written') = Len(written) + 1
          /\ \A k \in 1..Len(written) : written'[k] = written[k]
          /\ written'[Len(written) + 1] = Plan[Len(written) + 1]
      <3>1. IsFile(written)
        BY DEF Prefix
      <3>2. \E S : written \in Seq(S)
        BY <3>1 DEF IsFile
      <3>3. Append(written, Plan[Len(written) + 1])[Len(written) + 1] = Plan[Len(written) + 1]
        BY <3>2
      <3> QED
        BY <1>8, <2>3, <3>1, <3>3, BeforeAppend DEF Write
    <2>5. Prefix'
      BY <1>1, <1>2, <2>1, <2>2, <2>4 DEF Prefix
    <2>6. Kept'
      BY <1>8 DEF Write, Kept, AfterWrite
    <2> QED
      BY <1>1, <1>2, <1>8, <2>1, <2>2, <2>4, <2>5, <2>6 DEF Write, AfterWrite, Held, sizes
  <1>9. CASE WriteFails
    <2>1. Kept'
      <3>1. IsFile(written) /\ kept' \in Parts
        BY <1>9 DEF WriteFails, Prefix
      <3>2. IsFile(kept')
        BY <3>1, PartsAreFiles
      <3> QED
        BY <1>9, <3>2 DEF WriteFails, Returns, Kept
    <2> QED
      BY <1>3, <1>9, <2>1 DEF WriteFails, Returns, Held, sizes
  <1>10. CASE Close
    BY <1>3, <1>10 DEF Close, Held, Kept, Prefix, sizes
  <1>11. CASE CloseFails
    <2>1. Kept'
      <3>1. IsFile(written) /\ kept' \in Parts
        BY <1>11 DEF CloseFails, Prefix
      <3>2. IsFile(kept')
        BY <3>1, PartsAreFiles
      <3> QED
        BY <1>11, <3>2 DEF CloseFails, Kept
    <2> QED
      BY <1>3, <1>11, <2>1 DEF CloseFails, Held, sizes
  <1>12. CASE Unmount
    BY <1>3, <1>12 DEF Unmount, Returns, Held, Kept, sizes
  <1>13. CASE UnmountFails
    BY <1>3, <1>13 DEF UnmountFails, Returns, Held, Kept, sizes
  <1>14. CASE CallAgain
    <2>1. IsFile(File) /\ Len(File) \in Nat
      BY FileIs DEF Kept
    <2>2. Size(File) \in Nat
      BY <2>1, BeforeStep DEF Size
    <2>3. text_len' \in Nat /\ data_len' \in Nat /\ old_len' \in Nat
      BY <1>14, <2>2, SizesAssumption DEF CallAgain
    <2>4. Len(Plan)' \in Nat
      BY <2>3, PlanIsFile
    <2>5. Prefix' /\ Kept'
      BY <1>14, <2>4, EmptyIsFile DEF CallAgain, Prefix, Kept
    <2> QED
      BY <1>14, <2>3, <2>5 DEF CallAgain, Held
  <1> QED
    BY <1>4, <1>5, <1>6, <1>7, <1>8, <1>9, <1>10, <1>11, <1>12, <1>13, <1>14 DEF Next

(* The invariant holds through every sequence of calls.                    *)
THEOREM Invariance == Spec => []IInv
  <1>1. Init => IInv
    BY InvInit
  <1>2. IInv /\ [Next]_pvars => IInv'
    <2> SUFFICES ASSUME IInv, [Next]_pvars PROVE IInv'
      OBVIOUS
    <2>1. CASE Next
      BY <2>1, InvStep
    <2>2. CASE UNCHANGED pvars
      <3>1. Plan' = Plan
        BY <2>2, PlanKept DEF pvars, sizes
      <3> QED
        BY <2>2, <3>1 DEF IInv, TypeOK, Prefix, Kept, Held, Calls, pvars
    <2> QED
      BY <2>1, <2>2
  <1> QED
    BY <1>1, <1>2, PTL DEF Spec

(* No call returns with a file it has not passed to pico_close, and one    *)
(* that succeeds gives the file system back whatever failed before it,     *)
(* unless it is pico_unmount that failed.                                  *)
THEOREM NothingStaysHeld == Spec => []NothingHeld
  <1>1. IInv => NothingHeld
    BY DEF IInv, Held, NothingHeld
  <1> QED
    BY <1>1, Invariance, PTL

-----------------------------------------------------------------------------
(* The file a call leaves                                                  *)

(* .text and behind it .data, for segments of every size.                  *)
LEMMA SegmentsAre ==
    ASSUME IInv, call = "returned", ret = "OK", "pico_close" \notin fault
    PROVE  /\ \A i \in 0..(text_len - 1) : Byte(File, i) = <<"text", i>>
           /\ \A i \in 0..(data_len - 1) : Byte(File, text_len + i) = <<"data", i>>
  <1>1. text_len \in Nat /\ data_len \in Nat
    BY DEF IInv, TypeOK
  <1>2. /\ IsFile(File)
        /\ Len(File) \in Nat
        /\ Len(Plan) \in Nat /\ Len(Plan) <= Len(File)
        /\ \A k \in 1..Len(Plan) : File[k] = Plan[k]
    <2>1. kept = written
      BY DEF IInv, Kept
    <2>2. /\ IsFile(File) /\ Len(File) \in Nat
          /\ Len(written) <= Len(File)
          /\ \A k \in 1..Len(written) : File[k] = written[k]
      BY <2>1, FileIs DEF IInv, Prefix
    <2>3. Len(Plan) \in Nat /\ Len(written) = Len(Plan)
      BY <1>1, PlanIsFile DEF IInv, Held
    <2> QED
      BY <2>2, <2>3 DEF IInv, Prefix
  <1>3. ASSUME NEW k \in 1..Len(Plan), NEW what, NEW size, Plan[k] = Chunk(what, size),
               NEW o \in Int, Before(File, k) = o, NEW i \in 0..(size - 1)
        PROVE  Byte(File, o + i) = <<what, i>>
    <2>1. k \in 1..Len(File) /\ File[k].what = what /\ File[k].size = size
      BY <1>2, <1>3 DEF Chunk
    <2> QED
      BY <1>2, <1>3, <2>1, ByteAt
  <1>4. Before(File, 1) = 0
    BY <1>2, BeforeStep
  <1>5. CASE text_len > 0
    <2>1. 1 \in 1..Len(Plan) /\ Plan[1] = Chunk("text", text_len)
      BY <1>1, <1>2, <1>5, PlanIs
    <2>2. \A i \in 0..(text_len - 1) : Byte(File, 0 + i) = <<"text", i>>
      BY <1>3, <1>4, <2>1
    <2>3. Before(File, 2) = text_len
      <3>1. 1 \in 1..Len(File) /\ File[1].size = text_len
        BY <1>2, <2>1 DEF Chunk
      <3>2. Before(File, 1 + 1) = Before(File, 1) + File[1].size
        BY <1>2, <3>1, BeforeStep
      <3> QED
        BY <1>1, <1>4, <3>1, <3>2
    <2>4. CASE data_len > 0
      <3>1. 2 \in 1..Len(Plan) /\ Plan[2] = Chunk("data", data_len)
        <4>1. Plan = <<Chunk("text", text_len), Chunk("data", data_len)>>
          BY <1>1, <1>5, <2>4, PlanIs
        <4> QED
          BY <4>1
      <3>2. \A i \in 0..(data_len - 1) : Byte(File, text_len + i) = <<"data", i>>
        BY <1>1, <1>3, <2>3, <3>1
      <3> QED
        BY <2>2, <3>2
    <2>5. CASE data_len = 0
      BY <2>2, <2>5
    <2> QED
      BY <1>1, <2>4, <2>5
  <1>6. CASE text_len = 0 /\ data_len > 0
    <2>1. 1 \in 1..Len(Plan) /\ Plan[1] = Chunk("data", data_len)
      <3>1. Plan = <<Chunk("data", data_len)>>
        BY <1>1, <1>6, PlanIs
      <3> QED
        BY <3>1
    <2>2. \A i \in 0..(data_len - 1) : Byte(File, 0 + i) = <<"data", i>>
      BY <1>3, <1>4, <2>1
    <2> QED
      BY <1>6, <2>2
  <1>7. CASE text_len = 0 /\ data_len = 0
    BY <1>7
  <1> QED
    BY <1>1, <1>5, <1>6, <1>7

(* A call that returns OK with a close that succeeded has the segments in  *)
(* the file where the layout puts them, the headers left out; and OK means *)
(* that nothing but that close or the unmount has failed.                  *)
THEOREM Written == Spec => []SegmentsWritten
  <1>1. IInv => SegmentsWritten
    <2> SUFFICES ASSUME IInv, call = "returned"
                 PROVE  /\ ret = "OK" <=> fault \subseteq {"pico_close", "pico_unmount"}
                        /\ ret = "OK" /\ "pico_close" \notin fault => InPlace
      BY DEF SegmentsWritten
    <2>1. ret = "OK" <=> fault \subseteq {"pico_close", "pico_unmount"}
      BY DEF IInv, Held
    <2>2. ASSUME ret = "OK", "pico_close" \notin fault PROVE InPlace
      <3>1. \A i \in Int : data_offset(text_len) + i - text_offset = text_len + i
        BY DEF data_offset, text_offset, EHDR, PHDR, IInv, TypeOK
      <3> QED
        BY <2>2, <3>1, SegmentsAre DEF InPlace
    <2> QED
      BY <2>1, <2>2
  <1> QED
    BY <1>1, Invariance, PTL
=============================================================================
