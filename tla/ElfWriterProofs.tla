--------------------------- MODULE ElfWriterProofs --------------------------
(***************************************************************************)
(* Theorems of module ElfWriter, for segments of every size, every base    *)
(* address and every way stdio may cut what it is handed.                  *)
(***************************************************************************)
EXTENDS ElfWriter, LayoutLemmas

Calls == {"fopen", "fwrite", "abort", "fclose", "returned"}

TypeOK ==
    /\ text_len \in Nat /\ data_len \in Nat
    /\ call \in Calls
    /\ put \in 0..Len(Plan)
    /\ disk \in {"old", "new"}
    /\ flushed \in Nat
    /\ ret \in {"none", "OK", "ELF_ERROR"}
    /\ fault \in SUBSET {"fopen", "fwrite", "fclose"}

(* Nothing gets ahead of fwrite, and what has failed is what the next call *)
(* answers for.                                                            *)
Progress ==
    /\ call = "fopen" => put = 0 /\ disk = "old" /\ flushed = 0 /\ fault = {}
    /\ call = "fwrite" =>
           put < Len(Plan) /\ disk = "new" /\ fault = {} /\ flushed <= Before(Plan, put + 1)
    /\ call = "abort" =>
           /\ put < Len(Plan) /\ disk = "new" /\ fault = {"fwrite"}
           /\ flushed < Before(Plan, put + 2)
    /\ call = "fclose" => disk = "new" /\ fault = {} /\ flushed <= Size(Plan)
    /\ call # "returned" => ret = "none"
    /\ call = "returned" =>
           \/ ret = "OK" /\ fault = {} /\ Whole
           \/ ret = "OK" /\ fault = {"fclose"} /\ disk = "new"
           \/ ret = "ELF_ERROR" /\ fault \in {{"fopen"}, {"fwrite"}} /\ ~Whole

IInv == TypeOK /\ Progress

-----------------------------------------------------------------------------
(* The plan of the file                                                    *)

(* The chunks of the file in each of the four cases.                       *)
LEMMA PlanIs ==
    ASSUME text_len \in Nat, data_len \in Nat
    PROVE  LET e == Chunk("ehdr", EHDR)
               p == Chunk("phdr", PHDR)
               t == Chunk("text", text_len)
               d == Chunk("data", data_len)
               n == Chunk("shstrtab", shstrtab_size)
               s == Chunk("shdrs", SHDR * SH_NUM_SECTIONS)
           IN  /\ text_len > 0 /\ data_len > 0 => Plan = <<e, p, t, d, n, s>>
               /\ text_len > 0 /\ data_len = 0 => Plan = <<e, p, t, n, s>>
               /\ text_len = 0 /\ data_len > 0 => Plan = <<e, p, d, n, s>>
               /\ text_len = 0 /\ data_len = 0 => Plan = <<e, p, n, s>>
  <1> DEFINE e == Chunk("ehdr", EHDR)
             p == Chunk("phdr", PHDR)
             t == Chunk("text", text_len)
             d == Chunk("data", data_len)
             n == Chunk("shstrtab", shstrtab_size)
             s == Chunk("shdrs", SHDR * SH_NUM_SECTIONS)
  <1>1. Plan = ((<<e, p>> \o (IF text_len > 0 THEN <<t>> ELSE <<>>))
                   \o (IF data_len > 0 THEN <<d>> ELSE <<>>)) \o <<n, s>>
    BY DEF Plan, Segment
  <1> HIDE DEF e, p, t, d, n, s
  <1>2. <<e, p>> \o <<>> = <<e, p>> /\ <<e, p, t>> \o <<>> = <<e, p, t>>
    OBVIOUS
  <1>3. CASE text_len > 0 /\ data_len > 0
    <2>1. Plan = ((<<e, p>> \o <<t>>) \o <<d>>) \o <<n, s>>
      BY <1>1, <1>3
    <2>2. Plan = <<e, p, t, d, n, s>>
      <3>1. <<e, p>> \o <<t>> = <<e, p, t>>
        BY Join21, Zenon
      <3>2. <<e, p, t>> \o <<d>> = <<e, p, t, d>>
        BY Join31, Zenon
      <3>3. <<e, p, t, d>> \o <<n, s>> = <<e, p, t, d, n, s>>
        BY Join42
      <3> QED
        BY <2>1, <3>1, <3>2, <3>3, Zenon
    <2> QED
      BY <1>3, <2>2 DEF e, p, t, d, n, s
  <1>4. CASE text_len > 0 /\ data_len = 0
    <2>1. Plan = (<<e, p>> \o <<t>>) \o <<n, s>>
      BY <1>1, <1>2, <1>4
    <2>2. Plan = <<e, p, t, n, s>>
      <3>1. <<e, p>> \o <<t>> = <<e, p, t>>
        BY Join21, Zenon
      <3>2. <<e, p, t>> \o <<n, s>> = <<e, p, t, n, s>>
        BY Join32, Zenon
      <3> QED
        BY <2>1, <3>1, <3>2, Zenon
    <2> QED
      BY <1>4, <2>2 DEF e, p, t, d, n, s
  <1>5. CASE text_len = 0 /\ data_len > 0
    <2>1. Plan = (<<e, p>> \o <<d>>) \o <<n, s>>
      BY <1>1, <1>2, <1>5
    <2>2. Plan = <<e, p, d, n, s>>
      <3>1. <<e, p>> \o <<d>> = <<e, p, d>>
        BY Join21, Zenon
      <3>2. <<e, p, d>> \o <<n, s>> = <<e, p, d, n, s>>
        BY Join32, Zenon
      <3> QED
        BY <2>1, <3>1, <3>2, Zenon
    <2> QED
      BY <1>5, <2>2 DEF e, p, t, d, n, s
  <1>6. CASE text_len = 0 /\ data_len = 0
    <2>1. Plan = <<e, p>> \o <<n, s>>
      BY <1>1, <1>2, <1>6
    <2>2. Plan = <<e, p, n, s>>
      BY <2>1, Join22
    <2> QED
      BY <1>6, <2>2 DEF e, p, t, d, n, s
  <1> QED
    BY <1>3, <1>4, <1>5, <1>6

(* A chunk of the plan that begins at an offset.                           *)
Lies(what, size, offset) ==
    \E k \in 1..Len(Plan) : Plan[k] = Chunk(what, size) /\ Before(Plan, k) = offset

LaidOut ==
    /\ IsFile(Plan)
    /\ \A k \in 1..Len(Plan) : Plan[k].size > 0
    /\ \A k \in 1..Len(Plan) : Plan[k].what = "text" => Before(Plan, k) = 84
    /\ Size(Plan) = 312 + text_len + data_len
    /\ Lies("phdr", 32, 52)
    /\ text_len > 0 => Lies("text", text_len, 84)
    /\ data_len > 0 => Lies("data", data_len, 84 + text_len)
    /\ Lies("shstrtab", 28, 84 + text_len + data_len)
    /\ Lies("shdrs", 200, 112 + text_len + data_len)

(* Each chunk lies where those in front of it end, in each of the cases.   *)
LEMMA PlanLaidOut ==
    ASSUME text_len \in Nat, data_len \in Nat
    PROVE  LaidOut
  <1> USE DEF Chunk, EHDR, PHDR, SHDR, SH_NUM_SECTIONS, shstrtab_size
  <1>1. CASE text_len > 0 /\ data_len > 0
    <2>1. Plan = <<Chunk("ehdr", EHDR),
                   Chunk("phdr", PHDR),
                   Chunk("text", text_len),
                   Chunk("data", data_len),
                   Chunk("shstrtab", shstrtab_size),
                   Chunk("shdrs", SHDR * SH_NUM_SECTIONS)>>
      BY <1>1, PlanIs
    <2>2. IsFile(Plan) /\ Len(Plan) = 6 /\ \A k \in 1..6 : Plan[k].size > 0
      <3>1. Len(Plan) = 6 /\ Plan \in Seq({Plan[k] : k \in 1..6})
        BY <2>1
      <3>2. \A k \in 1..6 : Plan[k].size \in Nat /\ Plan[k].size > 0
        BY <1>1, <2>1
      <3> QED
        BY <3>1, <3>2 DEF IsFile
    <2>3. /\ Before(Plan, 1) = 0
          /\ Before(Plan, 2) = 52
          /\ Before(Plan, 3) = 84
          /\ Before(Plan, 4) = 84 + text_len
          /\ Before(Plan, 5) = 84 + text_len + data_len
          /\ Before(Plan, 6) = 112 + text_len + data_len
          /\ Before(Plan, 7) = 312 + text_len + data_len
      <3>1. Before(Plan, 1) = 0 /\ \A k \in 1..6 : Before(Plan, k + 1) = Before(Plan, k) + Plan[k].size
        BY <2>2, BeforeStep
      <3>2. /\ Before(Plan, 2) = Before(Plan, 1) + EHDR
            /\ Before(Plan, 3) = Before(Plan, 2) + PHDR
            /\ Before(Plan, 4) = Before(Plan, 3) + text_len
            /\ Before(Plan, 5) = Before(Plan, 4) + data_len
            /\ Before(Plan, 6) = Before(Plan, 5) + shstrtab_size
            /\ Before(Plan, 7) = Before(Plan, 6) + SHDR * SH_NUM_SECTIONS
        BY <2>1, <3>1
      <3> QED
        BY <1>1, <3>1, <3>2
    <2>4. \A k \in 1..Len(Plan) : Plan[k].what = "text" => k = 3
      BY <2>1, <2>2
    <2> QED
      BY SMTT(30), <1>1, <2>1, <2>2, <2>3, <2>4 DEF LaidOut, Lies, Size
  <1>2. CASE text_len > 0 /\ data_len = 0
    <2>1. Plan = <<Chunk("ehdr", EHDR),
                   Chunk("phdr", PHDR),
                   Chunk("text", text_len),
                   Chunk("shstrtab", shstrtab_size),
                   Chunk("shdrs", SHDR * SH_NUM_SECTIONS)>>
      BY <1>2, PlanIs
    <2>2. IsFile(Plan) /\ Len(Plan) = 5 /\ \A k \in 1..5 : Plan[k].size > 0
      <3>1. Len(Plan) = 5 /\ Plan \in Seq({Plan[k] : k \in 1..5})
        BY <2>1
      <3>2. \A k \in 1..5 : Plan[k].size \in Nat /\ Plan[k].size > 0
        BY <1>2, <2>1
      <3> QED
        BY <3>1, <3>2 DEF IsFile
    <2>3. /\ Before(Plan, 1) = 0
          /\ Before(Plan, 2) = 52
          /\ Before(Plan, 3) = 84
          /\ Before(Plan, 4) = 84 + text_len + data_len
          /\ Before(Plan, 5) = 112 + text_len + data_len
          /\ Before(Plan, 6) = 312 + text_len + data_len
      <3>1. Before(Plan, 1) = 0 /\ \A k \in 1..5 : Before(Plan, k + 1) = Before(Plan, k) + Plan[k].size
        BY <2>2, BeforeStep
      <3>2. /\ Before(Plan, 2) = Before(Plan, 1) + EHDR
            /\ Before(Plan, 3) = Before(Plan, 2) + PHDR
            /\ Before(Plan, 4) = Before(Plan, 3) + text_len
            /\ Before(Plan, 5) = Before(Plan, 4) + shstrtab_size
            /\ Before(Plan, 6) = Before(Plan, 5) + SHDR * SH_NUM_SECTIONS
        BY <2>1, <3>1
      <3> QED
        BY <1>2, <3>1, <3>2
    <2>4. \A k \in 1..Len(Plan) : Plan[k].what = "text" => k = 3
      BY <2>1, <2>2
    <2> QED
      BY SMTT(30), <1>2, <2>1, <2>2, <2>3, <2>4 DEF LaidOut, Lies, Size
  <1>3. CASE text_len = 0 /\ data_len > 0
    <2>1. Plan = <<Chunk("ehdr", EHDR),
                   Chunk("phdr", PHDR),
                   Chunk("data", data_len),
                   Chunk("shstrtab", shstrtab_size),
                   Chunk("shdrs", SHDR * SH_NUM_SECTIONS)>>
      BY <1>3, PlanIs
    <2>2. IsFile(Plan) /\ Len(Plan) = 5 /\ \A k \in 1..5 : Plan[k].size > 0
      <3>1. Len(Plan) = 5 /\ Plan \in Seq({Plan[k] : k \in 1..5})
        BY <2>1
      <3>2. \A k \in 1..5 : Plan[k].size \in Nat /\ Plan[k].size > 0
        BY <1>3, <2>1
      <3> QED
        BY <3>1, <3>2 DEF IsFile
    <2>3. /\ Before(Plan, 1) = 0
          /\ Before(Plan, 2) = 52
          /\ Before(Plan, 3) = 84 + text_len
          /\ Before(Plan, 4) = 84 + text_len + data_len
          /\ Before(Plan, 5) = 112 + text_len + data_len
          /\ Before(Plan, 6) = 312 + text_len + data_len
      <3>1. Before(Plan, 1) = 0 /\ \A k \in 1..5 : Before(Plan, k + 1) = Before(Plan, k) + Plan[k].size
        BY <2>2, BeforeStep
      <3>2. /\ Before(Plan, 2) = Before(Plan, 1) + EHDR
            /\ Before(Plan, 3) = Before(Plan, 2) + PHDR
            /\ Before(Plan, 4) = Before(Plan, 3) + data_len
            /\ Before(Plan, 5) = Before(Plan, 4) + shstrtab_size
            /\ Before(Plan, 6) = Before(Plan, 5) + SHDR * SH_NUM_SECTIONS
        BY <2>1, <3>1
      <3> QED
        BY <1>3, <3>1, <3>2
    <2>4. \A k \in 1..Len(Plan) : Plan[k].what # "text"
      BY <2>1, <2>2
    <2> QED
      BY <1>3, <2>1, <2>2, <2>3, <2>4 DEF LaidOut, Lies, Size
  <1>4. CASE text_len = 0 /\ data_len = 0
    <2>1. Plan = <<Chunk("ehdr", EHDR),
                   Chunk("phdr", PHDR),
                   Chunk("shstrtab", shstrtab_size),
                   Chunk("shdrs", SHDR * SH_NUM_SECTIONS)>>
      BY <1>4, PlanIs
    <2>2. IsFile(Plan) /\ Len(Plan) = 4 /\ \A k \in 1..4 : Plan[k].size > 0
      <3>1. Len(Plan) = 4 /\ Plan \in Seq({Plan[k] : k \in 1..4})
        BY <2>1
      <3>2. \A k \in 1..4 : Plan[k].size \in Nat /\ Plan[k].size > 0
        BY <1>4, <2>1
      <3> QED
        BY <3>1, <3>2 DEF IsFile
    <2>3. /\ Before(Plan, 1) = 0
          /\ Before(Plan, 2) = 52
          /\ Before(Plan, 3) = 84 + text_len + data_len
          /\ Before(Plan, 4) = 112 + text_len + data_len
          /\ Before(Plan, 5) = 312 + text_len + data_len
      <3>1. Before(Plan, 1) = 0 /\ \A k \in 1..4 : Before(Plan, k + 1) = Before(Plan, k) + Plan[k].size
        BY <2>2, BeforeStep
      <3>2. /\ Before(Plan, 2) = Before(Plan, 1) + EHDR
            /\ Before(Plan, 3) = Before(Plan, 2) + PHDR
            /\ Before(Plan, 4) = Before(Plan, 3) + shstrtab_size
            /\ Before(Plan, 5) = Before(Plan, 4) + SHDR * SH_NUM_SECTIONS
        BY <2>1, <3>1
      <3> QED
        BY <1>4, <3>1, <3>2
    <2>4. \A k \in 1..Len(Plan) : Plan[k].what # "text"
      BY <2>1, <2>2
    <2> QED
      BY <1>4, <2>1, <2>2, <2>3, <2>4 DEF LaidOut, Lies, Size
  <1> QED
    BY <1>1, <1>2, <1>3, <1>4

-----------------------------------------------------------------------------
(* The answer of writer32                                                  *)

(* What stdio has passed on only grows, and never past what it was handed. *)
LEMMA FlushesBounded ==
    ASSUME NEW limit \in Int, flushed \in Nat, flushed <= limit, NEW f \in Flushes(limit)
    PROVE  f \in Nat /\ f <= limit
  BY CutsAssumption DEF Flushes

(* The plan does not change while it is written.                           *)
LEMMA PlanKept ==
    ASSUME UNCHANGED <<text_len, data_len>>
    PROVE  Plan' = Plan
  BY DEF Plan, Segment

(* The invariant holds when writer32 is called.                            *)
LEMMA InvInit ==
    ASSUME Init PROVE IInv
  <1>1. text_len \in Nat /\ data_len \in Nat
    BY SizesAssumption DEF Init
  <1>2. Len(Plan) \in Nat
    BY <1>1, PlanLaidOut DEF LaidOut, IsFile
  <1> QED
    BY <1>1, <1>2 DEF Init, WriterInit, IInv, TypeOK, Progress, Calls

(* Every call of stdio keeps it, whether it succeeds or fails.             *)
LEMMA InvStep ==
    ASSUME IInv, WriterNext \/ WriterReturned
    PROVE  IInv'
  <1> USE DEF IInv, TypeOK, Calls
  <1>1. UNCHANGED <<text_len, data_len>>
    BY DEF WriterNext, WriterReturned, wvars, Open, OpenFails, Write, WriteFails, Abort,
           Close, CloseFails
  <1>2. Plan' = Plan /\ Size(Plan)' = Size(Plan)
    BY <1>1, PlanKept
  <1>3. LaidOut
    BY PlanLaidOut
  <1>4. /\ Len(Plan) \in Nat
        /\ Size(Plan) \in Nat
        /\ Size(Plan) = Before(Plan, Len(Plan) + 1)
        /\ \A k \in 1..(Len(Plan) + 1) : Before(Plan, k) \in Nat /\ Before(Plan, k) <= Size(Plan)
        /\ \A k \in 1..Len(Plan) : Before(Plan, k) < Before(Plan, k + 1)
    <2>1. Len(Plan) \in Nat
      BY <1>3 DEF LaidOut, IsFile
    <2>2. \A k \in 1..(Len(Plan) + 1) : Before(Plan, k) \in Nat
      BY <1>3, BeforeStep DEF LaidOut
    <2>3. \A k \in 1..(Len(Plan) + 1) : Before(Plan, k) <= Size(Plan)
      BY <1>3, <2>1, BeforeMonotone DEF LaidOut, Size
    <2>4. ASSUME NEW k \in 1..Len(Plan) PROVE Before(Plan, k) < Before(Plan, k + 1)
      <3>1. Before(Plan, k + 1) = Before(Plan, k) + Plan[k].size
        BY <1>3, BeforeStep DEF LaidOut
      <3>2. Plan[k].size \in Nat /\ Plan[k].size > 0
        BY <1>3 DEF LaidOut, IsFile
      <3> QED
        BY <2>1, <2>2, <3>1, <3>2
    <2> QED
      BY <2>1, <2>2, <2>3, <2>4 DEF Size
  <1>5. CASE Open
    <2>1. 0 < Len(Plan)
      BY <1>3 DEF LaidOut, Lies
    <2> QED
      BY <1>2, <1>4, <1>5, <2>1 DEF Open, Progress
  <1>6. CASE OpenFails
    BY <1>2, <1>4, <1>6 DEF OpenFails, Returns, Progress, Whole
  <1>7. CASE Write
    <2>1. /\ put + 1 \in 1..Len(Plan)
          /\ flushed < Before(Plan, put + 2)
      BY SMTT(30), <1>4, <1>7 DEF Write, Progress
    <2>2. flushed' \in Nat /\ flushed' <= Before(Plan, put + 2)
      <3>1. PICK limit \in Nat : limit = Before(Plan, put + 2)
        BY <1>4, <2>1
      <3>2. flushed' \in Flushes(limit)
        BY <1>7, <3>1 DEF Write
      <3> QED
        BY <2>1, <3>1, <3>2, FlushesBounded
    <2>3. put' = put + 1 /\ put' \in 0..Len(Plan)
      BY <1>7, <2>1 DEF Write
    <2>4. CASE put' = Len(Plan)
      BY <1>2, <1>4, <1>7, <2>2, <2>3, <2>4 DEF Write, Progress
    <2>5. CASE put' # Len(Plan)
      BY <1>2, <1>4, <1>7, <2>2, <2>3, <2>5 DEF Write, Progress
    <2> QED
      BY <2>4, <2>5
  <1>8. CASE WriteFails
    <2>1. /\ put + 1 \in 1..Len(Plan)
          /\ flushed < Before(Plan, put + 2)
      BY <1>4, <1>8 DEF WriteFails, Progress
    <2>2. flushed' \in Nat /\ flushed' < Before(Plan, put + 2)
      <3>1. PICK limit \in Nat : limit = Before(Plan, put + 2)
        BY <1>4, <2>1
      <3>2. flushed' \in Flushes(limit - 1)
        BY <1>8, <3>1 DEF WriteFails
      <3> QED
        BY <2>1, <3>1, <3>2, FlushesBounded
    <2>3. Plan[put + 1].size # 0
      BY SMTT(30), <1>3, <2>1 DEF LaidOut, IsFile
    <2> QED
      BY <1>2, <1>8, <2>1, <2>2, <2>3 DEF WriteFails, Progress
  <1>9. CASE Abort
    <2>1. put + 2 \in 1..(Len(Plan) + 1) /\ flushed < Before(Plan, put + 2)
      BY <1>4, <1>9 DEF Abort, Progress
    <2>2. flushed' \in Nat /\ flushed' < Before(Plan, put + 2)
      BY <1>4, <1>9, <2>1, FlushesBounded DEF Abort
    <2>3. flushed' # Size(Plan)
      BY <1>4, <2>1, <2>2
    <2> QED
      BY <1>2, <1>9, <2>2, <2>3 DEF Abort, Returns, Progress, Whole
  <1>10. CASE Close
    BY <1>2, <1>4, <1>10 DEF Close, Returns, Progress, Whole
  <1>11. CASE CloseFails
    <2>1. flushed' \in Nat
      BY <1>4, <1>11, CutsAssumption DEF CloseFails, Flushes
    <2> QED
      BY <1>2, <1>11, <2>1 DEF CloseFails, Returns, Progress
  <1>12. CASE WriterReturned
    BY <1>2, <1>12 DEF WriterReturned, wvars, Progress, Whole
  <1> QED
    BY <1>5, <1>6, <1>7, <1>8, <1>9, <1>10, <1>11, <1>12 DEF WriterNext

(* The invariant holds throughout.                                         *)
THEOREM Invariance == Spec => []IInv
  <1>1. Init => IInv
    BY InvInit
  <1>2. IInv /\ [WriterNext \/ WriterReturned]_wvars => IInv'
    <2> SUFFICES ASSUME IInv, [WriterNext \/ WriterReturned]_wvars PROVE IInv'
      OBVIOUS
    <2>1. CASE WriterNext \/ WriterReturned
      BY <2>1, InvStep
    <2>2. CASE UNCHANGED wvars
      <3>1. Plan' = Plan /\ Size(Plan)' = Size(Plan)
        BY <2>2, PlanKept DEF wvars
      <3> QED
        BY <2>2, <3>1 DEF IInv, TypeOK, Progress, Calls, Whole, wvars
    <2> QED
      BY <2>1, <2>2
  <1> QED
    BY <1>1, <1>2, PTL DEF Spec

(* Whatever fails and wherever stdio cuts, writer32 says OK of a complete  *)
(* file, of a file whose last bytes fclose lost, and of no other; and it   *)
(* never blames the disk for a program without code or data.               *)
THEOREM AnswerTrue == Spec => []AnswerIsTrue
  <1>1. IInv => AnswerIsTrue
    BY DEF IInv, TypeOK, Progress, AnswerIsTrue
  <1> QED
    BY <1>1, Invariance, PTL

-----------------------------------------------------------------------------
(* The file and its headers                                                *)

(* What is found where a chunk lies is that chunk, byte by byte.           *)
LEMMA LiesAt ==
    ASSUME LaidOut, NEW what, NEW size, NEW offset \in Int, Lies(what, size, offset),
           NEW i \in 0..(size - 1)
    PROVE  Byte(Plan, offset + i) = <<what, i>>
  <1>1. PICK k \in 1..Len(Plan) : Plan[k] = Chunk(what, size) /\ Before(Plan, k) = offset
    BY DEF Lies
  <1>2. Plan[k].size = size /\ Plan[k].what = what
    BY <1>1 DEF Chunk
  <1> QED
    BY <1>1, <1>2, ByteAt DEF LaidOut

(* What lies at each of the offsets that the headers give.                 *)
LEMMA BytesOfPlan ==
    ASSUME text_len \in Nat, data_len \in Nat
    PROVE  /\ Byte(Plan, 52) = <<"phdr", 0>>
           /\ \A i \in 0..(text_len - 1) : Byte(Plan, 84 + i) = <<"text", i>>
           /\ \A i \in 0..(data_len - 1) : Byte(Plan, 84 + text_len + i) = <<"data", i>>
           /\ \A i \in 0..27 : Byte(Plan, 84 + text_len + data_len + i) = <<"shstrtab", i>>
           /\ Byte(Plan, 112 + text_len + data_len) = <<"shdrs", 0>>
  <1>1. LaidOut
    BY PlanLaidOut
  <1>2. Lies("phdr", 32, 52) /\ (text_len > 0 => Lies("text", text_len, 84))
    BY <1>1 DEF LaidOut
  <1>3. /\ data_len > 0 => Lies("data", data_len, 84 + text_len)
        /\ Lies("shstrtab", 28, 84 + text_len + data_len)
        /\ Lies("shdrs", 200, 112 + text_len + data_len)
    BY <1>1 DEF LaidOut
  <1>4. Byte(Plan, 52 + 0) = <<"phdr", 0>>
    BY <1>1, <1>2, LiesAt
  <1>5. ASSUME NEW i \in 0..(text_len - 1) PROVE Byte(Plan, 84 + i) = <<"text", i>>
    BY <1>1, <1>2, LiesAt
  <1>6. ASSUME NEW i \in 0..(data_len - 1)
        PROVE  Byte(Plan, 84 + text_len + i) = <<"data", i>>
    BY <1>1, <1>3, LiesAt
  <1>7. ASSUME NEW i \in 0..27
        PROVE  Byte(Plan, 84 + text_len + data_len + i) = <<"shstrtab", i>>
    BY <1>1, <1>3, LiesAt
  <1>8. Byte(Plan, 112 + text_len + data_len + 0) = <<"shdrs", 0>>
    BY <1>1, <1>3, LiesAt
  <1> QED
    BY <1>4, <1>5, <1>6, <1>7, <1>8

(* The segment of the program header puts the byte at an offset of the     *)
(* file at that distance from the base address, up to the string table.    *)
LEMMA MemoryIs ==
    ASSUME text_len \in Nat, data_len \in Nat, NEW a \in Nat
    PROVE  Memory(Plan, Program, base_vaddr + a) =
               IF a < 84 + text_len + data_len THEN Byte(Plan, a) ELSE Nothing
  <1>1. /\ Program.vaddr = base_vaddr
        /\ Program.offset = 0
        /\ Program.filesz = 84 + text_len + data_len
    BY DEF Program, fill_program_header, shstrtab_offset, data_offset, text_offset, EHDR, PHDR
  <1>2. /\ (base_vaddr + a) - base_vaddr + 0 = a
        /\ base_vaddr + a \in base_vaddr..(base_vaddr + (84 + text_len + data_len) - 1)
               <=> a < 84 + text_len + data_len
    BY BaseAssumption
  <1> QED
    BY <1>1, <1>2 DEF Memory

(* What is in memory, then: .text, .data, and nothing behind them.         *)
LEMMA MemoryOfPlan ==
    ASSUME text_len \in Nat, data_len \in Nat
    PROVE  /\ \A i \in 0..(text_len - 1) :
                  Memory(Plan, Program, base_vaddr + (84 + i)) = <<"text", i>>
           /\ \A i \in 0..(data_len - 1) :
                  Memory(Plan, Program, base_vaddr + (84 + text_len + i)) = <<"data", i>>
           /\ Memory(Plan, Program, base_vaddr + (84 + text_len + data_len)) = Nothing
  <1>1. ASSUME NEW i \in 0..(text_len - 1)
        PROVE  Memory(Plan, Program, base_vaddr + (84 + i)) = <<"text", i>>
    <2>1. 84 + i \in Nat /\ 84 + i < 84 + text_len + data_len
      OBVIOUS
    <2> QED
      BY <2>1, MemoryIs, BytesOfPlan
  <1>2. ASSUME NEW i \in 0..(data_len - 1)
        PROVE  Memory(Plan, Program, base_vaddr + (84 + text_len + i)) = <<"data", i>>
    <2>1. 84 + text_len + i \in Nat /\ 84 + text_len + i < 84 + text_len + data_len
      OBVIOUS
    <2> QED
      BY <2>1, MemoryIs, BytesOfPlan
  <1>3. 84 + text_len + data_len \in Nat
    OBVIOUS
  <1> QED
    BY <1>1, <1>2, <1>3, MemoryIs

(* Each byte of .text is found at one address only.                        *)
LEMMA FoundOnce ==
    ASSUME text_len \in Nat, data_len \in Nat, NEW a \in Int, NEW o \in Int,
           Memory(Plan, Program, a) = <<"text", o>>
    PROVE  a = base_vaddr + 84 + o
  <1>1. Program.vaddr = base_vaddr /\ Program.offset = 0 /\ base_vaddr \in Nat
    BY BaseAssumption DEF Program, fill_program_header
  <1>2. Byte(Plan, a - base_vaddr) = <<"text", o>>
    BY <1>1 DEF Memory, Nothing
  <1>3. PICK k \in 1..Len(Plan) :
            <<Plan[k].what, (a - base_vaddr) - Before(Plan, k)>> = <<"text", o>>
    <2>1. DOMAIN Plan = 1..Len(Plan)
      BY PlanLaidOut DEF LaidOut, IsFile
    <2> DEFINE x == a - base_vaddr
               Covers(k) == x >= Before(Plan, k) /\ x < Before(Plan, k) + Plan[k].size
    <2>2. \E k \in DOMAIN Plan : Covers(k)
      BY <1>2 DEF Byte, Nothing
    <2>3. Byte(Plan, x) = LET k == CHOOSE k \in DOMAIN Plan : Covers(k)
                          IN  <<Plan[k].what, x - Before(Plan, k)>>
      BY <2>2 DEF Byte
    <2> HIDE DEF Covers
    <2> QED
      BY <1>2, <2>1, <2>2, <2>3
  <1>4. Before(Plan, k) = 84
    BY <1>3, PlanLaidOut DEF LaidOut
  <1> QED
    BY <1>1, <1>3, <1>4

(* .text and .data are loaded where the assembler took them to be, for     *)
(* segments of every size.                                                 *)
LEMMA LoadingIs ==
    ASSUME text_len \in Nat, data_len \in Nat
    PROVE  LoadedInPlace
  <1> DEFINE At(a) == Memory(Plan, Program, base_vaddr + a)
  <1>1. Byte(Plan, Header.phoff) = <<"phdr", 0>>
    BY BytesOfPlan DEF Header, fill_elf_header, EHDR
  <1>2. Header.entry = base_vaddr + EHDR + PHDR
    BY BaseAssumption DEF Header, fill_elf_header, text_offset, EHDR, PHDR
  <1>3. ASSUME NEW i \in 0..(text_len - 1) PROVE At(EHDR + PHDR + i) = <<"text", i>>
    <2>1. 84 + i \in Nat /\ 84 + i < 84 + text_len + data_len /\ EHDR + PHDR + i = 84 + i
      BY DEF EHDR, PHDR
    <2> QED
      BY <2>1, MemoryIs, BytesOfPlan
  <1>4. ASSUME NEW i \in 0..(data_len - 1)
        PROVE  At(EHDR + PHDR + text_len + i) = <<"data", i>>
    <2>1. /\ 84 + text_len + i \in Nat
          /\ 84 + text_len + i < 84 + text_len + data_len
          /\ EHDR + PHDR + text_len + i = 84 + text_len + i
      BY DEF EHDR, PHDR
    <2> QED
      BY <2>1, MemoryIs, BytesOfPlan
  <1>5. ASSUME NEW i \in 0..SHDR
        PROVE  At(EHDR + PHDR + text_len + data_len + i) = Nothing
    <2>1. /\ 84 + text_len + data_len + i \in Nat
          /\ ~(84 + text_len + data_len + i < 84 + text_len + data_len)
          /\ EHDR + PHDR + text_len + data_len + i = 84 + text_len + data_len + i
      BY DEF EHDR, PHDR, SHDR
    <2> QED
      BY <2>1, MemoryIs
  <1>6. Program.memsz >= Program.filesz
    BY DEF Program, fill_program_header, shstrtab_offset, data_offset, text_offset, EHDR, PHDR
  <1> QED
    BY <1>1, <1>2, <1>3, <1>4, <1>5, <1>6 DEF LoadedInPlace

(* The section headers in figures.                                         *)
LEMMA SectionsAre ==
    ASSUME text_len \in Nat, data_len \in Nat
    PROVE  /\ Sections[1] = [name |-> 0, type |-> "NULL", addr |-> 0, offset |-> 0,
                             size |-> 0, align |-> 0]
           /\ Sections[2] = [name |-> 1, type |-> "PROGBITS", addr |-> base_vaddr + 84,
                             offset |-> 84, size |-> text_len, align |-> PAGE_ALIGN]
           /\ Sections[3] = [name |-> 7, type |-> "PROGBITS",
                             addr |-> base_vaddr + (84 + text_len),
                             offset |-> 84 + text_len, size |-> data_len,
                             align |-> PAGE_ALIGN]
           /\ Sections[4] = [name |-> 13, type |-> "NOBITS",
                             addr |-> base_vaddr + (84 + text_len + data_len),
                             offset |-> 84 + text_len + data_len, size |-> 0,
                             align |-> PAGE_ALIGN]
           /\ Sections[5] = [name |-> 18, type |-> "STRTAB", addr |-> 0,
                             offset |-> 84 + text_len + data_len, size |-> 28,
                             align |-> 1]
  BY DEF Sections, section_headers, fill_section_header, STR_OFF, shstrtab_offset,
         data_offset, text_offset, EHDR, PHDR, shstrtab_size

(* Every table of a complete file leads to what it names, for segments of  *)
(* every size.                                                             *)
LEMMA TablesAre ==
    ASSUME text_len \in Nat, data_len \in Nat
    PROVE  TablesTrue
  <1> DEFINE What == <<"", "text", "data", "bss", "shstrtab">>
             Right(k) ==
                 /\ StringAt(Sections[k].name) = Strings[k].name
                 /\ Sections[k].type # "NOBITS" =>
                        \A i \in 0..(Sections[k].size - 1) :
                            Byte(Plan, Sections[k].offset + i) = <<What[k], i>>
                 /\ Sections[k].addr # 0 =>
                        Sections[k].addr - Program.vaddr = Sections[k].offset - Program.offset
  <1>1. /\ Header.shoff = 112 + text_len + data_len
        /\ Header.shnum = 5
        /\ Header.shstrndx = 4
    BY DEF Header, fill_elf_header, shoff, shstrtab_offset, data_offset, text_offset, EHDR,
           PHDR, shstrtab_size, SH_NUM_SECTIONS, SH_IDX_SHSTRTAB
  <1>2. Program.vaddr = base_vaddr /\ Program.offset = 0 /\ base_vaddr \in Int
    BY BaseAssumption DEF Program, fill_program_header
  <1>3. Byte(Plan, Header.shoff) = <<"shdrs", 0>>
    BY <1>1, BytesOfPlan
  <1>4. Header.shoff + Header.shnum * SHDR = Size(Plan)
    BY <1>1, PlanLaidOut DEF LaidOut, SHDR
  <1>5. /\ StringAt(0) = Strings[1].name
        /\ StringAt(1) = Strings[2].name
        /\ StringAt(7) = Strings[3].name
        /\ StringAt(13) = Strings[4].name
        /\ StringAt(18) = Strings[5].name
    BY StringsLaidOut DEF STR_OFF, Strings
  <1>6. /\ Byte(Plan, Sections[5].offset) = <<"shstrtab", 0>>
        /\ Sections[5].size = Size(Strings)
    <2>1. Sections[5].offset = 84 + text_len + data_len /\ Sections[5].size = 28
      BY SectionsAre
    <2>2. Byte(Plan, 84 + text_len + data_len + 0) = <<"shstrtab", 0>>
      BY BytesOfPlan
    <2>3. 84 + text_len + data_len + 0 = 84 + text_len + data_len
      OBVIOUS
    <2>4. Byte(Plan, Sections[5].offset) = <<"shstrtab", 0>>
      BY <2>1, <2>2, <2>3
    <2>5. Sections[5].size = Size(Strings)
      BY <2>1, StringsLaidOut DEF shstrtab_size
    <2> QED
      BY <2>4, <2>5
  <1>7. Right(1)
    <2>1. /\ Sections[1].name = 0
          /\ Sections[1].size = 0
          /\ Sections[1].addr = 0
      BY SectionsAre
    <2> QED
      BY <1>5, <2>1
  <1>8. Right(2)
    <2>1. /\ Sections[2].name = 1
          /\ Sections[2].size = text_len
          /\ Sections[2].offset = 84
          /\ Sections[2].addr = base_vaddr + 84
      BY SectionsAre
    <2> QED
      BY <1>2, <1>5, <2>1, BytesOfPlan
  <1>9. Right(3)
    <2>1. /\ Sections[3].name = 7
          /\ Sections[3].size = data_len
          /\ Sections[3].offset = 84 + text_len
          /\ Sections[3].addr = base_vaddr + (84 + text_len)
      BY SectionsAre
    <2> QED
      BY <1>2, <1>5, <2>1, BytesOfPlan
  <1>10. Right(4)
    <2>1. /\ Sections[4].name = 13
          /\ Sections[4].type = "NOBITS"
          /\ Sections[4].offset = 84 + text_len + data_len
          /\ Sections[4].addr = base_vaddr + (84 + text_len + data_len)
      BY SectionsAre
    <2> QED
      BY <1>2, <1>5, <2>1
  <1>11. Right(5)
    <2>1. /\ Sections[5].name = 18
          /\ Sections[5].size = 28
          /\ Sections[5].offset = 84 + text_len + data_len
          /\ Sections[5].addr = 0
      BY SectionsAre
    <2> QED
      BY <1>5, <2>1, BytesOfPlan
  <1>12. ASSUME NEW k \in 1..Header.shnum PROVE Right(k)
    <2>1. k \in {1, 2, 3, 4, 5}
      BY <1>1
    <2> HIDE DEF Right
    <2> QED
      BY <1>7, <1>8, <1>9, <1>10, <1>11, <2>1
  <1>13. /\ Byte(Plan, Sections[Header.shstrndx + 1].offset) = <<"shstrtab", 0>>
         /\ Sections[Header.shstrndx + 1].size = Size(Strings)
    BY <1>1, <1>6
  <1> QED
    BY <1>3, <1>4, <1>12, <1>13 DEF TablesTrue

(* Any file with all of its segment is loaded as the assembler expects.    *)
THEOREM Loading == Spec => []LoadedInPlace
  <1>1. IInv => LoadedInPlace
    BY LoadingIs DEF IInv, TypeOK
  <1> QED
    BY <1>1, Invariance, PTL

(* A complete file is what its headers say it is.                          *)
THEOREM Tables == Spec => []TablesTrue
  <1>1. IInv => TablesTrue
    BY TablesAre DEF IInv, TypeOK
  <1> QED
    BY <1>1, Invariance, PTL
=============================================================================
