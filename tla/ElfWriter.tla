------------------------------ MODULE ElfWriter ------------------------------
(***************************************************************************)
(* writer32 of src/writer.c on a host: fopen, up to six fwrite, fclose.    *)
(* stdio keeps what it is handed and passes any part of it on whenever it  *)
(* likes; each of its calls can fail, the disk being full, and what had    *)
(* been passed on stays in the file.                                       *)
(***************************************************************************)
EXTENDS ElfLayout

CONSTANT Cuts    \* the offsets at which stdio may stop passing bytes on

ASSUME CutsAssumption == Cuts \subseteq Nat

VARIABLES
    text_len, data_len,   \* the sizes of the segments, fixed
    call,      \* "fopen", "fwrite", "abort", "fclose" or "returned"
    put,       \* how many chunks fwrite has taken
    disk,      \* the named file: as it was ("old") or opened for writing ("new")
    flushed,   \* how many bytes of a new file are on disk
    ret,       \* what writer32 returned
    fault      \* history: the calls of stdio that failed

wvars == <<text_len, data_len, call, put, disk, flushed, ret, fault>>

(* fwrite of zero bytes returns 0, which is taken for a failure, so an     *)
(* empty segment is left out.  Mutant: it is not.                          *)
Segment_Always(what, size) == <<Chunk(what, size)>>
Segment(what, size) == IF size > 0 THEN <<Chunk(what, size)>> ELSE <<>>

Plan == <<Chunk("ehdr", EHDR), Chunk("phdr", PHDR)>>
            \o Segment("text", text_len) \o Segment("data", data_len)
            \o <<Chunk("shstrtab", shstrtab_size),
                 Chunk("shdrs", SHDR * SH_NUM_SECTIONS)>>

WriterInit ==
    /\ call = "fopen"
    /\ put = 0
    /\ disk = "old"
    /\ flushed = 0
    /\ ret = "none"
    /\ fault = {}

(* What can be on disk once stdio has been handed limit bytes.             *)
Flushes(limit) == {flushed} \cup {c \in Cuts \cup {limit} : c >= flushed /\ c <= limit}

Returns(e) == call' = "returned" /\ ret' = e

Open ==
    /\ call = "fopen"
    /\ call' = "fwrite"
    /\ disk' = "new"
    /\ UNCHANGED <<text_len, data_len, put, flushed, ret, fault>>

OpenFails ==
    /\ call = "fopen"
    /\ Returns("ELF_ERROR")
    /\ fault' = {"fopen"}
    /\ UNCHANGED <<text_len, data_len, put, disk, flushed>>

Write ==
    /\ call = "fwrite" /\ put < Len(Plan) /\ Plan[put + 1].size > 0
    /\ put' = put + 1
    /\ flushed' \in Flushes(Before(Plan, put + 2))
    /\ call' = IF put' = Len(Plan) THEN "fclose" ELSE "fwrite"
    /\ UNCHANGED <<text_len, data_len, disk, ret, fault>>

(* fwrite takes less than it was given: some of the chunk, never its last  *)
(* byte.  For an empty chunk that is no fault of the disk.                 *)
WriteFails ==
    /\ call = "fwrite" /\ put < Len(Plan)
    /\ flushed' \in Flushes(Before(Plan, put + 2) - 1)
    /\ call' = "abort"
    /\ fault' = IF Plan[put + 1].size = 0 THEN {} ELSE {"fwrite"}
    /\ UNCHANGED <<text_len, data_len, put, disk, ret>>

(* fclose on the way out of an error: whatever it does, the error is told. *)
Abort ==
    /\ call = "abort"
    /\ flushed' \in Flushes(Before(Plan, put + 2) - 1)
    /\ Returns("ELF_ERROR")
    /\ UNCHANGED <<text_len, data_len, put, disk, fault>>

Close ==
    /\ call = "fclose"
    /\ flushed' = Size(Plan)
    /\ Returns("OK")
    /\ UNCHANGED <<text_len, data_len, put, disk, fault>>

(* The result of the last fclose is ignored.                               *)
CloseFails ==
    /\ call = "fclose"
    /\ flushed' \in Flushes(Size(Plan) - 1)
    /\ fault' = {"fclose"}
    /\ Returns("OK")
    /\ UNCHANGED <<text_len, data_len, put, disk>>

WriterNext == \/ Open \/ OpenFails \/ Write \/ WriteFails \/ Abort
              \/ Close \/ CloseFails

-----------------------------------------------------------------------------
CONSTANTS TextSizes, DataSizes    \* the sizes writer32 is called with

ASSUME SizesAssumption == TextSizes \subseteq Nat /\ DataSizes \subseteq Nat

Init == text_len \in TextSizes /\ data_len \in DataSizes /\ WriterInit

WriterReturned == call = "returned" /\ UNCHANGED wvars

Spec == Init /\ [][WriterNext \/ WriterReturned]_wvars

-----------------------------------------------------------------------------
(* Properties                                                              *)

Whole == disk = "new" /\ flushed = Size(Plan)

(* writer32 says OK of a complete file and of no other, unless the write   *)
(* that fclose makes is the one that fails; and it fails only for a call   *)
(* that failed, not for a program without data.                            *)
AnswerIsTrue ==
    call = "returned" =>
        /\ ret = "OK" <=> Whole \/ fault = {"fclose"}
        /\ ret = "OK" <=> fault \subseteq {"fclose"}

Header == fill_elf_header(text_len, data_len)
Program == fill_program_header(text_len, data_len)
Sections == section_headers(text_len, data_len)

(* Any file that reaches to the end of its segment, even one cut short     *)
(* behind it, is loaded as the assembler took for granted when it computed *)
(* the distances of la: .text right behind the headers at the base         *)
(* address, where execution starts, .data right behind .text, and nothing  *)
(* of the tables of the file in memory.                                    *)
LoadedInPlace ==
    disk = "new" /\ flushed >= Program.filesz =>
        LET At(a) == Memory(Plan, Program, base_vaddr + a)
        IN  /\ Byte(Plan, Header.phoff) = <<"phdr", 0>>
            /\ Header.entry = base_vaddr + EHDR + PHDR
            /\ \A i \in 0..(text_len - 1) : At(EHDR + PHDR + i) = <<"text", i>>
            /\ \A i \in 0..(data_len - 1) : At(EHDR + PHDR + text_len + i) = <<"data", i>>
            /\ \A i \in 0..SHDR : At(EHDR + PHDR + text_len + data_len + i) = Nothing
            /\ Program.memsz >= Program.filesz

(* The tables of a complete file describe it: the header leads to the      *)
(* section headers, these to the names and to the bytes of each section,   *)
(* and the address of a section is the one its bytes are loaded at.  All   *)
(* the offsets are computed before anything is written.                    *)
TablesTrue ==
    Whole =>
        /\ Byte(Plan, Header.shoff) = <<"shdrs", 0>>
        /\ Header.shoff + Header.shnum * SHDR = Size(Plan)
        /\ Byte(Plan, Sections[Header.shstrndx + 1].offset) = <<"shstrtab", 0>>
        /\ Sections[Header.shstrndx + 1].size = Size(Strings)
        /\ \A k \in 1..Header.shnum :
               LET s == Sections[k]
                   what == <<"", "text", "data", "bss", "shstrtab">>[k]
               IN  /\ StringAt(s.name) = Strings[k].name
                   /\ s.type # "NOBITS" =>
                          \A i \in 0..(s.size - 1) : Byte(Plan, s.offset + i) = <<what, i>>
                   /\ s.addr # 0 => s.addr - Program.vaddr = s.offset - Program.offset

(* include/writer.h:27, "Produces an ELF (32 bits)": when it returns OK    *)
(* the file is there, with its tables.                                     *)
ProducesElf == call = "returned" /\ ret = "OK" => Whole
=============================================================================
