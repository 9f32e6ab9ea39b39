------------------------------ MODULE ElfLayout ------------------------------
(***************************************************************************)
(* The file writer32 of src/writer.c describes in its headers, and what a  *)
(* loader makes of one.  t and d are the sizes of .text and .data; that of *)
(* .bss is 0, as no pass sets it.                                          *)
(***************************************************************************)
EXTENDS Integers, Sequences

CONSTANT base_vaddr    \* where a program is loaded, an Elf32_Addr

ASSUME BaseAssumption == base_vaddr \in Nat

(* sizeof of Elf32_Ehdr, Elf32_Phdr and Elf32_Shdr of elf.h.               *)
EHDR == 52
PHDR == 32
SHDR == 40

PAGE_ALIGN == 4096

SH_IDX_SHSTRTAB == 4
SH_NUM_SECTIONS == 5

(* The strings of shstrtab, each with the zero byte behind it.             *)
Strings == <<[name |-> "",          size |-> 1],
             [name |-> ".text",     size |-> 6],
             [name |-> ".data",     size |-> 6],
             [name |-> ".bss",      size |-> 5],
             [name |-> ".shstrtab", size |-> 10]>>

STR_OFF == [null |-> 0, text |-> 1, data |-> 7, bss |-> 13, shstrtab |-> 18]

shstrtab_size == 28

text_offset == EHDR + PHDR

data_offset(t) == text_offset + t

(* Mutant: .data is forgotten.                                             *)
shstrtab_offset_NoData(t, d) == data_offset(t)
shstrtab_offset(t, d) == data_offset(t) + d

(* Mutant: the string table is forgotten.                                  *)
shoff_Early(t, d) == shstrtab_offset(t, d)
shoff(t, d) == shstrtab_offset(t, d) + shstrtab_size

fill_elf_header(t, d) ==
    [entry |-> base_vaddr + text_offset, phoff |-> EHDR, phnum |-> 1,
     shoff |-> shoff(t, d), shnum |-> SH_NUM_SECTIONS, shstrndx |-> SH_IDX_SHSTRTAB]

fill_program_header(t, d) ==
    [offset |-> 0, vaddr |-> base_vaddr, filesz |-> shstrtab_offset(t, d),
     memsz |-> shstrtab_offset(t, d)]

fill_section_header(name, type, addr, offset, size, align) ==
    [name |-> name, type |-> type, addr |-> addr, offset |-> offset,
     size |-> size, align |-> align]

section_headers(t, d) ==
    <<fill_section_header(STR_OFF.null, "NULL", 0, 0, 0, 0),
      fill_section_header(STR_OFF.text, "PROGBITS", base_vaddr + text_offset,
                          text_offset, t, PAGE_ALIGN),
      fill_section_header(STR_OFF.data, "PROGBITS", base_vaddr + data_offset(t),
                          data_offset(t), d, PAGE_ALIGN),
      fill_section_header(STR_OFF.bss, "NOBITS", base_vaddr + shstrtab_offset(t, d),
                          shstrtab_offset(t, d), 0, PAGE_ALIGN),
      fill_section_header(STR_OFF.shstrtab, "STRTAB", 0, shstrtab_offset(t, d),
                          shstrtab_size, 1)>>

-----------------------------------------------------------------------------
(* A file as its reader finds it                                           *)

Chunk(what, size) == [what |-> what, size |-> size]

(* The bytes in front of chunk k of a file.                                *)
Before(chunks, k) ==
    LET Sum[j \in 0..(k - 1)] == IF j = 0 THEN 0 ELSE Sum[j - 1] + chunks[j].size
    IN  Sum[k - 1]

Size(chunks) == Before(chunks, Len(chunks) + 1)

Nothing == <<"nothing", 0>>

(* The byte at offset o: which byte of which chunk.                        *)
Byte(chunks, o) ==
    IF \E k \in DOMAIN chunks : o >= Before(chunks, k) /\ o < Before(chunks, k) + chunks[k].size
    THEN LET k == CHOOSE k \in DOMAIN chunks :
                      o >= Before(chunks, k) /\ o < Before(chunks, k) + chunks[k].size
         IN  <<chunks[k].what, o - Before(chunks, k)>>
    ELSE Nothing

(* The name at offset o of the string table.                               *)
StringAt(o) ==
    LET k == CHOOSE k \in DOMAIN Strings : Before(Strings, k) = o
    IN  Strings[k].name

(* A loader copies the one segment of the program header to memory.        *)
Memory(chunks, program, a) ==
    IF a \in program.vaddr..(program.vaddr + program.filesz - 1)
    THEN Byte(chunks, a - program.vaddr + program.offset)
    ELSE Nothing
=============================================================================
