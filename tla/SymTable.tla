------------------------------ MODULE SymTable ------------------------------
(***************************************************************************)
(* The symbol table of src/symtable.c: a bounded array of (name, offset,   *)
(* type) entries, filled in order and searched from the front.             *)
(*                                                                         *)
(* A name is a model value: two names are the same when strcmp says so.    *)
(* The table is the sequence of the entries below symtable.count.          *)
(***************************************************************************)
EXTENDS Naturals, Sequences

CONSTANT MAX_SYMBOLS    \* entries the array has room for (128 in the code)

ASSUME MaxSymbolsAssumption == MAX_SYMBOLS \in Nat \ {0}

SymTypes == {"SYM_SEGMENT_TEXT", "SYM_SEGMENT_DATA"}

(* The entries whose names are drawn from the set L.                       *)
Symbol(L) == [name : L, offset : Nat, type : SymTypes]

Names(table) == {table[i].name : i \in DOMAIN table}

(* symtable_insert returns true: the array has a free entry and no entry   *)
(* carries the name.  Mutant: names are not compared.                      *)
symtable_accepts_Again(table, name) == Len(table) < MAX_SYMBOLS
symtable_accepts(table, name) ==
    /\ Len(table) < MAX_SYMBOLS
    /\ name \notin Names(table)

(* The table after a successful insertion; the type is set by the caller,  *)
(* scan_labels, on the entry just added.                                   *)
symtable_insert(table, name, address, type) ==
    Append(table, [name |-> name, offset |-> address, type |-> type])

(* The offset of the first entry that carries the name.                    *)
symtable_lookup(table, name) ==
    table[CHOOSE i \in DOMAIN table :
             /\ table[i].name = name
             /\ \A j \in DOMAIN table : j < i => table[j].name # name].offset
=============================================================================
