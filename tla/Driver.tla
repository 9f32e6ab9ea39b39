------------------------------- MODULE Driver --------------------------------
(***************************************************************************)
(* The program: main of src/main.c with argparse of src/argparser.c, the   *)
(* two passes of module Assembler and writer32 of module ElfWriter, which  *)
(* goes by the sizes the passes leave behind.                              *)
(***************************************************************************)
EXTENDS Assembler

CONSTANTS CommandLines,    \* sequences of options
          DEFAULT_VADDR,   \* stands for 0x80000000
          PK_VADDR,        \* stands for 0x00010000
          Cuts             \* where stdio may stop, see ElfWriter

VARIABLES
    argv,        \* the options argp has not seen yet
    arguments,   \* what parse_opt made of those it has
    stage,       \* where main is
    exit_code,
    call, put, disk, flushed, ret, fault    \* of writer32 and the output file

W == INSTANCE ElfWriter
         WITH text_len <- size.text, data_len <- size.data,
              TextSizes <- Nat, DataSizes <- Nat

writer == <<call, put, disk, flushed, ret, fault>>
mainvars == <<vars, argv, arguments, stage, exit_code, writer>>

(* The key of an option; help is one argp answers itself, other anything   *)
(* it refuses, an argument without an option among them.                   *)
Keys == {"c", "o", "p", "help", "other"}

ASSUME CommandLinesAssumption == CommandLines \subseteq Seq(Keys)
ASSUME CutsAssumption == Cuts \subseteq Nat

Defaults == [infile |-> FALSE, outfile |-> FALSE, base_vaddr |-> DEFAULT_VADDR]

(* Mutant: the input file starts from the defaults again.                  *)
parse_opt_Reset(a, key) ==
    CASE key = "c" -> [Defaults EXCEPT !.infile = TRUE]
      [] key = "o" -> [a EXCEPT !.outfile = TRUE]
      [] key = "p" -> [a EXCEPT !.base_vaddr = PK_VADDR]
parse_opt(a, key) ==
    CASE key = "c" -> [a EXCEPT !.infile = TRUE]
      [] key = "o" -> [a EXCEPT !.outfile = TRUE]
      [] key = "p" -> [a EXCEPT !.base_vaddr = PK_VADDR]

(* The passes take the base from the arguments; base_vaddr is theirs, so   *)
(* only the command lines that lead to it are considered.                  *)
LeadsToBase(options) ==
    base_vaddr = IF \E k \in DOMAIN options : options[k] = "p"
                 THEN PK_VADDR ELSE DEFAULT_VADDR

MainInit ==
    /\ Init
    /\ W!WriterInit
    /\ argv \in {o \in CommandLines : LeadsToBase(o)}
    /\ arguments = Defaults
    /\ stage = "calloc"
    /\ exit_code = "none"

Exit(code) == stage' = "exited" /\ exit_code' = code

-----------------------------------------------------------------------------
(* argparse                                                                *)

NoArguments ==
    /\ stage = "calloc"
    /\ Exit("FAILURE")
    /\ UNCHANGED <<vars, argv, arguments, writer>>

Allocated ==
    /\ stage = "calloc"
    /\ stage' = "argparse"
    /\ UNCHANGED <<vars, argv, arguments, exit_code, writer>>

ParseOption ==
    /\ stage = "argparse" /\ argv # <<>> /\ Head(argv) \in {"c", "o", "p"}
    /\ arguments' = parse_opt(arguments, Head(argv))
    /\ argv' = Tail(argv)
    /\ UNCHANGED <<vars, stage, exit_code, writer>>

(* argp ends the program itself.                                           *)
ArgpExits ==
    /\ stage = "argparse" /\ argv # <<>> /\ Head(argv) \in {"help", "other"}
    /\ Exit(IF Head(argv) = "help" THEN "SUCCESS" ELSE "FAILURE")
    /\ UNCHANGED <<vars, argv, arguments, writer>>

-----------------------------------------------------------------------------
(* main                                                                    *)

(* Without an input file both passes are skipped.                          *)
Parsed ==
    /\ stage = "argparse" /\ argv = <<>>
    /\ stage' = IF arguments.infile THEN "passes" ELSE "output"
    /\ UNCHANGED <<vars, argv, arguments, exit_code, writer>>

Pass ==
    /\ stage = "passes" /\ phase \in {"scan", "assemble"}
    /\ Unreadable \/ Scan \/ Assemble
    /\ UNCHANGED <<argv, arguments, stage, exit_code, writer>>

(* goto cleanup.  Mutant: the result of assemble_file is not looked at.    *)
PassFailed_Ignored ==
    /\ stage = "passes" /\ phase = "failed"
    /\ stage' = "output"
    /\ UNCHANGED <<vars, argv, arguments, exit_code, writer>>
PassFailed ==
    /\ stage = "passes" /\ phase = "failed"
    /\ Exit("FAILURE")
    /\ UNCHANGED <<vars, argv, arguments, writer>>

Passed ==
    /\ stage = "passes" /\ phase = "done"
    /\ stage' = "output"
    /\ UNCHANGED <<vars, argv, arguments, exit_code, writer>>

(* An empty .text is no reason to write anything.                          *)
NoOutput ==
    /\ stage = "output" /\ size.text = 0
    /\ Exit("SUCCESS")
    /\ UNCHANGED <<vars, argv, arguments, writer>>

Output ==
    /\ stage = "output" /\ size.text # 0 /\ call # "returned"
    /\ UNCHANGED <<vars, argv, arguments, stage, exit_code>>
    /\ W!WriterNext

Written ==
    /\ stage = "output" /\ call = "returned"
    /\ Exit(IF ret = "OK" THEN "SUCCESS" ELSE "FAILURE")
    /\ UNCHANGED <<vars, argv, arguments, writer>>

Exited == stage = "exited" /\ UNCHANGED mainvars

Main == \/ NoArguments \/ Allocated \/ ParseOption \/ ArgpExits
        \/ Parsed \/ Pass \/ PassFailed \/ Passed
        \/ NoOutput \/ Output \/ Written

MainSpec == MainInit /\ [][Main \/ Exited]_mainvars

(* One thread that nothing holds up: every call of libc returns.           *)
FairMainSpec == MainSpec /\ WF_mainvars(Main)

-----------------------------------------------------------------------------
(* Properties                                                              *)

(* Byte a of the memory of a process that was started from the file.       *)
Loaded(a) == W!Memory(W!Plan, W!Program, a)

(* A run that reports success on a program with instructions has left the  *)
(* whole file, unless fclose failed, and in the memory it is loaded to     *)
(* every la adds up to the address of its data: what is found there is     *)
(* the first byte the line of its symbol or a later one laid down.  The    *)
(* distance was computed by the first pass's sizes, long before writer32   *)
(* decided where anything goes.                                            *)
SuccessLoads ==
    stage = "exited" /\ exit_code = "SUCCESS" /\ size.text > 0 /\ fault = {} =>
        /\ W!Whole
        /\ \A o \in 0..(size.text - 1), j \in 1..Len(file) :
               /\ text[o].half = 1
               /\ file[text[o].line].stmt.op = "la"
               /\ file[j].kind = "content"
               /\ file[j].label = file[text[o].line].stmt.sym
               => LET pc == CHOOSE a \in base_vaddr..(base_vaddr + W!Size(W!Plan)) :
                                Loaded(a) = <<"text", o>>
                      at == Loaded(pc + text[o].rel)
                  IN  IF \E x \in 0..(size.data - 1) : data[x] >= j
                      THEN /\ at[1] = "data"
                           /\ data[at[2]] >= j
                           /\ at[2] > 0 => data[at[2] - 1] < j
                      ELSE at = W!Nothing

(* The output file is touched only when both passes have accepted the      *)
(* source, so a program with an error leaves the last good binary alone;   *)
(* and nothing but a program that both passes and writer32 have accepted   *)
(* makes for success, unless it was help that was asked for.  A program    *)
(* without instructions is such a success, and leaves the file alone too.  *)
ErrorLeavesOutput ==
    /\ disk = "new" => arguments.infile /\ phase = "done" /\ size.text > 0
    /\ stage = "exited" /\ exit_code = "SUCCESS" /\ argv = <<>> =>
           /\ arguments.infile => phase = "done"
           /\ ret # "ELF_ERROR"
           /\ disk = "new" <=> size.text > 0

(* Wherever -p stands among the options, from the end of argp on the base  *)
(* in the arguments, which main hands to the passes and to writer32 in two *)
(* places, is the one the command line asks for; SuccessLoads is about     *)
(* that base and no other.                                                 *)
OneBase == stage \in {"passes", "output"} => arguments.base_vaddr = base_vaddr

(* The program comes to an end with an exit status.                        *)
Exits == <>(stage = "exited" /\ exit_code \in {"SUCCESS", "FAILURE"})
=============================================================================
