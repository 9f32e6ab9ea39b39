------------------------------ MODULE MCDriver -------------------------------
(***************************************************************************)
(* Short source files, alone and behind two symbols, and command lines     *)
(* with -p among the options, in any order: all of them lead to PK_VADDR,  *)
(* which the configuration has for base_vaddr.  Without -p the base stays  *)
(* as it was initialised; BaseIsOne of AssemblerProofs is about both.      *)
(***************************************************************************)
EXTENDS Driver, SequencesExt

CONSTANTS MaxLines, msg, val

SomeLine ==
    {Blank, Dot("text"), Dot("data"), Content(NoLabel, Plain("OK")),
     Content(NoLabel, Plain("INVALID_REGISTER")),
     Content(NoLabel, La(msg)), Content(NoLabel, La(val)),
     Content(msg, Directive(1, "OK"))}

Symbols == <<Dot("data"), Content(msg, Directive(1, "OK")),
             Content(val, Directive(3, "OK")), Dot("text")>>

SomeFile == LET f == BoundedSeq(SomeLine, MaxLines) IN f \cup {Symbols \o s : s \in f}

SomeCommandLine ==
    {<<"p">>, <<"o", "p">>, <<"c", "p">>, <<"c", "o", "p">>, <<"p", "o", "c">>,
     <<"p", "c", "p">>, <<"p", "c", "other">>, <<"c", "p", "help">>}

Someplace == {0, 60, 84, 90, 100}
=============================================================================
