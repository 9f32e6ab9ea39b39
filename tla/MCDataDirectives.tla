-------------------------- MODULE MCDataDirectives --------------------------
(***************************************************************************)
(* Directives for DataDirectives: every string of at most four characters  *)
(* behind .string, made of quotes, backslashes, a letter that is an escape *)
(* and one that is not, integers around the edges of a byte, and counts    *)
(* around the number of values of the smaller size_t.                      *)
(***************************************************************************)
EXTENDS DataDirectives

D(n, a) == [name |-> n, args |-> a]

Strings == BoundedSeq({Quote, Backslash, 110, 99}, 4)

AllDirectives ==
    {D(".string", s) : s \in Strings}
        \cup {D(".byte", a) : a \in {<<>>, <<1>>, <<256, -1>>, <<7, Malformed>>}}
        \cup {D(".half", a) : a \in {<<258>>, <<-2>>, <<Malformed>>}}
        \cup {D(".word", a) : a \in {<<16909060>>, <<-2, Malformed>>}}
        \cup {D(".space", a) : a \in {<<>>, <<0>>, <<2, 255>>, <<1, 256>>, <<-1>>,
                                      <<Malformed>>, <<1, Malformed>>, <<4>>,
                                      <<8, 255>>, <<9, 7>>, <<15>>}}
        \cup {D(".align", <<>>)}
=============================================================================
