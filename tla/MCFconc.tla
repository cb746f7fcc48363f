------------------------------ MODULE MCFconc ------------------------------
(* Instances of Fconc for TLC: a few files, and command lines for them.    *)
EXTENDS Fconc

MCNames == {"a", "b", "new", "old", "missing", "fconc.out", "--help"}

\* Every byte of the inputs is a different number.  fconc.out is there from an
\* earlier run, and somebody has a file --help.
MCDisk == [f \in MCNames |->
             CASE f = "a" -> <<1, 2, 3, 4>>
               [] f = "b" -> <<5, 6, 7>>
               [] f = "old" -> <<0, 0>>
               [] f = "fconc.out" -> <<8>>
               [] f = "--help" -> <<9>>
               [] OTHER -> NoFile]

MCFile == [n \in MCNames |-> n]

\* No, one and four names; --help where it is asked for and where it is a file;
\* every pair and every triple of these.
MCCalls ==
    {<<>>, <<"a">>, <<"a", "b", "new", "old">>}
    \cup {<<"--help">>, <<"--help", "b">>, <<"--help", "b", "new">>, <<"b", "--help">>}
    \cup {<<x, y>> : x \in {"a", "b"}, y \in {"a", "b", "missing", "fconc.out"}}
    \cup {<<x, y, z>> : x \in {"a", "b"}, y \in {"a", "b", "old"}, z \in {"a", "new", "old"}}
=============================================================================
