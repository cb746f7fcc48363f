----------------------------- MODULE MCTreeFile -----------------------------
(***************************************************************************)
(* Files for TreeFile: every sequence of a few lines, the layouts of every *)
(* tree of at most MaxNodes nodes, and layouts with one wrong line.        *)
(***************************************************************************)
EXTENDS TreeFile

CONSTANTS MaxLines,      \* lines of the arbitrary files
          MaxNodes,      \* nodes of the trees
          DamagedNodes   \* nodes of the trees whose files are damaged

A == <<"A">>
B == <<"A", "B">>

MCLines == {<<>>, <<"#">>, A, <<"0">>, <<"1">>, <<"2", "0">>, <<"-", "1">>}

\* Numbers that atol() reads in spite of what stands before them.
MCNumbers == {<<" ", "1">>, <<"+", "1">>, <<" ", " ", "-", "1">>, <<" ", "A">>, <<" ", " ">>}

Arbitrary ==
    {[lines |-> ls, newline |-> nl, tree |-> <<>>, style |-> <<>>] :
        ls \in UNION {[1 .. n -> MCLines] : n \in 0 .. MaxLines}, nl \in {TRUE}}
    \cup {[lines |-> ls, newline |-> FALSE, tree |-> <<>>, style |-> <<>>] :
        ls \in UNION {{l \in [1 .. n -> MCLines] : l[n] # <<>>} : n \in 1 .. MaxLines - 1}}
    \cup {[lines |-> <<A, <<"0">>, <<>>, <<"#", "#", "#", "#", "#">>>>, newline |-> TRUE, tree |-> <<>>, style |-> <<>>],
          [lines |-> <<<<"#", "#", "#", "#", "#">>, A, <<"0">>>>, newline |-> TRUE, tree |-> <<>>, style |-> <<>>]}

\* Trees of n nodes without names, as the numbers of children node by node.
Anonymous(degrees) == [i \in DOMAIN degrees |-> [name |-> A, kids |-> [j \in 1 .. degrees[i] |-> A]]]
Shapes(n) == {d \in [1 .. n -> 0 .. n - 1] : After(Anonymous(d))[1] = n + 1}

Named(degrees, names) ==
    LET ns == Anonymous(degrees)
    IN  [i \in DOMAIN names |->
            [name |-> names[i], kids |-> [j \in 1 .. degrees[i] |-> names[ChildAt(ns, i, j)]]]]

Names == {A, B}

MCTrees ==
    UNION {UNION {{Named(d, names) : names \in [1 .. n -> Names]} : d \in Shapes(n)} : n \in 1 .. MaxNodes}

\* Their text, with the same lines before every block or only before odd ones.
Number(n) == <<Digits[n + 1]>>
Styled(ns, before, everywhere) ==
    [i \in DOMAIN ns |->
        [before |-> IF everywhere \/ i % 2 = 1 THEN before ELSE <<>>,
         number |-> Number(Len(ns[i].kids))]]
Text(ns, style) == Layout(ns, style)[Len(ns)]
Plain(ns) == Text(ns, Styled(ns, <<>>, TRUE))

\* The ends of a file: as it is, without the last line, or with others behind.
Endings(text) == {text, SubSeq(text, 1, Len(text) - 1), text \o <<A>>}

\* The files of those trees with one line put in the place of another.
Damaged ==
    UNION {UNION {{[lines |-> [Plain(ns) EXCEPT ![l] = other], newline |-> TRUE, tree |-> <<>>, style |-> <<>>] :
                      other \in MCLines \cup MCNumbers \cup {B, <<"A", "B", "A">>}} :
                   l \in 1 .. Len(Plain(ns))} :
           ns \in {t \in MCTrees : Len(t) <= DamagedNodes}}

MCFiles ==
    Damaged \cup
    Arbitrary \cup
    UNION {UNION {UNION {
        LET style == Styled(ns, before, everywhere)
        IN  {[lines |-> ls, newline |-> TRUE, tree |-> ns, style |-> style] :
                ls \in Endings(Text(ns, style))} :
        before \in {<<>>, <<<<"#">>>>, <<<<>>, <<"#", "A">>>>}} : everywhere \in BOOLEAN} :
        ns \in MCTrees}
=============================================================================
