----------------------------- MODULE MCProcTree -----------------------------
(***************************************************************************)
(* Trees for ProcTree: a leaf, a chain, a wide tree, a name that is no     *)
(* operator above others, and src/lab2/forktree/expr.tree.                 *)
(***************************************************************************)
EXTENDS ProcTree

\* A tree whose nodes are numbered in the order of the file; the parent of every
\* node but the first is given.
MCTree(parent, ops, nums) ==
    LET N == DOMAIN ops
        kids[n \in N] == SelectSeq([m \in N |-> m], LAMBDA m : m > 1 /\ parent[m] = n)
        below[n \in N] == UNION {{m} \cup below[m] : m \in {x \in N : x > 1 /\ parent[x] = n}}
    IN  [root |-> 1, kids |-> kids, below |-> below, op |-> ops, num |-> nums]

MCTrees == {
    MCTree(<<0>>, <<"other">>, <<7>>),
    MCTree(<<0, 1>>, <<"*", "other">>, <<0, 5>>),
    MCTree(<<0, 1, 2>>, <<"+", "other", "other">>, <<0, 0, 3>>),
    MCTree(<<0, 1, 1, 1>>, <<"*", "other", "other", "other">>, <<0, 2, 3, 4>>),
    MCTree(<<0, 1, 2, 1>>, <<"other", "+", "other", "other">>, <<0, 0, 3, 4>>),
    MCTree(<<0, 1, 1, 3, 4, 4, 3>>, <<"+", "other", "*", "+", "other", "other", "other">>,
           <<0, 10, 0, 0, 5, 7, 4>>) }
=============================================================================
