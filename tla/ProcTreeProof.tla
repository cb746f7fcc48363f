--------------------------- MODULE ProcTreeProof ---------------------------
(***************************************************************************)
(* Proofs about ProcTree, for every tree and each of the five programs.    *)
(***************************************************************************)
EXTENDS ProcTree, FiniteSetTheorems, SequenceTheorems, WellFoundedInduction, TLAPS

\* The subtree of a node.
With(n) == {n} \cup tree.below[n]

\* What the proofs use of the tree.
LEMMA TreeFacts ==
    ASSUME tree \in Trees
    PROVE  /\ 0 \notin Nodes /\ tree.root \in Nodes
           /\ \A n \in Everyone : Kids(n) \in Seq(Nodes) /\ DOMAIN Kids(n) = 1 .. Len(Kids(n))
                                  /\ Len(Kids(n)) \in Nat
           /\ Kids(0) = <<tree.root>> /\ Len(Kids(0)) = 1
           /\ \A n \in Everyone : \A i \in DOMAIN Kids(n) : Kids(n)[i] \in Nodes
           /\ \A m, n \in Everyone : \A i \in DOMAIN Kids(m), j \in DOMAIN Kids(n) :
                 Kids(m)[i] = Kids(n)[j] => m = n /\ i = j
<1> DEFINE N == DOMAIN tree.kids
<1>1. IsTree(tree)
  BY ProcTreeAssumption
<1>2. /\ N \subseteq Nat \ {0} /\ tree.root \in N
      /\ tree.kids \in [N -> Seq(N)]
  BY <1>1 DEF IsTree
<1>3. \A n \in N : \A j \in DOMAIN tree.kids[n] :
          /\ tree.kids[n][j] # tree.root
          /\ \A m \in N : \A l \in DOMAIN tree.kids[m] :
                tree.kids[n][j] = tree.kids[m][l] => n = m /\ j = l
  BY <1>1 DEF IsTree
<1>4. 0 \notin Nodes /\ tree.root \in Nodes
  BY <1>2 DEF Nodes
<1>5. /\ Kids(0) = <<tree.root>> /\ Len(Kids(0)) = 1 /\ Kids(0) \in Seq(Nodes)
      /\ DOMAIN Kids(0) = 1 .. 1 /\ Kids(0)[1] = tree.root
  BY <1>4 DEF Kids
<1>6. \A n \in Nodes : Kids(n) = tree.kids[n] /\ Kids(n) \in Seq(Nodes)
  BY <1>2, <1>4 DEF Nodes, Kids
<1>7. \A n \in Everyone : Kids(n) \in Seq(Nodes) /\ DOMAIN Kids(n) = 1 .. Len(Kids(n))
                          /\ Len(Kids(n)) \in Nat
  <2>1. \A n \in Everyone : Kids(n) \in Seq(Nodes)
    BY <1>5, <1>6 DEF Everyone
  <2> QED
    BY <2>1, LenProperties
<1>8. \A n \in Everyone : \A i \in DOMAIN Kids(n) : Kids(n)[i] \in Nodes
  BY <1>7, ElementOfSeq
<1>9. ASSUME NEW m \in Everyone, NEW n \in Everyone,
             NEW i \in DOMAIN Kids(m), NEW j \in DOMAIN Kids(n), Kids(m)[i] = Kids(n)[j]
      PROVE  m = n /\ i = j
  <2>1. CASE m \in Nodes /\ n \in Nodes
    BY <1>3, <1>6, <1>9, <2>1 DEF Nodes
  <2>2. CASE m = 0 /\ n = 0
    BY <1>5, <1>9, <2>2
  <2>3. CASE m = 0 /\ n \in Nodes
    BY <1>3, <1>5, <1>6, <1>9, <2>3 DEF Nodes
  <2>4. CASE m \in Nodes /\ n = 0
    BY <1>3, <1>5, <1>6, <1>9, <2>4 DEF Nodes
  <2> QED
    BY <2>1, <2>2, <2>3, <2>4 DEF Everyone
<1> QED
  BY <1>4, <1>5, <1>7, <1>8, <1>9

\* And of what is below what.
LEMMA BelowFacts ==
    ASSUME tree \in Trees
    PROVE  /\ Nodes = With(tree.root)
           /\ \A n \in Nodes : /\ tree.below[n] \subseteq Nodes
                               /\ n \notin tree.below[n] /\ tree.root \notin tree.below[n]
           /\ \A n \in Nodes : \A m \in tree.below[n] :
                 \E i \in DOMAIN Kids(n) : m \in With(Kids(n)[i])
           /\ \A n \in Nodes : \A i \in DOMAIN Kids(n) : \A m \in Nodes :
                 Kids(n)[i] \in tree.below[m] <=> n \in With(m)
           /\ \A c \in Nodes : \E n \in Everyone : \E i \in DOMAIN Kids(n) : Kids(n)[i] = c
<1> DEFINE N == DOMAIN tree.kids
<1>1. IsTree(tree)
  BY ProcTreeAssumption
<1>2. /\ N \subseteq Nat \ {0} /\ tree.root \in N
      /\ tree.below \in [N -> SUBSET N]
      /\ N = {tree.root} \cup tree.below[tree.root]
      /\ \A c \in N \ {tree.root} : \E n \in N : \E j \in DOMAIN tree.kids[n] : tree.kids[n][j] = c
  BY <1>1 DEF IsTree
<1>3. \A n \in N :
          /\ n \notin tree.below[n] /\ tree.root \notin tree.below[n]
          /\ tree.below[n] = UNION {{tree.kids[n][j]} \cup tree.below[tree.kids[n][j]] :
                                        j \in DOMAIN tree.kids[n]}
          /\ \A j \in DOMAIN tree.kids[n] : \A m \in N :
                tree.kids[n][j] \in tree.below[m] <=> n \in {m} \cup tree.below[m]
  BY <1>1 DEF IsTree
<1>4. \A n \in Nodes : Kids(n) = tree.kids[n]
  BY <1>2 DEF Kids, Nodes
<1>5. \A n \in Nodes : \A m \in tree.below[n] :
          \E i \in DOMAIN Kids(n) : m \in With(Kids(n)[i])
  BY <1>3, <1>4 DEF Nodes, With
<1>6. \A c \in Nodes : \E n \in Everyone : \E i \in DOMAIN Kids(n) : Kids(n)[i] = c
  <2>1. Kids(0)[1] = tree.root /\ 1 \in DOMAIN Kids(0)
    BY DEF Kids
  <2> QED
    BY <1>2, <1>4, <2>1 DEF Nodes, Everyone
<1> QED
  BY <1>2, <1>3, <1>4, <1>5, <1>6 DEF Nodes, With
-----------------------------------------------------------------------------
\* What a process has done so far, by the place where it is.
Node(n) ==
    /\ proc[n] \in {"none", "running"} \cup Halted \cup Dead
    /\ n = 0 => proc[n] \in {"running", "zombie"} /\ pc[n] \in {"fork", "ready", "wake", "read", "wait"}
    /\ proc[n] = "none" => pc[n] = "fork" /\ k[n] = 1
    /\ proc[n] \in Halted => pc[n] = "awake"
    /\ code[n] \in {0, 1}
    /\ code[n] = 1 =>
          /\ proc[n] \in Dead
          /\ pc[n] \in {"fork", "ready"} \/ (n = 0 /\ pc[n] = "wait" /\ program \in Sleeping)
    /\ proc[n] \in Dead /\ code[n] = 0 =>
          \/ pc[n] = "exit"
          \/ pc[n] = "wake" /\ k[n] > Len(Kids(n))
          \/ pc[n] = "collect" /\ k[n] = 0
    /\ k[n] \in Nat /\ k[n] <= Len(Kids(n)) + 1
    /\ pc[n] # "collect" => k[n] >= 1
    /\ pc[n] \in {"read", "wait", "collect"} => k[n] <= Len(Kids(n))
    /\ pc[n] = "awake" => k[n] = 1
    /\ pc[n] = "wake" /\ program \in Sleeping => k[n] > Len(Kids(n))
    /\ program \in Sleeping => pc[n] \in {"fork", "wait", "wake", "collect"}
    /\ program \in Sleeping /\ n # 0 => pc[n] \in {"fork", "collect"}
    /\ program = "ask3-signals" => pc[n] \in {"fork", "ready", "awake", "wake", "wait"}
    /\ program \in Computing => pc[n] # "collect"
    /\ program \in Computing /\ n # 0 =>
          /\ pc[n] \in {"wake", "read", "wait"} => tree.op[n] # "other"
          /\ proc[n] \in Dead /\ code[n] = 0 => pc[n] = "exit"

\* What the process m knows of its child c, the i-th.
Edge(m, i, c) ==
    /\ pc[m] = "fork" => (proc[c] = "none" <=> k[m] <= i)
    /\ pc[m] # "fork" => proc[c] # "none"
    /\ pc[m] = "fork" => proc[c] \notin {"waited", "gone"}
    /\ program \in Waking =>
          /\ pc[m] \in {"fork", "ready"} => /\ pc[c] \in {"fork", "ready", "awake"}
                                            /\ pc[c] = "awake" => proc[c] \in Halted
          /\ pc[m] = "awake" => proc[c] = "waited"
          /\ pc[m] \in {"wake", "read", "wait"} =>
                /\ i < k[m] => proc[c] = "gone" /\ code[c] = 0
                /\ i > k[m] \/ (i = k[m] /\ pc[m] = "wake") => proc[c] = "waited"
                /\ i = k[m] /\ pc[m] # "wake" =>
                      /\ proc[c] \in {"running", "zombie"}
                      /\ pc[c] \notin {"fork", "ready"}
          /\ pc[m] \in {"write", "exit"} =>
                \/ proc[c] = "gone" /\ code[c] = 0
                \/ tree.op[m] = "other" /\ proc[c] = "waited"
    /\ program = "ex2_2" /\ pc[m] = "collect" /\ i > k[m] => proc[c] = "gone"
    /\ program \in Sleeping /\ pc[m] = "wake" => proc[c] = "gone"

\* wait_for_ready_children() and the loop of ex2_1 have counted the children that
\* they have been told of.
Told(n) == {i \in DOMAIN Kids(n) :
              proc[Kids(n)[i]] = IF program \in Waking THEN "waited" ELSE "gone"}
Count(n) ==
    /\ program \in Waking /\ pc[n] = "ready" => Cardinality(Told(n)) = k[n] - 1
    /\ program = "ex2_1" /\ pc[n] = "collect" => Cardinality(Told(n)) = Len(Kids(n)) - k[n]

LocalInv ==
    /\ \A n \in Everyone : Node(n) /\ Count(n)
    /\ \A m \in Everyone : \A i \in DOMAIN Kids(m) : Edge(m, i, Kids(m)[i])

\* Nothing below a process that sleeps executes, and nothing below one that has
\* its answer.
Settled(n) ==
    program \in Waking =>
        /\ pc[n] = "awake" => \A m \in tree.below[n] : proc[m] \in Halted
        /\ pc[n] \in {"write", "exit"} \/ (proc[n] \in Dead /\ code[n] = 0) =>
              \A m \in tree.below[n] : proc[m] \in Halted \cup {"gone"}

\* A pipe holds the answer of the child that was woken, until it is read.
Answer(n) ==
    program \in Waking => LET c == Kids(n)[k[n]] IN
        /\ program \in Computing /\ pc[n] = "wait" => pc[c] = "exit"
        /\ \A i \in DOMAIN Kids(n) : pipe[Pipe(Kids(n)[i])] =
                IF pc[n] = "read" /\ pc[c] = "exit" /\ (program = "ask4-pipes" => i = k[n])
                THEN <<result[c]>> ELSE <<>>

TreeInv == /\ TypeOK /\ LocalInv
           /\ \A n \in Nodes : Settled(n)
           /\ \A n \in Everyone : Answer(n)
           /\ OneBranchAwake
-----------------------------------------------------------------------------
\* What every step has in common: it is a step of one process, which changes
\* itself and what its parent sees of itself, and the states of its children.
Moves(a) ==
    /\ program' = program /\ tree' = tree
    /\ proc[0] = "running" /\ proc[a] = "running"
    /\ \A m \in Everyone \ {a} : pc'[m] = pc[m] /\ k'[m] = k[m] /\ code'[m] = code[m]
    /\ \A m \in Everyone \ ({a} \cup KidSet(a)) : proc'[m] = proc[m]
    /\ \A c \in KidSet(a) : \/ proc'[c] = proc[c]
                            \/ proc[c] = "none" /\ proc'[c] = "running"
                            \/ proc[c] = "stopped" /\ proc'[c] = "waited"
                            \/ proc[c] = "zombie" /\ proc'[c] = "gone"
                            \/ proc[c] = "waited" /\ proc'[c] = "running"
    /\ proc'[a] \in {"running", "stopped", "zombie"}
    /\ pc'[a] = "awake" <=> proc'[a] = "stopped"
    /\ pc'[a] \in {"fork", "ready", "awake"} => pc[a] \in {"fork", "ready"}
    /\ pc'[a] \in {"fork", "ready", "awake"} \/ pc[a] \notin {"fork", "ready"}
       \/ a = 0 \/ program \in Sleeping
    /\ pc[a] = "exit" => pc'[a] = "exit"

\* No process is its own child.
LEMMA KidFacts ==
    ASSUME tree \in Trees
    PROVE  /\ \A n \in Everyone : n \notin KidSet(n) /\ KidSet(n) \subseteq Nodes
           /\ \A n \in Everyone : \A i \in DOMAIN Kids(n) : Kids(n)[i] \in KidSet(n)
           /\ \A m, n \in Everyone : KidSet(m) \cap KidSet(n) # {} => m = n
           /\ \A n \in Everyone : \A i \in 1 .. Len(Kids(n)) : Kids(n)[i] \in Nodes /\ Kids(n)[i] # n
<1>1. \A n \in Everyone : \A i \in DOMAIN Kids(n) : Kids(n)[i] \in Nodes /\ Kids(n)[i] # n
  <2> SUFFICES ASSUME NEW n \in Everyone, NEW i \in DOMAIN Kids(n)
               PROVE  Kids(n)[i] \in Nodes /\ Kids(n)[i] # n
    OBVIOUS
  <2>1. CASE n = 0
    BY <2>1, TreeFacts
  <2>2. CASE n \in Nodes
    <3>1. Kids(n)[i] \in tree.below[n]
      BY <2>2, BelowFacts DEF With
    <3> QED
      BY <2>2, <3>1, BelowFacts
  <2> QED
    BY <2>1, <2>2 DEF Everyone
<1> QED
  BY <1>1, TreeFacts DEF KidSet

LEMMA Moving ==
    ASSUME TypeOK, LocalInv, NEW a \in Everyone, Process(a) \/ (a = 0 /\ ShowTree)
    PROVE  Moves(a)
<1> DEFINE K == Kids(a)
<1>1. /\ DOMAIN K = 1 .. Len(K) /\ Len(K) \in Nat
      /\ \A i \in DOMAIN K : K[i] \in Everyone /\ K[i] # a /\ K[i] \in KidSet(a)
      /\ KidSet(a) \subseteq Everyone \ {a} /\ 0 \in Everyone
  BY TreeFacts, KidFacts DEF TypeOK, Everyone
<1>2. Node(a) /\ \A i \in DOMAIN K : Edge(a, i, K[i])
  BY DEF LocalInv
<1>3. /\ proc \in [Everyone -> ProcStates] /\ code \in [Everyone -> {0, 1}] /\ k \in [Everyone -> Nat]
      /\ pc \in [Everyone -> {"fork", "ready", "awake", "wake", "read", "wait",
                              "collect", "write", "exit"}]
  BY DEF TypeOK
<1>4. program \in Waking \cup Sleeping
  BY ProcTreeAssumption DEF TypeOK
<1> HIDE DEF K
<1>5. CASE Fork(a)
  <2>1. k[a] \in DOMAIN K /\ proc[K[k[a]]] = "none"
    BY <1>1, <1>2, <1>3, <1>5 DEF Fork, Runs, Node, Edge, K
  <2> QED
    BY <1>1, <1>3, <1>5, <2>1 DEF Fork, Runs, Moves, K
<1>6. CASE GiveUp(a)
  BY <1>1, <1>3, <1>6 DEF GiveUp, CanShow, Runs, Exits, Moves
<1>7. CASE AllForked(a)
  BY <1>1, <1>3, <1>4, <1>7 DEF AllForked, Runs, GoesOn, Moves
<1>8. CASE ChildReady(a)
  BY <1>1, <1>3, <1>8 DEF ChildReady, Runs, OnWait, Moves
<1>9. CASE ChildDied(a)
  BY <1>1, <1>3, <1>9 DEF ChildDied, Runs, OnWait, Moves
<1>10. CASE Suspend(a)
  BY <1>1, <1>3, <1>10 DEF Suspend, Runs, GoesOn, Moves
<1>11. CASE Awake(a)
  BY <1>1, <1>3, <1>11 DEF Awake, Runs, GoesOn, Moves
<1>12. CASE Wake(a)
  <2>1. k[a] \in DOMAIN K /\ proc[K[k[a]]] = "waited"
    BY <1>1, <1>2, <1>3, <1>4, <1>12 DEF Wake, Runs, Node, Edge, K
  <2> QED
    BY <1>1, <1>3, <1>12, <2>1 DEF Wake, Runs, GoesOn, OnCont, Halted, Moves, K
<1>13. CASE Read(a)
  BY <1>1, <1>3, <1>13 DEF Read, Runs, GoesOn, Moves
<1>14. CASE Wait(a)
  BY <1>1, <1>3, <1>14 DEF Wait, Runs, GoesOn, OnWait, Moves
<1>15. CASE AllWoken(a)
  BY <1>1, <1>3, <1>15 DEF AllWoken, Runs, GoesOn, Exits, Moves
<1>16. CASE Write(a)
  BY <1>1, <1>3, <1>16 DEF Write, Runs, GoesOn, Moves
<1>17. CASE Exit(a)
  BY <1>1, <1>3, <1>17 DEF Exit, Runs, Exits, Moves
<1>18. CASE Collect(a)
  <2>1. k[a] > 0 => k[a] \in DOMAIN K
    BY <1>1, <1>2, <1>3, <1>18 DEF Collect, Runs, Node, K
  <2> QED
    BY <1>1, <1>3, <1>18, <2>1 DEF Collect, Runs, Exits, OnWait, Moves, K
<1>19. CASE a = 0 /\ ShowTree
  BY <1>1, <1>3, <1>19 DEF ShowTree, Runs, GoesOn, Moves
<1> QED
  BY <1>5, <1>6, <1>7, <1>8, <1>9, <1>10, <1>11, <1>12, <1>13, <1>14, <1>15, <1>16,
     <1>17, <1>18, <1>19 DEF Process

\* What everybody else knows stays true.
LEMMA OthersKeep ==
    ASSUME TypeOK, LocalInv, NEW a \in Everyone, Moves(a), Node(a)', Count(a)',
           \A i \in DOMAIN Kids(a) : Edge(a, i, Kids(a)[i])'
    PROVE  LocalInv'
<1>1. /\ Everyone' = Everyone
      /\ \A n : Kids(n)' = Kids(n)
  BY DEF Moves, Everyone, Nodes, Kids
<1>2. ASSUME NEW n \in Everyone PROVE Node(n)'
  <2>0. Kids(n)' = Kids(n) /\ Node(n)
    BY <1>1 DEF LocalInv
  <2>1. CASE n = a
    BY <2>1
  <2>2. CASE n \in KidSet(a)
    <3>1. n # a /\ n # 0
      BY <2>2, KidFacts, TreeFacts DEF TypeOK
    <3>2. /\ program' = program /\ tree' = tree
          /\ pc'[n] = pc[n] /\ k'[n] = k[n] /\ code'[n] = code[n]
          /\ \/ proc'[n] = proc[n]
             \/ proc[n] = "none" /\ proc'[n] = "running"
             \/ proc[n] = "stopped" /\ proc'[n] = "waited"
             \/ proc[n] = "zombie" /\ proc'[n] = "gone"
             \/ proc[n] = "waited" /\ proc'[n] = "running"
      BY <2>2, <3>1 DEF Moves
    <3> QED
      BY <2>0, <3>1, <3>2 DEF Node, Halted, Dead
  <2>3. CASE n # a /\ n \notin KidSet(a)
    <3>1. /\ program' = program /\ tree' = tree /\ proc'[n] = proc[n]
          /\ pc'[n] = pc[n] /\ k'[n] = k[n] /\ code'[n] = code[n]
      BY <2>3 DEF Moves
    <3> QED
      BY <2>0, <3>1 DEF Node
  <2> QED
    BY <2>1, <2>2, <2>3
<1>3. ASSUME NEW m \in Everyone, NEW i \in DOMAIN Kids(m), NEW c, c = Kids(m)[i]
      PROVE  Edge(m, i, c)'
  <2>0. c \in Everyone /\ c \in KidSet(m) /\ c # m /\ Edge(m, i, c) /\ Node(c)
    BY <1>3, TreeFacts, KidFacts DEF TypeOK, LocalInv, Everyone
  <2>1. CASE m = a
    <3>1. Edge(a, i, Kids(a)[i])'
      BY <2>1
    <3>2. Kids(a)[i]' = c
      BY <1>1, <1>3, <2>1
    <3> QED
      BY <2>1, <3>1, <3>2 DEF Edge
  <2>2. CASE m # a /\ c = a
    <3>1. a # 0
      BY <2>2, <2>0, KidFacts, TreeFacts DEF TypeOK
    <3>2. /\ program' = program /\ tree' = tree /\ proc[c] = "running"
          /\ pc'[m] = pc[m] /\ k'[m] = k[m]
          /\ proc'[c] \in {"running", "stopped", "zombie"}
          /\ pc'[c] = "awake" <=> proc'[c] = "stopped"
          /\ pc'[c] \in {"fork", "ready", "awake"} => pc[c] \in {"fork", "ready"}
          /\ pc'[c] \in {"fork", "ready", "awake"} \/ pc[c] \notin {"fork", "ready"}
             \/ program \in Sleeping
          /\ pc[c] = "exit" => pc'[c] = "exit"
      BY <2>2, <3>1 DEF Moves
    <3> QED
      BY <2>0, <3>1, <3>2 DEF Edge, Node, Waking, Sleeping, Halted, Dead
  <2>3. CASE m # a /\ c # a
    <3>1. c \notin KidSet(a)
      BY <2>0, <2>3, KidFacts DEF TypeOK
    <3> QED
      BY <1>1, <2>0, <2>3, <3>1 DEF Edge, Moves
  <2> QED
    BY <2>1, <2>2, <2>3
<1>4. ASSUME NEW n \in Everyone, n # a PROVE Count(n)'
  <2>1. Kids(n)' = Kids(n)
    BY <1>1
  <2>2. ASSUME NEW i \in DOMAIN Kids(n)
        PROVE  /\ proc'[Kids(n)[i]] = "waited" <=> proc[Kids(n)[i]] = "waited"
               /\ proc'[Kids(n)[i]] = "gone" <=> proc[Kids(n)[i]] = "gone"
    <3> DEFINE c == Kids(n)[i]
    <3>0. c \in Everyone /\ c \notin KidSet(a)
      BY <1>4, TreeFacts, KidFacts DEF TypeOK, Everyone
    <3> QED
      BY <3>0 DEF Moves
  <2>3. Told(n)' = Told(n)
    BY <2>1, <2>2 DEF Told, Moves
  <2> QED
    BY <1>4, <2>1, <2>3 DEF LocalInv, Count, Moves
<1>5. \A m \in Everyone : \A i \in DOMAIN Kids(m) : Edge(m, i, Kids(m)[i])'
  BY <1>1, <1>3
<1> QED
  BY <1>1, <1>2, <1>4, <1>5 DEF LocalInv

LEMMA ToldFinite ==
    ASSUME tree \in Trees, NEW n \in Everyone
    PROVE  /\ IsFiniteSet(Told(n)) /\ Cardinality(Told(n)) \in Nat
           /\ Cardinality(Told(n)) = Len(Kids(n)) => Told(n) = DOMAIN Kids(n)
<1>1. DOMAIN Kids(n) = 1 .. Len(Kids(n)) /\ Len(Kids(n)) \in Nat
  BY TreeFacts
<1>2. IsFiniteSet(DOMAIN Kids(n)) /\ Cardinality(DOMAIN Kids(n)) = Len(Kids(n))
  <2> DEFINE N == Len(Kids(n))
  <2>0. 1 \in Int /\ N \in Int /\ N \in Nat
    BY <1>1
  <2> HIDE DEF N
  <2>1. IsFiniteSet(1 .. N) /\ Cardinality(1 .. N) = IF 1 > N THEN 0 ELSE N - 1 + 1
    BY <2>0, FS_Interval
  <2>2. IsFiniteSet(1 .. N) /\ Cardinality(1 .. N) = N
    BY <2>0, <2>1
  <2>3. DOMAIN Kids(n) = 1 .. N
    BY <1>1 DEF N
  <2> QED
    BY <2>2, <2>3 DEF N
<1>3. Told(n) \subseteq DOMAIN Kids(n)
  BY DEF Told
<1> QED
  BY <1>2, <1>3, FS_Subset, FS_CardinalityType

\* A process that has counted all its children knows about every one.
LEMMA AllTold ==
    ASSUME tree \in Trees, program \in Waking \cup Sleeping,
           NEW n \in Everyone, Node(n), Count(n), k[n] \in Nat, NEW i \in DOMAIN Kids(n)
    PROVE  /\ pc[n] = "ready" => program \in Waking
           /\ pc[n] = "ready" /\ k[n] > Len(Kids(n)) => proc[Kids(n)[i]] = "waited"
           /\ program = "ex2_1" /\ pc[n] = "collect" /\ k[n] = 0 => proc[Kids(n)[i]] = "gone"
<1>1. Len(Kids(n)) \in Nat
  BY TreeFacts
<1>2. pc[n] = "ready" => program \in Waking
  BY DEF Node, Sleeping
<1>3. pc[n] = "ready" /\ k[n] > Len(Kids(n)) => Told(n) = DOMAIN Kids(n)
  <2>1. ASSUME pc[n] = "ready", k[n] > Len(Kids(n)) PROVE k[n] - 1 = Len(Kids(n))
    BY <1>1, <2>1 DEF Node
  <2> QED
    BY <1>2, <2>1, ToldFinite DEF Count
<1>4. program = "ex2_1" /\ pc[n] = "collect" /\ k[n] = 0 => Told(n) = DOMAIN Kids(n)
  <2>1. Len(Kids(n)) - 0 = Len(Kids(n))
    BY <1>1
  <2> QED
    BY <2>1, ToldFinite DEF Count
<1>5. program = "ex2_1" => program \notin Waking
  BY DEF Waking
<1> QED
  BY <1>2, <1>3, <1>4, <1>5 DEF Told

\* Every step keeps what processes have done and know.
LEMMA LocalStep ==
    ASSUME TypeOK, LocalInv, NEW a \in Everyone, Process(a) \/ (a = 0 /\ ShowTree)
    PROVE  LocalInv'
<1>1. /\ Moves(a) /\ Node(a) /\ Count(a) /\ Kids(a)' = Kids(a)
      /\ program' = program /\ tree' = tree /\ proc[a] = "running"
      /\ Kids(a) \in Seq(Nodes) /\ DOMAIN Kids(a) = 1 .. Len(Kids(a)) /\ Len(Kids(a)) \in Nat
      /\ a = 0 => Len(Kids(a)) = 1
      /\ program \in Waking \cup Sleeping
      /\ pc[a] # "collect" => k[a] >= 1
  <2>1. Moves(a)
    BY Moving
  <2> QED
    BY <2>1, TreeFacts, ProcTreeAssumption DEF LocalInv, Moves, Kids, TypeOK, Node
<1>2. /\ proc \in [Everyone -> ProcStates] /\ code \in [Everyone -> {0, 1}] /\ k \in [Everyone -> Nat]
      /\ pc \in [Everyone -> {"fork", "ready", "awake", "wake", "read", "wait",
                              "collect", "write", "exit"}]
  BY DEF TypeOK
<1>3. \A i \in DOMAIN Kids(a) :
          /\ Kids(a)[i] \in Everyone /\ Kids(a)[i] # a /\ Kids(a)[i] \in KidSet(a)
          /\ Edge(a, i, Kids(a)[i]) /\ Node(Kids(a)[i])
          /\ pc'[Kids(a)[i]] = pc[Kids(a)[i]] /\ code'[Kids(a)[i]] = code[Kids(a)[i]]
  BY <1>1, TreeFacts, KidFacts DEF TypeOK, LocalInv, Everyone, Moves
<1>4. \A i, j \in DOMAIN Kids(a) : Kids(a)[i] = Kids(a)[j] => i = j
  BY TreeFacts DEF TypeOK
<1>5. \A c \in KidSet(a) : \E i \in DOMAIN Kids(a) : Kids(a)[i] = c
  BY DEF KidSet
<1>6. SUFFICES /\ Node(a)' /\ Count(a)'
               /\ \A i \in DOMAIN Kids(a) : \A c : c = Kids(a)[i] => Edge(a, i, c)'
  <2>1. \A i \in DOMAIN Kids(a) : Kids(a)'[i] = Kids(a)[i]
    BY <1>1
  <2> QED
    BY <1>1, <2>1, OthersKeep
<1>7. CASE Fork(a)
  <2>0. /\ pc[a] = "fork" /\ k[a] \in DOMAIN Kids(a)
        /\ pc'[a] = pc[a]
        /\ k'[a] = k[a] + 1 /\ code'[a] = code[a] /\ proc'[a] = "running"
        /\ \A i \in DOMAIN Kids(a) : proc'[Kids(a)[i]] = IF i = k[a] THEN "running" ELSE proc[Kids(a)[i]]
    BY <1>1, <1>2, <1>3, <1>4, <1>7 DEF Fork, Runs
  <2>1. Node(a)'
    BY <1>1, <2>0 DEF Node, Halted, Dead, Waking, Computing, Sleeping
  <2>2. ASSUME NEW i \in DOMAIN Kids(a), NEW c, c = Kids(a)[i] PROVE Edge(a, i, c)'
    <3>1. /\ c \in Everyone /\ c # a /\ i \in Nat /\ i >= 1 /\ i <= Len(Kids(a))
          /\ Edge(a, i, c) /\ Node(c) /\ pc'[c] = pc[c] /\ code'[c] = code[c]
      BY <1>1, <1>3, <2>2
    <3>2. proc'[c] = IF i = k[a] THEN "running" ELSE proc[c]
      BY <2>0, <2>2
    <3> QED
      BY <1>1, <2>0, <3>1, <3>2 DEF Edge, Node, Halted, Dead, Waking, Computing, Sleeping
  <2>3. Count(a)'
    BY <1>1, <2>0 DEF Count
  <2> QED
    BY <2>1, <2>2, <2>3
<1>8. CASE GiveUp(a)
  <2>0. /\ pc[a] \in {"fork", "ready"} \/ (a = 0 /\ pc[a] = "wait" /\ program \in Sleeping)
        /\ pc'[a] = pc[a]
        /\ k'[a] = k[a] /\ code'[a] = 1 /\ proc'[a] = "zombie"
        /\ \A i \in DOMAIN Kids(a) : proc'[Kids(a)[i]] = proc[Kids(a)[i]]
    BY <1>1, <1>2, <1>3, <1>4, <1>8 DEF GiveUp, CanShow, Runs, Exits
  <2>1. Node(a)'
    BY <1>1, <2>0 DEF Node, Halted, Dead, Waking, Computing, Sleeping
  <2>2. ASSUME NEW i \in DOMAIN Kids(a), NEW c, c = Kids(a)[i] PROVE Edge(a, i, c)'
    <3>1. /\ c \in Everyone /\ c # a /\ i \in Nat /\ i >= 1 /\ i <= Len(Kids(a))
          /\ Edge(a, i, c) /\ Node(c) /\ pc'[c] = pc[c] /\ code'[c] = code[c]
      BY <1>1, <1>3, <2>2
    <3>2. proc'[c] = proc[c]
      BY <2>0, <2>2
    <3> QED
      BY <1>1, <2>0, <3>1, <3>2 DEF Edge, Node, Halted, Dead, Waking, Computing, Sleeping
  <2>3. Count(a)'
    <3>1. Told(a)' = Told(a)
      BY <1>1, <2>0 DEF Told
    <3> QED
      BY <1>1, <2>0, <3>1 DEF Count
  <2> QED
    BY <2>1, <2>2, <2>3
<1>9. CASE AllForked(a)
  <2>0. /\ pc[a] = "fork" /\ k[a] > Len(Kids(a))
        /\ pc'[a] = (IF program \in Waking THEN "ready" ELSE IF a = 0 THEN "wait" ELSE "collect")
        /\ k'[a] = (IF program \in Waking \/ a = 0 THEN 1 ELSE Len(Kids(a))) /\ code'[a] = code[a] /\ proc'[a] = "running"
        /\ \A i \in DOMAIN Kids(a) : proc'[Kids(a)[i]] = proc[Kids(a)[i]]
    BY <1>1, <1>2, <1>3, <1>4, <1>9 DEF AllForked, Runs, GoesOn
  <2>1. Node(a)'
    BY <1>1, <2>0 DEF Node, Halted, Dead, Waking, Computing, Sleeping
  <2>2. ASSUME NEW i \in DOMAIN Kids(a), NEW c, c = Kids(a)[i] PROVE Edge(a, i, c)'
    <3>1. /\ c \in Everyone /\ c # a /\ i \in Nat /\ i >= 1 /\ i <= Len(Kids(a))
          /\ Edge(a, i, c) /\ Node(c) /\ pc'[c] = pc[c] /\ code'[c] = code[c]
      BY <1>1, <1>3, <2>2
    <3>2. proc'[c] = proc[c]
      BY <2>0, <2>2
    <3> QED
      BY <1>1, <2>0, <3>1, <3>2 DEF Edge, Node, Halted, Dead, Waking, Computing, Sleeping
  <2>3. Count(a)'
    <3>1. Told(a)' = {}
      BY <1>1, <1>3, <2>0 DEF Told, Edge
    <3>2. Cardinality(Told(a)') = 0
      BY <3>1, FS_EmptySet
    <3>3. CASE program \in Waking
      BY <1>1, <2>0, <3>2, <3>3 DEF Count, Waking
    <3>4. CASE program \in Sleeping
      BY <1>1, <2>0, <3>2, <3>4 DEF Count, Sleeping, Waking
    <3> QED
      BY <1>1, <3>3, <3>4
  <2> QED
    BY <2>1, <2>2, <2>3
<1>10. CASE ChildReady(a)
  <2>0. PICK j \in DOMAIN Kids(a) :
            /\ pc[a] = "ready" /\ k[a] \in DOMAIN Kids(a)
            /\ pc'[a] = pc[a] /\ k'[a] = k[a] + 1 /\ code'[a] = code[a] /\ proc'[a] = "running"
            /\ proc[Kids(a)[j]] = "stopped"
            /\ \A i \in DOMAIN Kids(a) :
                  proc'[Kids(a)[i]] = IF i = j THEN "waited" ELSE proc[Kids(a)[i]]
    <3>1. PICK j \in DOMAIN Kids(a) : /\ proc[Kids(a)[j]] = "stopped"
                                      /\ proc' = [proc EXCEPT ![Kids(a)[j]] = OnWait(@)]
      BY <1>5, <1>10 DEF ChildReady
    <3>2. \A i \in DOMAIN Kids(a) :
              proc'[Kids(a)[i]] = IF i = j THEN "waited" ELSE proc[Kids(a)[i]]
      BY <1>2, <1>3, <1>4, <3>1 DEF OnWait
    <3>3. proc'[a] = "running"
      BY <1>1, <1>2, <1>3, <3>1
    <3>4. pc[a] = "ready" /\ k[a] <= Len(Kids(a)) /\ k' = [k EXCEPT ![a] = @ + 1]
          /\ pc' = pc /\ code' = code
      BY <1>10 DEF ChildReady, Runs
    <3> QED
      BY <1>1, <1>2, <3>1, <3>2, <3>3, <3>4
  <2>1. Node(a)'
    BY <1>1, <2>0 DEF Node, Halted, Dead, Waking, Computing, Sleeping
  <2>2. ASSUME NEW i \in DOMAIN Kids(a), NEW c, c = Kids(a)[i] PROVE Edge(a, i, c)'
    <3>1. /\ c \in Everyone /\ c # a /\ i \in Nat /\ i >= 1 /\ i <= Len(Kids(a))
          /\ Edge(a, i, c) /\ Node(c) /\ pc'[c] = pc[c] /\ code'[c] = code[c]
      BY <1>1, <1>3, <2>2
    <3>2. proc'[c] = IF i = j THEN "waited" ELSE proc[c]
      BY <2>0, <2>2
    <3> QED
      BY <1>1, <2>0, <3>1, <3>2 DEF Edge, Node, Halted, Dead, Waking, Computing, Sleeping
  <2>3. Count(a)'
    <3>0. program \in Waking
      BY <1>1, <2>0 DEF Node, Sleeping
    <3>1. Told(a)' = Told(a) \cup {j} /\ j \notin Told(a)
      BY <1>1, <2>0, <3>0 DEF Told
    <3>2. IsFiniteSet(Told(a)) /\ Cardinality(Told(a)) \in Nat
      BY <1>1, ToldFinite DEF TypeOK
    <3>3. Cardinality(Told(a)') = Cardinality(Told(a)) + 1
      BY <3>1, <3>2, FS_AddElement
    <3>4. k[a] \in Nat
      BY <1>2
    <3> QED
      BY <1>1, <2>0, <3>2, <3>3, <3>4 DEF Count, Waking
  <2> QED
    BY <2>1, <2>2, <2>3
<1>11. CASE ChildDied(a)
  <2>0. PICK j \in DOMAIN Kids(a) :
            /\ pc[a] = "ready"
            /\ pc'[a] = pc[a] /\ k'[a] = k[a] /\ code'[a] = 1 /\ proc'[a] = "zombie"
            /\ proc[Kids(a)[j]] = "zombie"
            /\ \A i \in DOMAIN Kids(a) :
                  proc'[Kids(a)[i]] = IF i = j THEN "gone" ELSE proc[Kids(a)[i]]
    <3>1. PICK j \in DOMAIN Kids(a) :
              /\ proc[Kids(a)[j]] = "zombie"
              /\ proc' = [proc EXCEPT ![Kids(a)[j]] = OnWait(@), ![a] = "zombie"]
      BY <1>5, <1>11 DEF ChildDied
    <3>2. \A i \in DOMAIN Kids(a) :
              proc'[Kids(a)[i]] = IF i = j THEN "gone" ELSE proc[Kids(a)[i]]
      BY <1>2, <1>3, <1>4, <3>1 DEF OnWait
    <3>3. proc'[a] = "zombie"
      BY <1>1, <1>2, <1>3, <3>1
    <3>4. pc[a] = "ready" /\ k' = k /\ pc' = pc /\ code' = [code EXCEPT ![a] = 1]
      BY <1>11 DEF ChildDied, Runs
    <3> QED
      BY <1>1, <1>2, <3>1, <3>2, <3>3, <3>4
  <2>1. Node(a)'
    BY <1>1, <2>0 DEF Node, Halted, Dead, Waking, Computing, Sleeping
  <2>2. ASSUME NEW i \in DOMAIN Kids(a), NEW c, c = Kids(a)[i] PROVE Edge(a, i, c)'
    <3>1. /\ c \in Everyone /\ c # a /\ i \in Nat /\ i >= 1 /\ i <= Len(Kids(a))
          /\ Edge(a, i, c) /\ Node(c) /\ pc'[c] = pc[c] /\ code'[c] = code[c]
      BY <1>1, <1>3, <2>2
    <3>2. proc'[c] = IF i = j THEN "gone" ELSE proc[c]
      BY <2>0, <2>2
    <3> QED
      BY <1>1, <2>0, <2>2, <3>1, <3>2 DEF Edge, Node, Halted, Dead, Waking, Computing, Sleeping
  <2>3. Count(a)'
    <3>0. program \in Waking
      BY <1>1, <2>0 DEF Node, Sleeping
    <3>1. Told(a)' = Told(a)
      BY <1>1, <2>0, <3>0 DEF Told
    <3> QED
      BY <1>1, <2>0, <3>1 DEF Count, Waking
  <2> QED
    BY <2>1, <2>2, <2>3
<1>12. CASE Suspend(a)
  <2>0. /\ pc[a] = "ready" /\ k[a] > Len(Kids(a)) /\ a # 0
        /\ pc'[a] = "awake"
        /\ k'[a] = 1 /\ code'[a] = code[a] /\ proc'[a] = "stopped"
        /\ \A i \in DOMAIN Kids(a) : proc'[Kids(a)[i]] = proc[Kids(a)[i]]
    BY <1>1, <1>2, <1>3, <1>4, <1>12 DEF Suspend, Runs, GoesOn
  <2>9. \A i \in DOMAIN Kids(a) : proc[Kids(a)[i]] = "waited"
    BY <1>1, <1>2, <2>0, AllTold DEF TypeOK
  <2>1. Node(a)'
    BY <1>1, <2>0 DEF Node, Halted, Dead, Waking, Computing, Sleeping
  <2>2. ASSUME NEW i \in DOMAIN Kids(a), NEW c, c = Kids(a)[i] PROVE Edge(a, i, c)'
    <3>1. /\ c \in Everyone /\ c # a /\ i \in Nat /\ i >= 1 /\ i <= Len(Kids(a))
          /\ Edge(a, i, c) /\ Node(c) /\ pc'[c] = pc[c] /\ code'[c] = code[c]
      BY <1>1, <1>3, <2>2
    <3>2. proc'[c] = proc[c]
      BY <2>0, <2>2
    <3> QED
      BY <1>1, <2>0, <3>1, <3>2, <2>9, <2>2 DEF Edge, Node, Halted, Dead, Waking, Computing, Sleeping
  <2>3. Count(a)'
    BY <1>1, <2>0 DEF Count
  <2> QED
    BY <2>1, <2>2, <2>3
<1>13. CASE Awake(a)
  <2>0. /\ pc[a] = "awake"
        /\ pc'[a] = IF program \in Computing /\ (Kids(a) = <<>> \/ tree.op[a] = "other") THEN "write" ELSE "wake"
        /\ k'[a] = k[a] /\ code'[a] = code[a] /\ proc'[a] = "running"
        /\ \A i \in DOMAIN Kids(a) : proc'[Kids(a)[i]] = proc[Kids(a)[i]]
    BY <1>1, <1>2, <1>3, <1>4, <1>13 DEF Awake, Runs, GoesOn
  <2>1. Node(a)'
    BY <1>1, <2>0 DEF Node, Halted, Dead, Waking, Computing, Sleeping
  <2>2. ASSUME NEW i \in DOMAIN Kids(a), NEW c, c = Kids(a)[i] PROVE Edge(a, i, c)'
    <3>1. /\ c \in Everyone /\ c # a /\ i \in Nat /\ i >= 1 /\ i <= Len(Kids(a))
          /\ Edge(a, i, c) /\ Node(c) /\ pc'[c] = pc[c] /\ code'[c] = code[c]
      BY <1>1, <1>3, <2>2
    <3>2. proc'[c] = proc[c]
      BY <2>0, <2>2
    <3> QED
      BY <1>1, <2>0, <3>1, <3>2 DEF Edge, Node, Halted, Dead, Waking, Computing, Sleeping
  <2>3. Count(a)'
    BY <1>1, <2>0 DEF Count
  <2> QED
    BY <2>1, <2>2, <2>3
<1>14. CASE Wake(a)
  <2>0. /\ pc[a] = "wake" /\ k[a] \in DOMAIN Kids(a)
        /\ pc'[a] = IF program \in Computing THEN "read" ELSE "wait"
        /\ k'[a] = k[a] /\ code'[a] = code[a] /\ proc'[a] = "running"
        /\ \A i \in DOMAIN Kids(a) : proc'[Kids(a)[i]] = IF i = k[a] THEN OnCont(proc[Kids(a)[i]]) ELSE proc[Kids(a)[i]]
    BY <1>1, <1>2, <1>3, <1>4, <1>14 DEF Wake, Runs, GoesOn
  <2>1. Node(a)'
    BY <1>1, <2>0 DEF Node, Halted, Dead, Waking, Computing, Sleeping
  <2>2. ASSUME NEW i \in DOMAIN Kids(a), NEW c, c = Kids(a)[i] PROVE Edge(a, i, c)'
    <3>1. /\ c \in Everyone /\ c # a /\ i \in Nat /\ i >= 1 /\ i <= Len(Kids(a))
          /\ Edge(a, i, c) /\ Node(c) /\ pc'[c] = pc[c] /\ code'[c] = code[c]
      BY <1>1, <1>3, <2>2
    <3>2. proc'[c] = IF i = k[a] THEN OnCont(proc[c]) ELSE proc[c]
      BY <2>0, <2>2
    <3> QED
      BY <1>1, <2>0, <3>1, <3>2 DEF Edge, Node, Halted, Dead, Waking, Computing, OnCont
  <2>3. Count(a)'
    BY <1>1, <2>0 DEF Count
  <2> QED
    BY <2>1, <2>2, <2>3
<1>15. CASE Read(a)
  <2>0. /\ pc[a] = "read"
        /\ pc'[a] = "wait"
        /\ k'[a] = k[a] /\ code'[a] = code[a] /\ proc'[a] = "running"
        /\ \A i \in DOMAIN Kids(a) : proc'[Kids(a)[i]] = proc[Kids(a)[i]]
    BY <1>1, <1>2, <1>3, <1>4, <1>15 DEF Read, Runs, GoesOn
  <2>1. Node(a)'
    BY <1>1, <2>0 DEF Node, Halted, Dead, Waking, Computing, Sleeping
  <2>2. ASSUME NEW i \in DOMAIN Kids(a), NEW c, c = Kids(a)[i] PROVE Edge(a, i, c)'
    <3>1. /\ c \in Everyone /\ c # a /\ i \in Nat /\ i >= 1 /\ i <= Len(Kids(a))
          /\ Edge(a, i, c) /\ Node(c) /\ pc'[c] = pc[c] /\ code'[c] = code[c]
      BY <1>1, <1>3, <2>2
    <3>2. proc'[c] = proc[c]
      BY <2>0, <2>2
    <3> QED
      BY <1>1, <2>0, <3>1, <3>2 DEF Edge, Node, Halted, Dead, Waking, Computing, Sleeping
  <2>3. Count(a)'
    BY <1>1, <2>0 DEF Count
  <2> QED
    BY <2>1, <2>2, <2>3
<1>16. CASE Wait(a)
  <2>0. PICK j \in DOMAIN Kids(a) :
            /\ pc[a] = "wait"
            /\ pc'[a] = "wake" /\ k'[a] = k[a] + 1 /\ code'[a] = code[a] /\ proc'[a] = "running"
            /\ proc[Kids(a)[j]] = "zombie"
            /\ \A i \in DOMAIN Kids(a) :
                  proc'[Kids(a)[i]] = IF i = j THEN "gone" ELSE proc[Kids(a)[i]]
    <3>1. PICK j \in DOMAIN Kids(a) : /\ proc[Kids(a)[j]] = "zombie"
                                      /\ proc' = [proc EXCEPT ![Kids(a)[j]] = OnWait(@)]
      BY <1>5, <1>16 DEF Wait
    <3> QED
      BY <1>1, <1>2, <1>3, <1>4, <1>16, <3>1 DEF Wait, Runs, GoesOn, OnWait
  <2>1. Node(a)'
    BY <1>1, <2>0 DEF Node, Halted, Dead, Waking, Computing, Sleeping
  <2>2. ASSUME NEW i \in DOMAIN Kids(a), NEW c, c = Kids(a)[i] PROVE Edge(a, i, c)'
    <3>1. /\ c \in Everyone /\ c # a /\ i \in Nat /\ i >= 1 /\ i <= Len(Kids(a))
          /\ Edge(a, i, c) /\ Node(c) /\ pc'[c] = pc[c] /\ code'[c] = code[c]
      BY <1>1, <1>3, <2>2
    <3>2. proc'[c] = IF i = j THEN "gone" ELSE proc[c]
      BY <2>0, <2>2
    <3>3. program \in Waking => j = k[a] /\ code[Kids(a)[j]] = 0
      <4>1. Edge(a, j, Kids(a)[j]) /\ Node(Kids(a)[j]) /\ j \in Nat /\ k[a] \in Nat
        BY <1>1, <1>2, <1>3
      <4> QED
        BY <1>1, <2>0, <4>1 DEF Edge, Node, Halted, Dead
    <3> QED
      BY <1>1, <2>0, <2>2, <3>1, <3>2, <3>3 DEF Edge, Node, Halted, Dead, Waking, Computing, Sleeping
  <2>3. Count(a)'
    BY <1>1, <2>0 DEF Count
  <2> QED
    BY <2>1, <2>2, <2>3
<1>17. CASE AllWoken(a)
  <2>0. /\ pc[a] = "wake" /\ k[a] > Len(Kids(a)) /\ k'[a] = k[a]
        /\ \/ program \in Computing /\ a # 0 /\ pc'[a] = "write"
              /\ code'[a] = code[a] /\ proc'[a] = "running"
           \/ (program \notin Computing \/ a = 0) /\ pc'[a] = pc[a]
              /\ code'[a] = 0 /\ proc'[a] = "zombie"
        /\ \A i \in DOMAIN Kids(a) : proc'[Kids(a)[i]] = proc[Kids(a)[i]]
    BY <1>1, <1>2, <1>3, <1>17 DEF AllWoken, Runs, GoesOn, Exits
  <2>1. Node(a)'
    BY <1>1, <2>0 DEF Node, Halted, Dead, Waking, Computing, Sleeping
  <2>2. ASSUME NEW i \in DOMAIN Kids(a), NEW c, c = Kids(a)[i] PROVE Edge(a, i, c)'
    <3>1. /\ c \in Everyone /\ c # a /\ i \in Nat /\ i >= 1 /\ i <= Len(Kids(a))
          /\ Edge(a, i, c) /\ Node(c) /\ pc'[c] = pc[c] /\ code'[c] = code[c]
      BY <1>1, <1>3, <2>2
    <3>2. proc'[c] = proc[c]
      BY <2>0, <2>2
    <3> QED
      BY <1>1, <2>0, <3>1, <3>2 DEF Edge, Node, Halted, Dead, Waking, Computing, Sleeping
  <2>3. Count(a)'
    BY <1>1, <2>0 DEF Count
  <2> QED
    BY <2>1, <2>2, <2>3
<1>18. CASE Write(a)
  <2>0. /\ pc[a] = "write"
        /\ pc'[a] = "exit"
        /\ k'[a] = k[a] /\ code'[a] = code[a] /\ proc'[a] = "running"
        /\ \A i \in DOMAIN Kids(a) : proc'[Kids(a)[i]] = proc[Kids(a)[i]]
    BY <1>1, <1>2, <1>3, <1>4, <1>18 DEF Write, Runs, GoesOn
  <2>1. Node(a)'
    BY <1>1, <2>0 DEF Node, Halted, Dead, Waking, Computing, Sleeping
  <2>2. ASSUME NEW i \in DOMAIN Kids(a), NEW c, c = Kids(a)[i] PROVE Edge(a, i, c)'
    <3>1. /\ c \in Everyone /\ c # a /\ i \in Nat /\ i >= 1 /\ i <= Len(Kids(a))
          /\ Edge(a, i, c) /\ Node(c) /\ pc'[c] = pc[c] /\ code'[c] = code[c]
      BY <1>1, <1>3, <2>2
    <3>2. proc'[c] = proc[c]
      BY <2>0, <2>2
    <3> QED
      BY <1>1, <2>0, <3>1, <3>2 DEF Edge, Node, Halted, Dead, Waking, Computing, Sleeping
  <2>3. Count(a)'
    BY <1>1, <2>0 DEF Count
  <2> QED
    BY <2>1, <2>2, <2>3
<1>19. CASE Exit(a)
  <2>0. /\ pc[a] = "exit"
        /\ pc'[a] = pc[a]
        /\ k'[a] = k[a] /\ code'[a] = 0 /\ proc'[a] = "zombie"
        /\ \A i \in DOMAIN Kids(a) : proc'[Kids(a)[i]] = proc[Kids(a)[i]]
    BY <1>1, <1>2, <1>3, <1>4, <1>19 DEF Exit, Runs, Exits
  <2>1. Node(a)'
    BY <1>1, <2>0 DEF Node, Halted, Dead, Waking, Computing, Sleeping
  <2>2. ASSUME NEW i \in DOMAIN Kids(a), NEW c, c = Kids(a)[i] PROVE Edge(a, i, c)'
    <3>1. /\ c \in Everyone /\ c # a /\ i \in Nat /\ i >= 1 /\ i <= Len(Kids(a))
          /\ Edge(a, i, c) /\ Node(c) /\ pc'[c] = pc[c] /\ code'[c] = code[c]
      BY <1>1, <1>3, <2>2
    <3>2. proc'[c] = proc[c]
      BY <2>0, <2>2
    <3> QED
      BY <1>1, <2>0, <3>1, <3>2 DEF Edge, Node, Halted, Dead, Waking, Computing, Sleeping
  <2>3. Count(a)'
    BY <1>1, <2>0 DEF Count
  <2> QED
    BY <2>1, <2>2, <2>3
<1>20. CASE Collect(a) /\ k[a] > 0
  <2>0. PICK j \in DOMAIN Kids(a) :
            /\ pc[a] = "collect" /\ pc'[a] = pc[a] /\ k[a] > 0
            /\ k'[a] = k[a] - 1 /\ code'[a] = code[a] /\ proc'[a] = "running"
            /\ program = "ex2_2" => j = k[a]
            /\ proc[Kids(a)[j]] = "zombie"
            /\ \A i \in DOMAIN Kids(a) :
                  proc'[Kids(a)[i]] = IF i = j THEN "gone" ELSE proc[Kids(a)[i]]
    <3>0. k[a] \in DOMAIN Kids(a)
      BY <1>1, <1>2, <1>20 DEF Collect, Runs, Node
    <3>1. PICK c \in KidSet(a) : /\ program = "ex2_2" => c = Kids(a)[k[a]]
                                 /\ proc[c] = "zombie" /\ proc' = [proc EXCEPT ![c] = OnWait(@)]
      BY <1>20 DEF Collect
    <3>2. PICK j \in DOMAIN Kids(a) : Kids(a)[j] = c
      BY <1>5
    <3>3. program = "ex2_2" => j = k[a]
      BY <1>4, <3>0, <3>1, <3>2
    <3>4. \A i \in DOMAIN Kids(a) :
              proc'[Kids(a)[i]] = IF i = j THEN "gone" ELSE proc[Kids(a)[i]]
      BY <1>2, <1>3, <1>4, <3>1, <3>2 DEF OnWait
    <3>5. proc'[a] = "running"
      BY <1>1, <1>2, <1>3, <3>1, <3>2
    <3>6. pc[a] = "collect" /\ pc' = pc /\ code' = code /\ k' = [k EXCEPT ![a] = @ - 1]
      BY <1>20 DEF Collect, Runs
    <3> QED
      BY <1>1, <1>2, <1>20, <3>1, <3>2, <3>3, <3>4, <3>5, <3>6
  <2>1. Node(a)'
    BY <1>1, <2>0 DEF Node, Halted, Dead, Waking, Computing, Sleeping
  <2>2. ASSUME NEW i \in DOMAIN Kids(a), NEW c, c = Kids(a)[i] PROVE Edge(a, i, c)'
    <3>1. /\ c \in Everyone /\ c # a /\ i \in Nat /\ i >= 1 /\ i <= Len(Kids(a))
          /\ Edge(a, i, c) /\ Node(c) /\ pc'[c] = pc[c] /\ code'[c] = code[c]
      BY <1>1, <1>3, <2>2
    <3>2. proc'[c] = IF i = j THEN "gone" ELSE proc[c]
      BY <2>0, <2>2
    <3> QED
      BY <1>1, <1>2, <2>0, <3>1, <3>2 DEF Edge, Node, Halted, Dead, Waking, Computing, Sleeping
  <2>3. Count(a)'
    <3>0. program \notin Waking
      BY <1>1, <2>0 DEF Node, Waking, Computing
    <3>1. Told(a)' = Told(a) \cup {j} /\ j \notin Told(a)
      BY <1>1, <2>0, <3>0 DEF Told
    <3>2. IsFiniteSet(Told(a)) /\ Cardinality(Told(a)) \in Nat
      BY <1>1, ToldFinite DEF TypeOK
    <3>3. Cardinality(Told(a)') = Cardinality(Told(a)) + 1
      BY <3>1, <3>2, FS_AddElement
    <3>4. k[a] \in Nat
      BY <1>2
    <3> QED
      BY <1>1, <2>0, <3>0, <3>2, <3>3, <3>4 DEF Count
  <2> QED
    BY <2>1, <2>2, <2>3
<1>22. CASE Collect(a) /\ ~(k[a] > 0)
  <2>0. /\ pc[a] = "collect" /\ pc'[a] = pc[a]
        /\ k[a] = 0 /\ k'[a] = k[a] /\ code'[a] = 0 /\ proc'[a] = "zombie"
        /\ \A i \in DOMAIN Kids(a) : proc'[Kids(a)[i]] = proc[Kids(a)[i]]
    BY <1>1, <1>2, <1>3, <1>22 DEF Collect, Runs, Exits
  <2>1. Node(a)'
    BY <1>1, <2>0 DEF Node, Halted, Dead, Waking, Computing, Sleeping
  <2>2. ASSUME NEW i \in DOMAIN Kids(a), NEW c, c = Kids(a)[i] PROVE Edge(a, i, c)'
    <3>1. /\ c \in Everyone /\ c # a /\ i \in Nat /\ i >= 1 /\ i <= Len(Kids(a))
          /\ Edge(a, i, c) /\ Node(c) /\ pc'[c] = pc[c] /\ code'[c] = code[c]
      BY <1>1, <1>3, <2>2
    <3>2. proc'[c] = proc[c]
      BY <2>0, <2>2
    <3> QED
      BY <1>1, <2>0, <3>1, <3>2 DEF Edge, Node, Halted, Dead, Waking, Computing, Sleeping
  <2>3. Count(a)'
    <3>1. Told(a)' = Told(a)
      BY <1>1, <2>0 DEF Told
    <3> QED
      BY <1>1, <2>0, <3>1 DEF Count
  <2> QED
    BY <2>1, <2>2, <2>3
<1>21. CASE a = 0 /\ ShowTree
  <2>0. /\ pc[a] = "ready" /\ k[a] > 1 /\ a = 0
        /\ pc'[a] = "wake"
        /\ k'[a] = 1 /\ code'[a] = code[a] /\ proc'[a] = "running"
        /\ \A i \in DOMAIN Kids(a) : proc'[Kids(a)[i]] = proc[Kids(a)[i]]
    BY <1>1, <1>2, <1>3, <1>4, <1>21 DEF ShowTree, Runs, GoesOn
  <2>9. \A i \in DOMAIN Kids(a) : proc[Kids(a)[i]] = "waited"
    BY <1>1, <1>2, <2>0, AllTold DEF TypeOK
  <2>1. Node(a)'
    BY <1>1, <2>0 DEF Node, Halted, Dead, Waking, Computing, Sleeping
  <2>2. ASSUME NEW i \in DOMAIN Kids(a), NEW c, c = Kids(a)[i] PROVE Edge(a, i, c)'
    <3>1. /\ c \in Everyone /\ c # a /\ i \in Nat /\ i >= 1 /\ i <= Len(Kids(a))
          /\ Edge(a, i, c) /\ Node(c) /\ pc'[c] = pc[c] /\ code'[c] = code[c]
      BY <1>1, <1>3, <2>2
    <3>2. proc'[c] = proc[c]
      BY <2>0, <2>2
    <3> QED
      BY <1>1, <2>0, <3>1, <3>2, <2>9, <2>2 DEF Edge, Node, Halted, Dead, Waking, Computing, Sleeping
  <2>3. Count(a)'
    BY <1>1, <2>0 DEF Count
  <2> QED
    BY <2>1, <2>2, <2>3
<1> QED
  BY <1>1, <1>7, <1>8, <1>9, <1>10, <1>11, <1>12, <1>13, <1>14, <1>15, <1>16, <1>17, <1>18, <1>19, <1>20, <1>21, <1>22 DEF Process
-----------------------------------------------------------------------------
\* The pipes of different parents differ, and so do those of siblings in
\* ask4-pipes.
LEMMA PipeFacts ==
    ASSUME tree \in Trees, program \in Waking
    PROVE  \A n \in Everyone : \A i \in DOMAIN Kids(n) :
              /\ Pipe(Kids(n)[i]) \in Everyone
              /\ \A m \in Everyone : \A j \in DOMAIN Kids(m) :
                    Pipe(Kids(n)[i]) = Pipe(Kids(m)[j]) <=>
                        m = n /\ (program = "ask4-pipes" => i = j)
<1>1. ASSUME NEW n \in Everyone, NEW i \in DOMAIN Kids(n)
      PROVE  Parent(Kids(n)[i]) = n
  BY KidFacts DEF Parent
<1> QED
  BY <1>1, TreeFacts DEF Pipe, Everyone

\* What a process computes with is a number.
LEMMA CombinedInt ==
    ASSUME NEW n, NEW x \in Int, result[n] \in Int, n # 0 => tree.op[n] \in {"+", "*"}
    PROVE  Combined(n, x) \in Int
<1>1. CASE n = 0
  BY <1>1 DEF Combined
<1>2. CASE n # 0 /\ tree.op[n] = "+"
  <2>1. Combined(n, x) = result[n] + x
    BY <1>2 DEF Combined
  <2> QED
    BY <2>1
<1>3. CASE n # 0 /\ tree.op[n] = "*"
  <2>1. Combined(n, x) = result[n] * x
    BY <1>3 DEF Combined
  <2> QED
    BY <2>1
<1> QED
  BY <1>1, <1>2, <1>3

LEMMA FirstResultInt ==
    ASSUME NEW n, tree.num[n] \in Int
    PROVE  FirstResult(n) \subseteq Int
<1>1. CASE Kids(n) = <<>>
  BY <1>1 DEF FirstResult
<1>2. CASE Kids(n) # <<>> /\ tree.op[n] = "other"
  BY <1>2, ProcTreeAssumption DEF FirstResult
<1>3. CASE Kids(n) # <<>> /\ tree.op[n] # "other"
  <2>1. FirstResult(n) = {IF tree.op[n] = "*" THEN 1 ELSE 0}
    BY <1>3 DEF FirstResult
  <2> QED
    BY <2>1
<1> QED
  BY <1>1, <1>2, <1>3

LEMMA TypeStep ==
    ASSUME TypeOK, LocalInv, Next
    PROVE  TypeOK'
<1>1. PICK a \in Everyone : Process(a) \/ (a = 0 /\ ShowTree)
  BY DEF Next, Everyone
<1>2. Moves(a) /\ Node(a) /\ Nodes' = Nodes /\ Everyone' = Everyone
  BY <1>1, Moving DEF LocalInv, Moves, Nodes, Everyone
<1>3. tree \in Trees /\ program \in Programs
  BY DEF TypeOK
<1>4. tree.op \in [Nodes -> {"+", "*", "other"}] /\ tree.num \in [Nodes -> Int]
  BY <1>3, ProcTreeAssumption DEF IsTree, Nodes
<1>5. \A i \in DOMAIN Kids(a) : Kids(a)[i] \in Everyone
  BY <1>3, TreeFacts DEF Everyone
<1>6. proc' \in [Everyone -> ProcStates]
  <2>1. \A m \in Everyone : proc'[m] \in ProcStates
    <3> SUFFICES ASSUME NEW m \in Everyone PROVE proc'[m] \in ProcStates
      OBVIOUS
    <3>1. CASE m = a
      BY <1>2, <3>1 DEF Moves, ProcStates
    <3>2. CASE m \in KidSet(a)
      BY <1>2, <3>2 DEF Moves, ProcStates, TypeOK
    <3>3. CASE m \notin {a} \cup KidSet(a)
      BY <1>2, <3>3 DEF Moves, TypeOK
    <3> QED
      BY <3>1, <3>2, <3>3
  <2>2. proc' = [m \in Everyone |-> proc'[m]]
    BY <1>1 DEF TypeOK, Process, ShowTree, Fork, GiveUp, CanShow, AllForked, ChildReady, ChildDied, Suspend,
                Awake, Wake, Read, Wait, AllWoken, Write, Exit, Collect, Exits
  <2> QED
    BY <2>1, <2>2
<1>7. code' \in [Everyone -> {0, 1}]
  BY <1>1 DEF TypeOK, Process, ShowTree, Fork, GiveUp, CanShow, AllForked, ChildReady, ChildDied, Suspend,
              Awake, Wake, Read, Wait, AllWoken, Write, Exit, Collect, Exits
<1>8. pc' \in [Everyone -> {"fork", "ready", "awake", "wake", "read", "wait",
                            "collect", "write", "exit"}]
  BY <1>1 DEF TypeOK, Process, ShowTree, Fork, GiveUp, CanShow, AllForked, ChildReady, ChildDied, Suspend,
              Awake, Wake, Read, Wait, AllWoken, Write, Exit, Collect, GoesOn
<1>9. k' \in [Everyone -> Nat]
  <2>1. Len(Kids(a)) \in Nat
    BY <1>3, TreeFacts
  <2>2. CASE Collect(a)
    <3>1. k[a] \in Nat /\ (k[a] > 0 => k[a] - 1 \in Nat)
      BY DEF TypeOK
    <3> QED
      BY <2>2, <3>1 DEF TypeOK, Collect
  <2>3. CASE ~Collect(a)
    BY <1>1, <2>1, <2>3 DEF TypeOK, Process, ShowTree, Fork, GiveUp, CanShow, AllForked, ChildReady, ChildDied,
              Suspend, Awake, Wake, Read, Wait, AllWoken, Write, Exit
  <2> QED
    BY <2>2, <2>3
<1>10. result' \in [Everyone -> Int] /\ pipe' \in [Everyone -> Seq(Int)]
  <2>1. CASE Read(a)
    <3>1. k[a] \in DOMAIN Kids(a) /\ program \in Computing
      BY <1>2, <1>3, <2>1, TreeFacts, ProcTreeAssumption DEF Node, Read, Runs, Waking, Computing, Sleeping
    <3> DEFINE p == Pipe(Kids(a)[k[a]])
    <3>2. p \in Everyone
      BY <1>3, <3>1, PipeFacts DEF Waking, Computing, Sleeping
    <3>3. pipe[p] \in Seq(Int) /\ pipe[p] # <<>>
      BY <2>1, <3>2 DEF TypeOK, Read
    <3>4. Head(pipe[p]) \in Int /\ Tail(pipe[p]) \in Seq(Int)
      BY <3>3
    <3>5. Combined(a, Head(pipe[p])) \in Int
      <4>1. a # 0 => tree.op[a] \in {"+", "*"}
        BY <1>2, <1>4, <2>1, <3>1 DEF Node, Read, Runs, Everyone
      <4>2. result[a] \in Int
        BY DEF TypeOK
      <4> QED
        BY <3>4, <4>1, <4>2, CombinedInt
    <3>6. /\ result' = [result EXCEPT ![a] = Combined(a, Head(pipe[p]))]
          /\ pipe' = [pipe EXCEPT ![p] = Tail(@)]
      BY <2>1 DEF Read
    <3> HIDE DEF p
    <3> QED
      BY <3>2, <3>4, <3>5, <3>6 DEF TypeOK
  <2>2. CASE Awake(a)
    <3>1. a \in Nodes
      BY <1>2, <2>2 DEF Node, Awake, Runs, Everyone
    <3>2. FirstResult(a) \subseteq Int
      BY <1>4, <3>1, FirstResultInt
    <3> QED
      BY <2>2, <3>2 DEF TypeOK, Awake
  <2>3. CASE Write(a)
    <3>1. result[a] \in Int
      BY DEF TypeOK
    <3>2. a \in Nodes /\ program \in Waking
      BY <1>2, <1>3, <2>3, ProcTreeAssumption DEF Node, Write, Runs, Everyone
    <3>3. Pipe(a) \in Everyone
      BY <1>3, <3>2, BelowFacts, PipeFacts
    <3>4. Append(pipe[Pipe(a)], result[a]) \in Seq(Int)
      BY <3>1, <3>3 DEF TypeOK
    <3> QED
      BY <2>3, <3>3, <3>4 DEF TypeOK, Write
  <2>4. CASE ~Read(a) /\ ~Awake(a) /\ ~Write(a)
    BY <1>1, <2>4 DEF TypeOK, Process, ShowTree, Fork, GiveUp, CanShow, AllForked, ChildReady, ChildDied,
              Suspend, Wake, Wait, AllWoken, Exit, Collect
  <2> QED
    BY <2>1, <2>2, <2>3, <2>4
<1> QED
  BY <1>2, <1>3, <1>6, <1>7, <1>8, <1>9, <1>10 DEF TypeOK, Moves
-----------------------------------------------------------------------------
\* Below a process all of whose children sleep or have answered, nothing runs.
LEMMA KidsSettled ==
    ASSUME tree \in Trees, LocalInv, program \in Waking, \A n \in Nodes : Settled(n), NEW a \in Nodes
    PROVE  /\ (\A i \in DOMAIN Kids(a) : proc[Kids(a)[i]] = "waited") =>
                 \A m \in tree.below[a] : proc[m] \in Halted
           /\ (\A i \in DOMAIN Kids(a) : proc[Kids(a)[i]] = "waited"
                                         \/ (proc[Kids(a)[i]] = "gone" /\ code[Kids(a)[i]] = 0)) =>
                 \A m \in tree.below[a] : proc[m] \in Halted \cup {"gone"}
<1>1. ASSUME NEW m \in tree.below[a]
      PROVE  \E i \in DOMAIN Kids(a) : Kids(a)[i] \in Nodes /\ m \in With(Kids(a)[i])
  <2>1. PICK i \in DOMAIN Kids(a) : m \in With(Kids(a)[i])
    BY BelowFacts
  <2>2. Kids(a)[i] \in Nodes
    BY TreeFacts DEF Everyone
  <2> QED
    BY <2>1, <2>2
<1>2. ASSUME NEW c \in Nodes, proc[c] = "waited"
      PROVE  \A m \in With(c) : proc[m] \in Halted
  <2>1. pc[c] = "awake"
    BY <1>2 DEF LocalInv, Node, Halted, Everyone
  <2> QED
    BY <1>2, <2>1 DEF Settled, With, Halted
<1>3. ASSUME NEW c \in Nodes, proc[c] = "gone", code[c] = 0
      PROVE  \A m \in With(c) : proc[m] \in Halted \cup {"gone"}
  BY <1>3 DEF Settled, With, Dead
<1> QED
  BY <1>1, <1>2, <1>3

\* The steps after which a process is settled for the first or another time.
LEMMA Settling ==
    ASSUME TypeOK, LocalInv, \A n \in Nodes : Settled(n),
           NEW a \in Nodes, Process(a), program \in Waking
    PROVE  /\ pc'[a] = "awake" =>
                 /\ proc' = [proc EXCEPT ![a] = "stopped"]
                 /\ \A m \in tree.below[a] : proc[m] \in Halted
           /\ pc'[a] \in {"write", "exit"} \/ (proc'[a] \in Dead /\ code'[a] = 0) =>
                 /\ \A m \in Everyone \ {a} : proc'[m] = proc[m]
                 /\ \A m \in tree.below[a] : proc[m] \in Halted \cup {"gone"}
<1>0. /\ a \in Everyone /\ tree \in Trees /\ a # 0
      /\ DOMAIN Kids(a) = 1 .. Len(Kids(a)) /\ Len(Kids(a)) \in Nat
  BY TreeFacts DEF TypeOK, Everyone
<1>1. Moves(a) /\ Node(a) /\ Count(a) /\ k[a] \in Nat
  BY <1>0, Moving DEF LocalInv, TypeOK
<1>2. \A i \in DOMAIN Kids(a) : Edge(a, i, Kids(a)[i])
  BY <1>0 DEF LocalInv
<1>3. pc[a] = "awake" => \A m \in tree.below[a] : proc[m] \in Halted
  BY DEF Settled
<1>4. pc[a] \in {"write", "exit"} => \A m \in tree.below[a] : proc[m] \in Halted \cup {"gone"}
  BY DEF Settled
<1>5. pc[a] = "wake" /\ k[a] > Len(Kids(a)) =>
          \A m \in tree.below[a] : proc[m] \in Halted \cup {"gone"}
  <2>1. ASSUME pc[a] = "wake", k[a] > Len(Kids(a)), NEW i \in DOMAIN Kids(a)
        PROVE  proc[Kids(a)[i]] = "gone" /\ code[Kids(a)[i]] = 0
    BY <1>0, <1>1, <1>2, <2>1 DEF Edge
  <2> QED
    BY <1>0, <2>1, KidsSettled
<1>6. pc[a] = "ready" /\ k[a] > Len(Kids(a)) => \A m \in tree.below[a] : proc[m] \in Halted
  <2>1. ASSUME pc[a] = "ready", k[a] > Len(Kids(a)), NEW i \in DOMAIN Kids(a)
        PROVE  proc[Kids(a)[i]] = "waited"
    BY <1>0, <1>1, <2>1, AllTold
  <2> QED
    BY <1>0, <2>1, KidsSettled
<1>7. /\ proc \in [Everyone -> ProcStates] /\ code \in [Everyone -> {0, 1}]
      /\ pc \in [Everyone -> {"fork", "ready", "awake", "wake", "read", "wait",
                              "collect", "write", "exit"}]
  BY DEF TypeOK
<1>8. CASE Suspend(a)
  BY <1>0, <1>6, <1>7, <1>8 DEF Suspend, Runs, GoesOn, Dead
<1>9. CASE Awake(a)
  BY <1>0, <1>3, <1>7, <1>9 DEF Awake, Runs, GoesOn, Dead
<1>10. CASE AllWoken(a)
  BY <1>0, <1>5, <1>7, <1>10 DEF AllWoken, Runs, GoesOn, Exits
<1>11. CASE Write(a)
  BY <1>0, <1>4, <1>7, <1>11 DEF Write, Runs, GoesOn
<1>12. CASE Exit(a)
  BY <1>0, <1>4, <1>7, <1>12 DEF Exit, Runs, Exits
<1>13. CASE Fork(a) \/ ChildReady(a) \/ AllForked(a) \/ Wake(a) \/ Read(a) \/ Wait(a)
  <2>1. pc'[a] \notin {"awake", "write", "exit"}
    BY <1>0, <1>7, <1>13 DEF Fork, ChildReady, AllForked, Wake, Read, Wait, Runs, GoesOn
  <2>2. proc'[a] = "running"
    <3>1. Kids(a)[k[a]] # a \/ k[a] \notin DOMAIN Kids(a)
      BY <1>0, KidFacts
    <3>2. a \notin KidSet(a) /\ proc[a] = "running"
      BY <1>0, <1>1, KidFacts DEF Moves
    <3>3. Fork(a) \/ Wake(a) => k[a] \in DOMAIN Kids(a)
      BY <1>0, <1>1 DEF Fork, Wake, Runs, Node
    <3> QED
      BY <1>0, <1>7, <1>13, <3>1, <3>2, <3>3 DEF Fork, ChildReady, AllForked, Wake, Read, Wait
  <2> QED
    BY <2>1, <2>2 DEF Dead
<1>14. CASE GiveUp(a) \/ ChildDied(a)
  BY <1>0, <1>7, <1>14 DEF GiveUp, CanShow, ChildDied, Runs, Exits
<1>15. ~Collect(a)
  BY <1>1 DEF Collect, Runs, Node, Waking, Computing, Sleeping
<1> QED
  BY <1>8, <1>9, <1>10, <1>11, <1>12, <1>13, <1>14, <1>15 DEF Process

LEMMA SettledStep ==
    ASSUME TypeOK, LocalInv, \A n \in Nodes : Settled(n),
           NEW a \in Everyone, Process(a) \/ (a = 0 /\ ShowTree), NEW n \in Nodes
    PROVE  Settled(n)'
<1>0. /\ Moves(a) /\ tree \in Trees /\ n \in Everyone /\ n # 0 /\ 0 \notin Nodes
      /\ program' = program /\ tree' = tree /\ proc[a] = "running"
  <2>1. Moves(a)
    BY Moving
  <2> QED
    BY <2>1, TreeFacts DEF TypeOK, Everyone, Moves
<1>1. SUFFICES ASSUME program \in Waking PROVE Settled(n)'
  BY <1>0 DEF Settled
<1>2. tree.below[n] \subseteq Nodes /\ n \notin tree.below[n] /\ tree.root \notin tree.below[n]
  BY <1>0, BelowFacts
<1>3. CASE n = a
  <2>1. Process(a)
    BY <1>0, <1>3
  <2>2. \A m \in tree.below[a] : m \in Everyone \ {a}
    BY <1>2, <1>3 DEF Everyone
  <2>3. /\ pc'[a] = "awake" => \A m \in tree.below[a] : proc'[m] \in Halted
        /\ pc'[a] \in {"write", "exit"} \/ (proc'[a] \in Dead /\ code'[a] = 0) =>
              \A m \in tree.below[a] : proc'[m] \in Halted \cup {"gone"}
    BY <1>1, <1>3, <2>1, <2>2, Settling DEF TypeOK
  <2> QED
    BY <1>0, <1>3, <2>3 DEF Settled
<1>4. CASE n # a
  <2>1. pc'[n] = pc[n] /\ code'[n] = code[n]
    BY <1>0, <1>4 DEF Moves
  <2>2. proc'[n] \in Dead => proc[n] \in Dead
    <3>1. CASE n \in KidSet(a)
      BY <1>0, <3>1 DEF Moves, Dead
    <3>2. CASE n \notin KidSet(a)
      BY <1>0, <1>4, <3>2 DEF Moves
    <3> QED
      BY <3>1, <3>2
  <2>3. ASSUME \A m \in tree.below[n] : proc[m] \in Halted \cup {"gone"}
        PROVE  \A m \in tree.below[n] : proc'[m] = proc[m]
    <3> SUFFICES ASSUME NEW m \in tree.below[n] PROVE proc'[m] = proc[m]
      OBVIOUS
    <3>1. a \notin tree.below[n]
      BY <1>0, <2>3 DEF Halted
    <3>2. m \in Everyone \ {a}
      BY <1>2, <3>1 DEF Everyone
    <3>3. m \notin KidSet(a)
      <4>1. SUFFICES ASSUME m \in KidSet(a) PROVE FALSE
        OBVIOUS
      <4>2. PICK i \in DOMAIN Kids(a) : m = Kids(a)[i]
        BY <4>1 DEF KidSet
      <4>3. CASE a = 0
        BY <1>0, <1>2, <4>2, <4>3, TreeFacts
      <4>4. CASE a \in Nodes
        <5>1. a \in With(n)
          BY <1>0, <4>2, <4>4, BelowFacts
        <5> QED
          BY <1>4, <3>1, <5>1 DEF With
      <4> QED
        BY <4>3, <4>4 DEF Everyone
    <3> QED
      BY <1>0, <3>2, <3>3 DEF Moves
  <2>4. Settled(n)
    OBVIOUS
  <2> QED
    BY <1>0, <1>1, <2>1, <2>2, <2>3, <2>4 DEF Settled
<1> QED
  BY <1>3, <1>4

\* Only Wake puts one more process on the branch that is awake, below its parent.
LEMMA OneBranchStep ==
    ASSUME TypeOK, LocalInv, \A n \in Nodes : Settled(n), OneBranchAwake,
           NEW a \in Everyone, Process(a) \/ (a = 0 /\ ShowTree)
    PROVE  OneBranchAwake'
<1>0. /\ Moves(a) /\ Node(a) /\ tree \in Trees /\ 0 \notin Nodes /\ k[a] \in Nat
      /\ program' = program /\ tree' = tree /\ Nodes' = Nodes
      /\ DOMAIN Kids(a) = 1 .. Len(Kids(a)) /\ Len(Kids(a)) \in Nat
  <2>1. Moves(a)
    BY Moving
  <2> QED
    BY <2>1, TreeFacts DEF TypeOK, LocalInv, Everyone, Moves, Nodes
<1>1. SUFFICES ASSUME program \in Waking PROVE OneBranchAwake'
  BY <1>0 DEF OneBranchAwake
<1>2. /\ proc \in [Everyone -> ProcStates]
      /\ pc \in [Everyone -> {"fork", "ready", "awake", "wake", "read", "wait",
                              "collect", "write", "exit"}]
  BY DEF TypeOK
<1>3. ASSUME ~Wake(a), NEW n \in Nodes, Woken(n)'
      PROVE  Woken(n)
  <2>1. CASE n = a
    <3>1. Process(a)
      BY <1>0, <2>1
    <3>2. proc[a] = "running"
      BY <1>0 DEF Moves
    <3>3. pc[a] \notin {"fork", "ready", "collect"}
      <4>1. ~Collect(a) /\ pc[a] # "collect"
        BY <1>0, <1>1 DEF Collect, Runs, Node, Waking, Computing, Sleeping
      <4>2. proc'[a] # "stopped"
        BY <1>3, <2>1 DEF Woken
      <4>3. pc'[a] \notin {"fork", "ready", "collect"}
        BY <1>3, <2>1 DEF Woken
      <4>4. pc'[a] # "awake"
        BY <1>0, <4>2 DEF Moves
      <4> QED
        BY <1>0, <1>1, <2>1, <4>1, <4>3, <4>4 DEF Moves, Waking, Sleeping
    <3> QED
      BY <1>2, <2>1, <3>2, <3>3 DEF Woken, Everyone
  <2>2. CASE n \in KidSet(a)
    <3>1. proc'[n] = proc[n] \/ proc[n] = "none"
      <4>1. PICK i \in DOMAIN Kids(a) : n = Kids(a)[i]
        BY <2>2 DEF KidSet
      <4>2. proc'[n] = "running" /\ proc[n] = "waited" => FALSE
        <5>1. SUFFICES ASSUME proc'[n] = "running", proc[n] = "waited" PROVE FALSE
          OBVIOUS
        <5>2. n # a
          BY <1>0, <2>2, KidFacts
        <5>3. CASE Fork(a)
          <6>1. k[a] \in DOMAIN Kids(a) /\ pc[a] = "fork"
            BY <1>0, <5>3 DEF Fork, Runs, Node
          <6>2. proc[Kids(a)[k[a]]] = "none"
            BY <1>0, <6>1 DEF LocalInv, Edge
          <6>3. n # Kids(a)[k[a]]
            BY <5>1, <6>2
          <6> QED
            BY <1>2, <5>1, <5>3, <6>3 DEF Fork, Everyone
        <5>4. CASE ChildReady(a) \/ ChildDied(a) \/ Wait(a)
          BY <1>2, <5>1, <5>2, <5>4 DEF ChildReady, ChildDied, Wait, OnWait, Everyone
        <5>5. CASE Collect(a)
          BY <1>2, <5>1, <5>2, <5>5 DEF Collect, Exits, OnWait, Everyone
        <5>6. CASE GiveUp(a) \/ AllForked(a) \/ Suspend(a) \/ Awake(a) \/ Read(a) \/ AllWoken(a)
                   \/ Write(a) \/ Exit(a) \/ ShowTree
          BY <1>2, <5>1, <5>2, <5>6 DEF GiveUp, CanShow, AllForked, Suspend, Awake, Read, AllWoken, Write, Exit,
             ShowTree, Exits, Everyone
        <5> QED
          BY <1>0, <1>3, <5>3, <5>4, <5>5, <5>6 DEF Process
      <4>3. proc'[n] \in {"running", "zombie"}
        BY <1>3 DEF Woken
      <4> QED
        BY <1>0, <2>2, <4>2, <4>3 DEF Moves
    <3>2. n # a /\ pc'[n] = pc[n] /\ Node(n)
      BY <1>0, <2>2, KidFacts DEF Moves, LocalInv, Everyone
    <3>3. proc[n] # "none"
      BY <1>3, <3>2 DEF Woken, Node
    <3> QED
      BY <1>3, <3>1, <3>2, <3>3 DEF Woken
  <2>3. CASE n # a /\ n \notin KidSet(a)
    BY <1>0, <1>3, <2>3 DEF Woken, Moves, Everyone
  <2> QED
    BY <2>1, <2>2, <2>3
<1>4. CASE ~Wake(a)
  BY <1>0, <1>1, <1>3, <1>4 DEF OneBranchAwake
<1>5. CASE Wake(a)
  <2> DEFINE c == Kids(a)[k[a]]
  <2>1. k[a] \in DOMAIN Kids(a) /\ pc[a] = "wake" /\ proc[a] = "running"
    BY <1>0, <1>5 DEF Wake, Runs, Node
  <2>2. c \in Nodes /\ c \in Everyone /\ c # a
    BY <1>0, <2>1, TreeFacts, KidFacts DEF Everyone
  <2>3. proc' = [proc EXCEPT ![c] = OnCont(@)]
        /\ pc' = [pc EXCEPT ![a] = IF program \in Computing THEN "read" ELSE "wait"]
    BY <1>5 DEF Wake, GoesOn
  <2>4. \A i \in DOMAIN Kids(a) : Edge(a, i, Kids(a)[i])
    BY DEF LocalInv
  <2>5. ASSUME NEW n \in Nodes, Woken(n)', n # c
        PROVE  Woken(n)
    <3> HIDE DEF c
    <3> QED
      BY <1>2, <2>1, <2>2, <2>3, <2>5 DEF Woken, Everyone
  <2>6. ASSUME NEW i \in DOMAIN Kids(a)
        PROVE  proc[Kids(a)[i]] = "waited" \/ (proc[Kids(a)[i]] = "gone" /\ code[Kids(a)[i]] = 0)
    BY <1>0, <1>1, <2>1, <2>4 DEF Edge
  <2>7. \A m \in Nodes : m \in tree.below[c] => proc[m] \in Halted
    <3>1. proc[c] = "waited"
      BY <1>0, <1>1, <2>1, <2>4 DEF Edge
    <3>2. pc[c] = "awake"
      BY <2>2, <3>1 DEF LocalInv, Node, Halted
    <3> HIDE DEF c
    <3> QED
      BY <1>1, <2>2, <3>2 DEF Settled
  <2>8. ASSUME NEW n \in Nodes, Woken(n), n # c
        PROVE  c \in tree.below[n]
    <3>1. proc[n] \notin Halted \cup {"gone"}
      BY <2>8 DEF Woken, Halted
    <3>2. CASE a = 0
      <4>1. c = tree.root
        BY <1>0, <2>1, <3>2, TreeFacts
      <4>2. n \in tree.below[c]
        BY <1>0, <2>8, <4>1, BelowFacts DEF With
      <4> QED
        BY <2>7, <3>1, <4>2
    <3>3. CASE a \in Nodes
      <4>1. Woken(a)
        BY <2>1 DEF Woken
      <4>2. n = a \/ n \in tree.below[a] \/ a \in tree.below[n]
        BY <1>1, <2>8, <3>3, <4>1 DEF OneBranchAwake
      <4>3. n \notin tree.below[a]
        BY <1>0, <1>1, <2>6, <3>1, <3>3, KidsSettled
      <4>4. a \in With(n)
        BY <4>2, <4>3 DEF With
      <4> QED
        BY <1>0, <2>1, <2>8, <3>3, <4>4, BelowFacts
    <3> QED
      BY <3>2, <3>3 DEF Everyone
  <2> HIDE DEF c
  <2> QED
    BY <1>0, <1>1, <2>5, <2>8 DEF OneBranchAwake
<1> QED
  BY <1>4, <1>5

\* The child that its parent waits for is the one that writes, and nobody else
\* touches the pipe between them.
LEMMA AnswerStep ==
    ASSUME TypeOK, LocalInv, \A n \in Everyone : Answer(n),
           NEW a \in Everyone, Process(a) \/ (a = 0 /\ ShowTree), NEW n \in Everyone
    PROVE  Answer(n)'
<1>0. /\ Moves(a) /\ Node(a) /\ Node(n) /\ tree \in Trees /\ k[a] \in Nat /\ k[n] \in Nat
      /\ program' = program /\ tree' = tree
      /\ \A m : Kids(m)' = Kids(m)
      /\ \A c : Pipe(c)' = Pipe(c)
      /\ DOMAIN Kids(a) = 1 .. Len(Kids(a)) /\ Len(Kids(a)) \in Nat
      /\ DOMAIN Kids(n) = 1 .. Len(Kids(n)) /\ Len(Kids(n)) \in Nat
  <2>1. Moves(a)
    BY Moving
  <2>2. Everyone' = Everyone /\ \A m : Kids(m)' = Kids(m)
    BY <2>1 DEF Moves, Everyone, Nodes, Kids
  <2>3. \A m : KidSet(m)' = KidSet(m)
    BY <2>2 DEF KidSet
  <2>4. \A c : Parent(c)' = Parent(c)
    BY <2>2, <2>3 DEF Parent
  <2> QED
    BY <2>1, <2>2, <2>4, TreeFacts DEF TypeOK, LocalInv, Moves, Pipe
<1>1. SUFFICES ASSUME program \in Waking PROVE Answer(n)'
  BY <1>0 DEF Answer
<1> DEFINE c == Kids(n)[k[n]]
           Full(i) == pc[n] = "read" /\ pc[c] = "exit" /\ (program = "ask4-pipes" => i = k[n])
<1>2. /\ program \in Computing /\ pc[n] = "wait" => pc[c] = "exit"
      /\ \A i \in DOMAIN Kids(n) :
            pipe[Pipe(Kids(n)[i])] = IF Full(i) THEN <<result[c]>> ELSE <<>>
  BY <1>1 DEF Answer
<1>3. /\ result \in [Everyone -> Int] /\ pipe \in [Everyone -> Seq(Int)]
      /\ proc \in [Everyone -> ProcStates]
      /\ pc \in [Everyone -> {"fork", "ready", "awake", "wake", "read", "wait",
                              "collect", "write", "exit"}]
  BY DEF TypeOK
<1>4. pc[n] \in {"read", "wait"} => k[n] \in DOMAIN Kids(n) /\ c \in Nodes /\ c \in Everyone /\ c # n
  BY <1>0, TreeFacts, KidFacts DEF Node, Everyone
<1>5. \A i \in DOMAIN Kids(n) : Pipe(Kids(n)[i]) \in Everyone
  BY <1>0, <1>1, PipeFacts
<1>6. program \in Computing <=> program # "ask3-signals"
  BY <1>1 DEF Waking, Computing, Sleeping
<1> DEFINE c1 == Kids(n)[k'[n]]
           Full1(i) == pc'[n] = "read" /\ pc'[c1] = "exit" /\ (program = "ask4-pipes" => i = k'[n])
<1>7. SUFFICES /\ program \in Computing /\ pc'[n] = "wait" => pc'[c1] = "exit"
               /\ \A i \in DOMAIN Kids(n) :
                     pipe'[Pipe(Kids(n)[i])] = IF Full1(i) THEN <<result'[c1]>> ELSE <<>>
  BY <1>0 DEF Answer
<1>8. CASE Read(a)
  <2>1. /\ pc[a] = "read" /\ k' = k /\ pc' = [pc EXCEPT ![a] = "wait"]
        /\ \A m \in Everyone \ {a} : result'[m] = result[m]
        /\ pipe[Pipe(Kids(a)[k[a]])] # <<>>
        /\ pipe' = [pipe EXCEPT ![Pipe(Kids(a)[k[a]])] = Tail(@)]
    BY <1>3, <1>8 DEF Read, Runs, GoesOn
  <2>2. k[a] \in DOMAIN Kids(a)
    BY <1>0, <2>1 DEF Node
  <2>3. CASE n = a
    <3>1. Full(k[n]) /\ pipe[Pipe(c)] = <<result[c]>>
      BY <1>2, <2>1, <2>2, <2>3
    <3>2. pc'[c1] = "exit" /\ c1 = c /\ pc'[n] = "wait"
      BY <1>3, <1>4, <2>1, <2>3, <3>1
    <3>3. ASSUME NEW i \in DOMAIN Kids(n)
          PROVE  pipe'[Pipe(Kids(n)[i])] = <<>>
      <4>1. CASE Pipe(Kids(n)[i]) = Pipe(c)
        <5>1. pipe'[Pipe(c)] = Tail(<<result[c]>>)
          BY <1>3, <1>5, <2>1, <2>2, <2>3, <3>1
        <5>2. Tail(<<result[c]>>) = <<>>
          OBVIOUS
        <5> QED
          BY <4>1, <5>1, <5>2
      <4>2. CASE Pipe(Kids(n)[i]) # Pipe(c)
        <5>1. ~Full(i)
          BY <1>0, <1>1, <2>2, <2>3, <4>2, PipeFacts
        <5>2. pipe'[Pipe(Kids(n)[i])] = pipe[Pipe(Kids(n)[i])]
          BY <1>3, <1>5, <2>1, <2>3, <4>2
        <5> QED
          BY <1>2, <5>1, <5>2
      <4> QED
        BY <4>1, <4>2
    <3> QED
      BY <3>2, <3>3
  <2>4. CASE n # a
    <3>1. c1 = c /\ pc'[n] = pc[n] /\ k'[n] = k[n]
      BY <1>3, <2>1, <2>4
    <3>2. pc[n] \in {"read", "wait"} => (pc'[c] = "exit" <=> pc[c] = "exit")
                                        /\ (pc[c] = "exit" => result'[c] = result[c])
      BY <1>3, <1>4, <2>1
    <3>3. \A i \in DOMAIN Kids(n) : pipe'[Pipe(Kids(n)[i])] = pipe[Pipe(Kids(n)[i])]
      <4>1. \A i \in DOMAIN Kids(n) : Pipe(Kids(n)[i]) # Pipe(Kids(a)[k[a]])
        BY <1>0, <1>1, <2>2, <2>4, PipeFacts
      <4> QED
        BY <1>3, <1>5, <2>1, <4>1
    <3> HIDE DEF c, c1
    <3> QED
      BY <1>2, <3>1, <3>2, <3>3
  <2> QED
    BY <2>3, <2>4
<1>9. CASE Write(a)
  <2>1. /\ pc[a] = "write" /\ proc[a] = "running" /\ k' = k /\ result' = result
        /\ pc' = [pc EXCEPT ![a] = "exit"]
        /\ pipe' = [pipe EXCEPT ![Pipe(a)] = Append(@, result[a])]
    BY <1>9 DEF Write, Runs, GoesOn
  <2>2. a \in Nodes
    BY <1>0, <2>1 DEF Node, Everyone
  <2>3. PICK p \in Everyone : \E j \in DOMAIN Kids(p) : Kids(p)[j] = a
    BY <1>0, <2>2, BelowFacts
  <2>4. PICK j \in DOMAIN Kids(p) : Kids(p)[j] = a
    BY <2>3
  <2>5. p # a /\ pc[p] = "read" /\ j = k[p] /\ program \in Computing
    <3>1. Edge(p, j, a) /\ Node(p) /\ j \in Nat /\ k[p] \in Nat
      BY <1>0, <2>4, TreeFacts DEF LocalInv, TypeOK
    <3>2. program \in Computing
      BY <1>0, <1>1, <2>1 DEF Node, Waking, Computing, Sleeping
    <3>3. p # a
      BY <1>0, <2>4, KidFacts
    <3>4. pc[p] \in {"read", "wait"} /\ j = k[p]
      BY <1>1, <1>3, <2>1, <3>1, <3>2 DEF Edge, Node
    <3>5. pc[p] # "wait"
      BY <1>1, <2>1, <2>4, <3>2, <3>4 DEF Answer
    <3> QED
      BY <3>2, <3>3, <3>4, <3>5
  <2>6. CASE n = p
    <3>1. c = a /\ c1 = a /\ pc'[n] = "read" /\ pc'[c1] = "exit" /\ k'[n] = k[n]
      BY <1>3, <2>1, <2>4, <2>5, <2>6
    <3>2. pipe[Pipe(a)] = <<>>
      BY <1>2, <2>1, <2>4, <2>5, <2>6, <3>1
    <3>3. Pipe(a) \in Everyone
      BY <1>5, <2>4, <2>6
    <3>4. pipe'[Pipe(a)] = <<result[a]>>
      <4>1. pipe'[Pipe(a)] = Append(<<>>, result[a])
        BY <1>3, <2>1, <3>2, <3>3
      <4>2. Append(<<>>, result[a]) = <<result[a]>>
        BY <1>3
      <4> QED
        BY <4>1, <4>2
    <3>5. ASSUME NEW i \in DOMAIN Kids(n)
          PROVE  pipe'[Pipe(Kids(n)[i])] = IF Full1(i) THEN <<result'[c1]>> ELSE <<>>
      <4>1. CASE Pipe(Kids(n)[i]) = Pipe(a)
        <5>1. Full1(i)
          BY <1>0, <1>1, <2>4, <2>5, <2>6, <3>1, <4>1, PipeFacts
        <5> HIDE DEF c1
        <5> QED
          BY <2>1, <3>1, <3>4, <4>1, <5>1
      <4>2. CASE Pipe(Kids(n)[i]) # Pipe(a)
        <5>1. ~Full1(i) /\ ~Full(i)
          BY <1>0, <1>1, <2>4, <2>5, <2>6, <3>1, <4>2, PipeFacts
        <5>2. pipe'[Pipe(Kids(n)[i])] = pipe[Pipe(Kids(n)[i])]
          BY <1>3, <1>5, <2>1, <3>3, <4>2
        <5> QED
          BY <1>2, <5>1, <5>2
      <4> QED
        BY <4>1, <4>2
    <3> QED
      BY <3>1, <3>5
  <2>7. CASE n # p
    <3>1. c1 = c /\ k'[n] = k[n] /\ (pc'[n] = pc[n] \/ (n = a /\ pc[n] = "write" /\ pc'[n] = "exit"))
      BY <1>3, <2>1
    <3>2. pc[n] \in {"read", "wait"} => c # a
      BY <1>0, <1>4, <2>4, <2>7, TreeFacts
    <3>3. pc[n] \in {"read", "wait"} => pc'[c] = pc[c]
      BY <1>3, <1>4, <2>1, <3>2
    <3>4. \A i \in DOMAIN Kids(n) : pipe'[Pipe(Kids(n)[i])] = pipe[Pipe(Kids(n)[i])]
      <4>1. \A i \in DOMAIN Kids(n) : Pipe(Kids(n)[i]) # Pipe(a)
        BY <1>0, <1>1, <2>4, <2>7, PipeFacts
      <4>2. Pipe(a) \in Everyone
        BY <1>0, <1>1, <2>4, PipeFacts
      <4> QED
        BY <1>3, <1>5, <2>1, <4>1, <4>2
    <3> HIDE DEF c, c1
    <3> QED
      BY <1>2, <2>1, <3>1, <3>3, <3>4
  <2> QED
    BY <2>6, <2>7
<1>10. CASE ~Read(a) /\ ~Write(a)
  <2>1. pipe' = pipe
    BY <1>0, <1>10 DEF Process, ShowTree, Fork, GiveUp, CanShow, AllForked, ChildReady, ChildDied, Suspend,
                       Awake, Wake, Wait, AllWoken, Exit, Collect
  <2>2. /\ pc[a] # "read" /\ pc[a] # "write"
        /\ pc'[a] = "exit" <=> pc[a] = "exit"
        /\ program \in Computing => pc'[a] # "wait"
    BY <1>0, <1>1, <1>3, <1>10 DEF Process, ShowTree, Fork, GiveUp, CanShow, AllForked, ChildReady, ChildDied,
          Suspend, Awake, Wake, Wait, AllWoken, Exit, Collect, Runs, GoesOn, Exits, Waking, Computing, Sleeping
  <2>3. \A m \in Everyone : m # a \/ pc[a] = "exit" => result'[m] = result[m]
    BY <1>0, <1>3, <1>10 DEF Process, ShowTree, Fork, GiveUp, CanShow, AllForked, ChildReady, ChildDied,
          Suspend, Awake, Wake, Wait, AllWoken, Exit, Collect, Runs
  <2>4. CASE n = a
    <3>1. \A i \in DOMAIN Kids(n) : ~Full(i) /\ pipe[Pipe(Kids(n)[i])] = <<>>
      BY <1>2, <2>2, <2>4
    <3>2. pc'[n] = "read" => pc'[c1] # "exit"
      <4>1. SUFFICES ASSUME pc'[n] = "read" PROVE pc'[c1] # "exit"
        OBVIOUS
      <4>2. Wake(a)
        BY <1>0, <1>3, <1>10, <2>2, <2>4, <4>1 DEF Process, ShowTree, Fork, GiveUp, CanShow, AllForked,
           ChildReady, ChildDied, Suspend, Awake, Wait, AllWoken, Exit, Collect, GoesOn, Exits
      <4>3. k[a] \in DOMAIN Kids(a) /\ pc[a] = "wake" /\ k' = k
        BY <1>0, <4>2 DEF Wake, Runs, Node
      <4>4. c1 \in Everyone /\ c1 # a /\ Edge(a, k[a], c1) /\ Node(c1)
        BY <1>0, <2>4, <4>3, TreeFacts, KidFacts DEF LocalInv, Everyone
      <4>5. pc[c1] = "awake"
        BY <1>0, <1>1, <4>3, <4>4 DEF Edge, Node, Halted
      <4>6. pc'[c1] = pc[c1]
        BY <1>0, <4>4 DEF Moves
      <4> QED
        BY <4>5, <4>6
    <3> HIDE DEF c, c1
    <3> QED
      BY <2>1, <2>2, <2>4, <3>1, <3>2
  <2>5. CASE n # a
    <3>1. c1 = c /\ pc'[n] = pc[n] /\ k'[n] = k[n]
      BY <1>0, <2>5 DEF Moves
    <3>2. pc[n] \in {"read", "wait"} => (pc'[c] = "exit" <=> pc[c] = "exit")
                                        /\ (pc[c] = "exit" => result'[c] = result[c])
      <4>1. SUFFICES ASSUME pc[n] \in {"read", "wait"}
                     PROVE  (pc'[c] = "exit" <=> pc[c] = "exit")
                            /\ (pc[c] = "exit" => result'[c] = result[c])
        OBVIOUS
      <4>2. c \in Everyone
        BY <1>4, <4>1
      <4> HIDE DEF c
      <4>3. CASE c = a
        BY <2>2, <2>3, <4>2, <4>3
      <4>4. CASE c # a
        BY <1>0, <2>3, <4>2, <4>4 DEF Moves
      <4> QED
        BY <4>3, <4>4
    <3> HIDE DEF c, c1
    <3> QED
      BY <1>2, <2>1, <3>1, <3>2
  <2> QED
    BY <2>4, <2>5
<1> QED
  BY <1>8, <1>9, <1>10
-----------------------------------------------------------------------------
LEMMA TreeInit == Init => TreeInv
<1> SUFFICES ASSUME Init PROVE TreeInv
  OBVIOUS
<1>1. /\ program \in Programs /\ tree \in Trees /\ 0 \in Everyone /\ 0 \notin Nodes
      /\ \A n \in Everyone : /\ proc[n] = IF n = 0 THEN "running" ELSE "none"
                             /\ code[n] = 0 /\ pc[n] = "fork" /\ k[n] = 1
                             /\ result[n] = 0 /\ pipe[n] = <<>>
  BY TreeFacts DEF Init, Everyone
<1>2. TypeOK
  BY <1>1 DEF Init, TypeOK, ProcStates
<1>3. LocalInv
  <2>1. ASSUME NEW n \in Everyone PROVE Node(n) /\ Count(n)
    <3>1. Len(Kids(n)) \in Nat
      BY <1>1, TreeFacts
    <3> QED
      BY <1>1, <3>1 DEF Node, Count, Halted, Dead
  <2>2. ASSUME NEW m \in Everyone, NEW i \in DOMAIN Kids(m), NEW c, c = Kids(m)[i]
        PROVE  Edge(m, i, c)
    <3>1. c \in Everyone /\ c # 0 /\ i \in Nat /\ i >= 1
      BY <1>1, <2>2, TreeFacts DEF Everyone
    <3> QED
      BY <1>1, <3>1 DEF Edge
  <2> QED
    BY <2>1, <2>2 DEF LocalInv
<1>4. \A n \in Nodes : Settled(n)
  BY <1>1 DEF Settled, Dead, Everyone
<1>5. ASSUME NEW n \in Everyone PROVE Answer(n)
  <2>1. program \in Waking => \A i \in DOMAIN Kids(n) : Pipe(Kids(n)[i]) \in Everyone
    BY <1>1, PipeFacts
  <2> QED
    BY <1>1, <2>1 DEF Answer
<1>6. OneBranchAwake
  BY <1>1 DEF OneBranchAwake, Woken, Everyone
<1> QED
  BY <1>2, <1>3, <1>4, <1>5, <1>6 DEF TreeInv

LEMMA TreeStep == TreeInv /\ [Next]_vars => TreeInv'
<1>1. ASSUME TreeInv, Next PROVE TreeInv'
  <2>1. PICK a \in Everyone : Process(a) \/ (a = 0 /\ ShowTree)
    BY <1>1 DEF Next, Everyone
  <2>2. TypeOK /\ LocalInv /\ (\A n \in Nodes : Settled(n)) /\ (\A n \in Everyone : Answer(n))
        /\ OneBranchAwake
    BY <1>1 DEF TreeInv
  <2>3. Nodes' = Nodes /\ Everyone' = Everyone
    BY <2>1, <2>2, Moving DEF Moves, Nodes, Everyone
  <2>4. TypeOK'
    BY <1>1, <2>2, TypeStep
  <2>5. LocalInv'
    BY <2>1, <2>2, LocalStep
  <2>6. \A n \in Nodes : Settled(n)'
    BY <2>1, <2>2, SettledStep
  <2>7. \A n \in Everyone : Answer(n)'
    BY <2>1, <2>2, AnswerStep
  <2>8. OneBranchAwake'
    BY <2>1, <2>2, OneBranchStep
  <2> QED
    BY <2>3, <2>4, <2>5, <2>6, <2>7, <2>8 DEF TreeInv
<1>2. ASSUME TreeInv, UNCHANGED vars PROVE TreeInv'
  <2>1. /\ Nodes' = Nodes /\ Everyone' = Everyone
        /\ \A n : Kids(n)' = Kids(n)
    BY <1>2 DEF vars, Everyone, Nodes, Kids
  <2>2. \A c : Pipe(c)' = Pipe(c)
    <3>1. \A n : KidSet(n)' = KidSet(n)
      BY <2>1 DEF KidSet
    <3>2. \A c : Parent(c)' = Parent(c)
      BY <2>1, <3>1 DEF Parent
    <3> QED
      BY <1>2, <3>2 DEF Pipe, vars
  <2>3. TypeOK' /\ OneBranchAwake'
    BY <1>2, <2>1 DEF TreeInv, vars, TypeOK, OneBranchAwake, Woken
  <2>4. \A n \in Everyone : Node(n)' /\ Count(n)' /\ Answer(n)'
    <3> SUFFICES ASSUME NEW n \in Everyone PROVE Node(n)' /\ Count(n)' /\ Answer(n)'
      OBVIOUS
    <3>1. Node(n) /\ Count(n) /\ Answer(n)
      BY <1>2 DEF TreeInv, LocalInv
    <3>2. Node(n)'
      BY <1>2, <2>1, <3>1 DEF Node, vars
    <3>3. Count(n)'
      BY <1>2, <2>1, <3>1 DEF Count, Told, vars
    <3>4. Answer(n)'
      BY <1>2, <2>1, <2>2, <3>1 DEF Answer, vars
    <3> QED
      BY <3>2, <3>3, <3>4
  <2>5. \A m \in Everyone : \A i \in DOMAIN Kids(m) : Edge(m, i, Kids(m)[i])'
    BY <1>2, <2>1 DEF TreeInv, LocalInv, Edge, vars
  <2>6. \A n \in Nodes : Settled(n)'
    BY <1>2 DEF TreeInv, Settled, vars
  <2> QED
    BY <2>1, <2>3, <2>4, <2>5, <2>6 DEF TreeInv, LocalInv
<1> QED
  BY <1>1, <1>2

\* What is known of processes, their parents, the branch that is awake and the
\* pipes holds in every state.
THEOREM TreeInvariant == Spec => []TreeInv
  BY TreeInit, TreeStep, PTL DEF Spec

\* The variables keep their types: no process reads a number that is none, and
\* the indices stay within the arrays of pids.
THEOREM TypesKept == Spec => []TypeOK
<1>1. TreeInv => TypeOK
  BY DEF TreeInv
<1> QED
  BY <1>1, TreeInvariant, PTL

\* When main() shows the tree of processes, all exist and none executes.
THEOREM ShownTreeIsWhole == Spec => []TreeShown
<1>1. ASSUME TreeInv PROVE TreeShown
  <2>1. SUFFICES ASSUME program \in Waking, Runs(0, "wake"), k[0] = 1, NEW n \in Nodes
                 PROVE  proc[n] \in Halted
    BY DEF TreeShown
  <2>2. tree \in Trees /\ LocalInv /\ \A m \in Nodes : Settled(m)
    BY <1>1 DEF TreeInv, TypeOK
  <2>3. Kids(0)[1] = tree.root /\ 1 \in DOMAIN Kids(0) /\ tree.root \in Nodes
    BY <2>2, TreeFacts
  <2>4. proc[tree.root] = "waited"
    BY <2>1, <2>2, <2>3 DEF LocalInv, Edge, Runs, Everyone
  <2>5. pc[tree.root] = "awake"
    BY <2>2, <2>3, <2>4 DEF LocalInv, Node, Halted, Everyone
  <2>6. n = tree.root \/ n \in tree.below[tree.root]
    BY <2>2, BelowFacts DEF With
  <2> QED
    BY <2>1, <2>2, <2>3, <2>4, <2>5, <2>6 DEF Settled, Halted
<1> QED
  BY <1>1, TreeInvariant, PTL

\* The wake-ups go depth first.
THEOREM DepthFirst == Spec => []OneBranchAwake
<1>1. TreeInv => OneBranchAwake
  BY DEF TreeInv
<1> QED
  BY <1>1, TreeInvariant, PTL

\* read() and wait() get the answer and the end of the child that was woken.
THEOREM OwnAnswers == Spec => []AnswersAreOwn
<1>1. ASSUME TreeInv PROVE AnswersAreOwn
  <2>1. SUFFICES ASSUME program \in Waking, NEW n \in Everyone, NEW c, c = Kids(n)[k[n]],
                        pc[n] \in {"read", "wait"}
                 PROVE  /\ \A d \in KidSet(n) : proc[d] = "zombie" => d = c
                        /\ pc[n] = "read" => pipe[Pipe(c)] \in {<<>>, <<result[c]>>}
                        /\ pc[n] = "wait" => pipe[Pipe(c)] = <<>>
    BY DEF AnswersAreOwn
  <2>2. tree \in Trees /\ Node(n) /\ Answer(n) /\ k[n] \in Nat
        /\ \A i \in DOMAIN Kids(n) : Edge(n, i, Kids(n)[i])
    BY <1>1 DEF TreeInv, TypeOK, LocalInv
  <2>3. DOMAIN Kids(n) = 1 .. Len(Kids(n)) /\ Len(Kids(n)) \in Nat
    BY <2>2, TreeFacts
  <2>4. k[n] \in DOMAIN Kids(n)
    BY <2>1, <2>2, <2>3 DEF Node
  <2>5. ASSUME NEW d \in KidSet(n), proc[d] = "zombie" PROVE d = c
    <3>1. PICK i \in DOMAIN Kids(n) : d = Kids(n)[i]
      BY DEF KidSet
    <3>2. Edge(n, i, d)
      BY <2>2, <3>1
    <3>3. i = k[n]
      BY <2>1, <2>2, <2>3, <2>5, <3>1, <3>2 DEF Edge
    <3> QED
      BY <2>1, <3>1, <3>3
  <2>6. pipe[Pipe(c)] = IF pc[n] = "read" /\ pc[c] = "exit" THEN <<result[c]>> ELSE <<>>
    BY <2>1, <2>2, <2>4 DEF Answer
  <2> QED
    BY <2>5, <2>6
<1> QED
  BY <1>1, TreeInvariant, PTL

\* exit(0) means that all children have been collected and had not failed.
THEOREM NothingIsLeft == Spec => []NothingLeft
<1>1. ASSUME TreeInv PROVE NothingLeft
  <2>1. SUFFICES ASSUME program \notin Computing \/ IsExpression,
                        NEW n \in Everyone, proc[n] \in Dead, code[n] = 0, NEW c \in KidSet(n)
                 PROVE  proc[c] = "gone" /\ (program \in Waking => code[c] = 0)
    BY DEF NothingLeft
  <2>2. tree \in Trees /\ Node(n) /\ Count(n) /\ k[n] \in Nat /\ program \in Waking \cup Sleeping
        /\ \A i \in DOMAIN Kids(n) : Edge(n, i, Kids(n)[i])
    BY <1>1, ProcTreeAssumption DEF TreeInv, TypeOK, LocalInv
  <2>3. DOMAIN Kids(n) = 1 .. Len(Kids(n)) /\ Len(Kids(n)) \in Nat
    BY <2>2, TreeFacts
  <2>4. PICK i \in DOMAIN Kids(n) : c = Kids(n)[i]
    BY DEF KidSet
  <2>5. Edge(n, i, c) /\ i \in Nat /\ i >= 1 /\ i <= Len(Kids(n))
    BY <2>2, <2>3, <2>4
  <2>6. program \in Computing /\ n # 0 => tree.op[n] # "other"
    <3>1. n # 0 => n \in Nodes /\ Kids(n) = tree.kids[n]
      BY DEF Everyone, Kids
    <3>2. Kids(n) # <<>>
      BY <2>3, <2>4
    <3> QED
      BY <2>1, <3>1, <3>2 DEF IsExpression
  <2>7. CASE pc[n] = "exit"
    <3>1. program \in Computing /\ n # 0 /\ program \in Waking
      BY <2>2, <2>7 DEF Node, Waking, Computing, Sleeping
    <3> QED
      BY <2>1, <2>5, <2>6, <2>7, <3>1 DEF Edge
  <2>8. CASE pc[n] = "wake" /\ k[n] > Len(Kids(n))
    <3>1. i < k[n]
      BY <2>2, <2>3, <2>5, <2>8
    <3> QED
      BY <2>2, <2>5, <2>8, <3>1 DEF Edge
  <2>9. CASE pc[n] = "collect" /\ k[n] = 0
    <3>1. program \in Sleeping /\ program \notin Waking /\ i > k[n]
      BY <2>2, <2>5, <2>9 DEF Node, Waking, Computing, Sleeping
    <3>2. program = "ex2_1" => proc[c] = "gone"
      BY <2>2, <2>4, <2>9, AllTold
    <3> QED
      BY <2>5, <2>9, <3>1, <3>2 DEF Edge, Sleeping
  <2> QED
    BY <2>1, <2>2, <2>7, <2>8, <2>9 DEF Node
<1> QED
  BY <1>1, TreeInvariant, PTL
-----------------------------------------------------------------------------
\* Induction over the natural numbers, for a set that contains 0 and with every
\* number the next one.
LEMMA SetInduction ==
    ASSUME NEW S, 0 \in S, \A n \in Nat : n \in S => n + 1 \in S
    PROVE  \A n \in Nat : n \in S
<1> DEFINE T == Nat \ S
           R == {ss \in Nat \X Nat : ss[1] < ss[2]}
<1> SUFFICES ASSUME T # {} PROVE FALSE
  OBVIOUS
<1>1. IsWellFoundedOn(R, Nat)
  BY NatLessThanWellFounded DEF OpToRel
<1>2. T \subseteq Nat
  OBVIOUS
<1>3. \A m, n \in Nat : m < n => <<m, n>> \in R
  OBVIOUS
<1> HIDE DEF T, R
<1>4. PICK n \in T : \A m \in T : ~(<<m, n>> \in R)
  BY <1>1, <1>2, WFMin
<1>5. n \in Nat /\ n \notin S /\ n # 0
  BY <1>4 DEF T
<1>6. n - 1 \in Nat /\ n - 1 < n /\ (n - 1) + 1 = n
  BY <1>5
<1>7. n - 1 \in T
  BY <1>5, <1>6 DEF T
<1> QED
  BY <1>2, <1>3, <1>4, <1>5, <1>6, <1>7

\* The recursion over the children of a node has a solution, and the same one for
\* all that agree on the values of the children.
LEMMA UpToEquation ==
    ASSUME NEW n, NEW v, Len(tree.kids[n]) \in Nat
    PROVE  /\ UpTo(n, v)[0] = IF tree.op[n] = "*" THEN 1 ELSE 0
           /\ \A j \in 1 .. Len(tree.kids[n]) :
                 UpTo(n, v)[j] = IF tree.op[n] = "*"
                                 THEN UpTo(n, v)[j - 1] * v[tree.kids[n][j]]
                                 ELSE UpTo(n, v)[j - 1] + v[tree.kids[n][j]]
<1> DEFINE L == Len(tree.kids[n])
           Body(f, j) == IF j = 0 THEN IF tree.op[n] = "*" THEN 1 ELSE 0
                         ELSE IF tree.op[n] = "*" THEN f[j - 1] * v[tree.kids[n][j]]
                                                  ELSE f[j - 1] + v[tree.kids[n][j]]
           S == {j \in Nat : \E f : f = [i \in 0 .. j |-> Body(f, i)]}
<1>1. 0 \in S
  <2> DEFINE f == [i \in 0 .. 0 |-> IF tree.op[n] = "*" THEN 1 ELSE 0]
  <2>1. f = [i \in 0 .. 0 |-> Body(f, i)]
    OBVIOUS
  <2> HIDE DEF f
  <2> QED
    BY <2>1
<1>2. ASSUME NEW j \in Nat, j \in S PROVE j + 1 \in S
  <2>1. PICK f : f = [i \in 0 .. j |-> Body(f, i)]
    BY <1>2
  <2> DEFINE g == [i \in 0 .. j + 1 |-> IF i = j + 1 THEN Body(f, i) ELSE f[i]]
  <2>2. \A i \in 0 .. j : g[i] = f[i] /\ f[i] = Body(f, i)
    BY <2>1
  <2>3. \A i \in 0 .. j + 1 : g[i] = Body(f, i)
    <3> SUFFICES ASSUME NEW i \in 0 .. j + 1 PROVE g[i] = Body(f, i)
      OBVIOUS
    <3>1. CASE i = j + 1
      <4>1. g[i] = IF i = j + 1 THEN Body(f, i) ELSE f[i]
        OBVIOUS
      <4> HIDE DEF g, Body
      <4> QED
        BY <3>1, <4>1
    <3>2. CASE i \in 0 .. j
      <4> HIDE DEF g, Body
      <4> QED
        BY <2>2, <3>2
    <3> QED
      BY <3>1, <3>2
  <2>4. \A i \in 0 .. j + 1 : Body(g, i) = Body(f, i)
    <3> SUFFICES ASSUME NEW i \in 0 .. j + 1 PROVE Body(g, i) = Body(f, i)
      OBVIOUS
    <3>1. i # 0 => i - 1 \in 0 .. j
      OBVIOUS
    <3>2. i # 0 => g[i - 1] = f[i - 1]
      BY <2>2, <3>1
    <3> HIDE DEF g
    <3> QED
      BY <3>2
  <2>5. g = [i \in 0 .. j + 1 |-> g[i]]
    OBVIOUS
  <2> HIDE DEF g, Body
  <2>6. g = [i \in 0 .. j + 1 |-> Body(g, i)]
    BY <2>3, <2>4, <2>5
  <2> QED
    BY <2>6
<1>3. L \in S
  <2> HIDE DEF S
  <2> QED
    BY <1>1, <1>2, SetInduction
<1>4. \E f : f = [i \in 0 .. L |-> Body(f, i)]
  BY <1>3
<1>5. UpTo(n, v) = CHOOSE f : f = [i \in 0 .. L |-> Body(f, i)]
  BY DEF UpTo
<1> DEFINE u == UpTo(n, v)
<1> HIDE DEF u
<1>6. u = [i \in 0 .. L |-> Body(u, i)]
  BY <1>4, <1>5 DEF u
<1>7. \A i \in 0 .. L : u[i] = Body(u, i)
  BY <1>6
<1>8. u[0] = Body(u, 0) /\ \A j \in 1 .. L : u[j] = Body(u, j) /\ j # 0
  BY <1>7
<1> QED
  BY <1>8 DEF u

LEMMA UpToDepends ==
    ASSUME NEW n, NEW v, NEW w, Len(tree.kids[n]) \in Nat,
           \A j \in 1 .. Len(tree.kids[n]) : v[tree.kids[n][j]] = w[tree.kids[n][j]]
    PROVE  UpTo(n, v)[Len(tree.kids[n])] = UpTo(n, w)[Len(tree.kids[n])]
<1> DEFINE L == Len(tree.kids[n])
           S == {j \in Nat : j <= L => UpTo(n, v)[j] = UpTo(n, w)[j]}
<1>1. 0 \in S
  BY UpToEquation
<1>2. ASSUME NEW j \in Nat, j \in S PROVE j + 1 \in S
  <2> SUFFICES ASSUME j + 1 <= L PROVE UpTo(n, v)[j + 1] = UpTo(n, w)[j + 1]
    OBVIOUS
  <2>1. j + 1 \in 1 .. L /\ (j + 1) - 1 = j /\ j <= L
    OBVIOUS
  <2>2. UpTo(n, v)[j] = UpTo(n, w)[j]
    BY <1>2, <2>1
  <2>3. \A x \in {v, w} :
            UpTo(n, x)[j + 1] = IF tree.op[n] = "*" THEN UpTo(n, x)[j] * x[tree.kids[n][j + 1]]
                                                    ELSE UpTo(n, x)[j] + x[tree.kids[n][j + 1]]
    BY <2>1, UpToEquation
  <2> QED
    BY <2>1, <2>2, <2>3
<1> HIDE DEF S
<1>3. L \in S
  BY <1>1, <1>2, SetInduction
<1> QED
  BY <1>3 DEF S

\* A child has fewer nodes below it than its parent.
LEMMA SmallerBelow ==
    ASSUME tree \in Trees, NEW n \in Nodes
    PROVE  /\ Cardinality(tree.below[n]) \in Nat
           /\ Cardinality(tree.below[n]) <= Cardinality(Nodes) /\ Cardinality(Nodes) \in Nat
           /\ \A j \in DOMAIN tree.kids[n] :
                 /\ tree.kids[n][j] \in Nodes
                 /\ Cardinality(tree.below[tree.kids[n][j]]) < Cardinality(tree.below[n])
<1>1. IsTree(tree)
  BY ProcTreeAssumption
<1>2. /\ IsFiniteSet(Nodes) /\ tree.below \in [Nodes -> SUBSET Nodes]
      /\ tree.kids \in [Nodes -> Seq(Nodes)]
      /\ \A m \in Nodes : m \notin tree.below[m]
      /\ tree.below[n] = UNION {{tree.kids[n][j]} \cup tree.below[tree.kids[n][j]] :
                                    j \in DOMAIN tree.kids[n]}
  BY <1>1 DEF IsTree, Nodes
<1>3. IsFiniteSet(tree.below[n]) /\ Cardinality(tree.below[n]) \in Nat
      /\ Cardinality(tree.below[n]) <= Cardinality(Nodes) /\ Cardinality(Nodes) \in Nat
  BY <1>2, FS_Subset, FS_CardinalityType
<1>4. ASSUME NEW j \in DOMAIN tree.kids[n], NEW c, c = tree.kids[n][j]
      PROVE  c \in Nodes /\ Cardinality(tree.below[c]) < Cardinality(tree.below[n])
  <2>1. c \in Nodes
    BY <1>2, <1>4, LenProperties, ElementOfSeq
  <2>2. tree.below[c] \subseteq tree.below[n] /\ c \in tree.below[n] /\ c \notin tree.below[c]
    BY <1>2, <1>4, <2>1
  <2>3. Cardinality(tree.below[c]) <= Cardinality(tree.below[n])
        /\ Cardinality(tree.below[c]) # Cardinality(tree.below[n])
        /\ Cardinality(tree.below[c]) \in Nat
    BY <1>3, <2>2, FS_Subset, FS_CardinalityType
  <2> QED
    BY <1>3, <2>1, <2>3
<1> QED
  BY <1>3, <1>4

\* The value of a tree exists, and of every node it is what its definition says.
LEMMA ValuesEquation ==
    ASSUME tree \in Trees, NEW n \in Nodes
    PROVE  Values[n] = IF tree.kids[n] = <<>> THEN tree.num[n]
                       ELSE UpTo(n, Values)[Len(tree.kids[n])]
<1> DEFINE Body(f, m) == IF tree.kids[m] = <<>> THEN tree.num[m]
                         ELSE UpTo(m, f)[Len(tree.kids[m])]
           Lower(r) == {m \in Nodes : Cardinality(tree.below[m]) < r}
           S == {r \in Nat : \E f : f = [m \in Lower(r) |-> Body(f, m)]}
<1>k. \A m \in Nodes : Len(tree.kids[m]) \in Nat /\ DOMAIN tree.kids[m] = 1 .. Len(tree.kids[m])
  <2>1. \A m \in Nodes : tree.kids[m] \in Seq(Nodes)
    BY ProcTreeAssumption DEF IsTree, Nodes
  <2> QED
    BY <2>1, LenProperties
<1>d. ASSUME NEW m \in Nodes, NEW f, NEW g,
             \A j \in 1 .. Len(tree.kids[m]) : f[tree.kids[m][j]] = g[tree.kids[m][j]]
      PROVE  Body(f, m) = Body(g, m)
  BY <1>k, <1>d, UpToDepends
<1>1. 0 \in S
  <2>1. Lower(0) = {}
    BY SmallerBelow
  <2> DEFINE f == [m \in {} |-> 0]
  <2>2. f = [m \in Lower(0) |-> Body(f, m)]
    BY <2>1
  <2> QED
    BY <2>2
<1> HIDE DEF Body
<1>2. ASSUME NEW r \in Nat, r \in S PROVE r + 1 \in S
  <2>1. PICK f : f = [m \in Lower(r) |-> Body(f, m)]
    BY <1>2
  <2> DEFINE g == [m \in Lower(r + 1) |-> IF m \in Lower(r) THEN f[m] ELSE Body(f, m)]
  <2>2. Lower(r) \subseteq Lower(r + 1)
    BY SmallerBelow
  <2>3. \A m \in Lower(r + 1) : g[m] = Body(f, m)
    BY <2>1
  <2>4. \A m \in Lower(r) : g[m] = f[m]
    BY <2>2
  <2>5. ASSUME NEW m \in Lower(r + 1) PROVE Body(g, m) = Body(f, m)
    <3>1. \A j \in 1 .. Len(tree.kids[m]) : tree.kids[m][j] \in Lower(r)
      <4> SUFFICES ASSUME NEW j \in 1 .. Len(tree.kids[m]) PROVE tree.kids[m][j] \in Lower(r)
        OBVIOUS
      <4>1. /\ tree.kids[m][j] \in Nodes /\ Cardinality(tree.below[m]) \in Nat
            /\ Cardinality(tree.below[tree.kids[m][j]]) < Cardinality(tree.below[m])
        BY <1>k, SmallerBelow
      <4>2. Cardinality(tree.below[m]) < r + 1 /\ Cardinality(tree.below[tree.kids[m][j]]) \in Nat
        BY <4>1, SmallerBelow
      <4>3. \A x, y \in Nat : x < y /\ y < r + 1 => x < r
        OBVIOUS
      <4> QED
        BY <4>1, <4>2, <4>3
    <3> HIDE DEF g, Lower
    <3>2. \A j \in 1 .. Len(tree.kids[m]) : g[tree.kids[m][j]] = f[tree.kids[m][j]]
      BY <2>4, <3>1
    <3>3. m \in Nodes
      BY DEF Lower
    <3> QED
      BY <1>d, <3>2, <3>3
  <2>6. g = [m \in Lower(r + 1) |-> g[m]]
    OBVIOUS
  <2> HIDE DEF g, Lower
  <2>7. g = [m \in Lower(r + 1) |-> Body(g, m)]
    BY <2>3, <2>5, <2>6
  <2> QED
    BY <2>7
<1>3. \E f : f = [m \in Nodes |-> Body(f, m)]
  <2> DEFINE r == Cardinality(Nodes) + 1
  <2>1. r \in Nat /\ Lower(r) = Nodes
    BY SmallerBelow
  <2>2. r \in S
    <3> HIDE DEF S, r
    <3> QED
      BY <1>1, <1>2, <2>1, SetInduction
  <2> QED
    BY <2>1, <2>2
<1>4. Values = CHOOSE f : f = [m \in Nodes |-> Body(f, m)]
  BY DEF Values, Body
<1>5. Values = [m \in Nodes |-> Body(Values, m)]
  <2> DEFINE v == Values
  <2>1. v = CHOOSE f : f = [m \in Nodes |-> Body(f, m)]
    BY <1>4
  <2> HIDE DEF v
  <2>2. v = [m \in Nodes |-> Body(v, m)]
    BY <1>3, <2>1
  <2> QED
    BY <2>2 DEF v
<1>6. Values[n] = Body(Values, n)
  <2> DEFINE v == Values
  <2>1. v = [m \in Nodes |-> Body(v, m)]
    BY <1>5
  <2> HIDE DEF v
  <2>2. v[n] = Body(v, n)
    BY <2>1
  <2> QED
    BY <2>2 DEF v
<1> QED
  BY <1>6 DEF Body
-----------------------------------------------------------------------------
\* What process n has in result, by the place where it is: what it combined of its
\* first children, and at last its value.
Partial(n) ==
    /\ pc[n] \in {"wake", "read", "wait"} => Kids(n) # <<>>
    /\ pc[n] \in {"wake", "read"} => result[n] = UpTo(n, Values)[k[n] - 1]
    /\ pc[n] = "wait" => result[n] = UpTo(n, Values)[k[n]]
    /\ pc[n] \in {"write", "exit"} => result[n] = Values[n]

ResultInv ==
    program \in Computing /\ IsExpression =>
        /\ \A n \in Nodes : Partial(n)
        /\ pc[0] = "wait" \/ (pc[0] = "wake" /\ k[0] > 1) => result[0] = Value

LEMMA ValuesStay ==
    ASSUME tree' = tree
    PROVE  /\ Values' = Values /\ Value' = Value
           /\ \A n \in Nodes : UpTo(n, Values)' = UpTo(n, Values)
<1>1. Values' = Values
  BY DEF Values, UpTo, Nodes
<1>2. \A n \in Nodes : UpTo(n, Values)' = UpTo(n, Values)
  BY <1>1 DEF UpTo
<1> QED
  BY <1>1, <1>2 DEF Value

\* Only the process that moves changes its result.
LEMMA ResultsKept ==
    ASSUME TypeOK, NEW a \in Everyone, Process(a) \/ (a = 0 /\ ShowTree)
    PROVE  \A m \in Everyone \ {a} : result'[m] = result[m]
BY DEF TypeOK, Process, ShowTree, Fork, GiveUp, CanShow, AllForked, ChildReady, ChildDied, Suspend,
       Awake, Wake, Read, Wait, AllWoken, Write, Exit, Collect

\* What is read is the value of the child that was woken.
LEMMA ReadsValue ==
    ASSUME TreeInv, ResultInv, program \in Computing, IsExpression, NEW a \in Everyone, Read(a)
    PROVE  /\ k[a] \in DOMAIN Kids(a)
           /\ Head(pipe[Pipe(Kids(a)[k[a]])]) = Values[Kids(a)[k[a]]]
<1> DEFINE c == Kids(a)[k[a]]
<1>1. Node(a) /\ Answer(a) /\ DOMAIN Kids(a) = 1 .. Len(Kids(a)) /\ Len(Kids(a)) \in Nat
  BY TreeFacts DEF TreeInv, LocalInv, TypeOK
<1>2. pc[a] = "read" /\ k[a] \in DOMAIN Kids(a) /\ pipe[Pipe(c)] # <<>>
  BY <1>1 DEF Read, Runs, Node
<1>3. c \in Nodes /\ program \in Waking
  BY <1>2, TreeFacts DEF TreeInv, TypeOK, Computing, Waking
<1>4. pipe[Pipe(c)] = IF pc[c] = "exit" THEN <<result[c]>> ELSE <<>>
  BY <1>1, <1>2, <1>3 DEF Answer
<1>5. pc[c] = "exit" /\ Head(pipe[Pipe(c)]) = result[c]
  BY <1>2, <1>4
<1> QED
  BY <1>2, <1>3, <1>5 DEF ResultInv, Partial

LEMMA PartialStep ==
    ASSUME TreeInv, ResultInv, program \in Computing, IsExpression, NEW a \in Nodes, Process(a)
    PROVE  Partial(a)'
<1>1. /\ TypeOK /\ Node(a) /\ Partial(a) /\ a # 0 /\ a \in Everyone
      /\ Kids(a) = tree.kids[a] /\ Len(Kids(a)) \in Nat /\ DOMAIN Kids(a) = 1 .. Len(Kids(a))
      /\ Kids(a) \in Seq(Nodes)
  BY TreeFacts DEF TreeInv, TypeOK, LocalInv, ResultInv, Everyone, Kids
<1>2. /\ pc \in [Everyone -> {"fork", "ready", "awake", "wake", "read", "wait",
                              "collect", "write", "exit"}]
      /\ k \in [Everyone -> Nat] /\ result \in [Everyone -> Int] /\ tree \in Trees
      /\ tree.op[a] \in {"+", "*", "other"}
  BY <1>1, ProcTreeAssumption DEF TypeOK, IsTree, Nodes
<1>3. program' = program /\ tree' = tree /\ Kids(a)' = Kids(a)
  BY <1>1, Moving DEF TreeInv, Moves, Kids
<1>4. Values'[a] = Values[a] /\ UpTo(a, Values)' = UpTo(a, Values)
  BY <1>3, ValuesStay
<1>5. SUFFICES /\ pc'[a] \in {"wake", "read", "wait"} => Kids(a) # <<>>
               /\ pc'[a] \in {"wake", "read"} => result'[a] = UpTo(a, Values)[k'[a] - 1]
               /\ pc'[a] = "wait" => result'[a] = UpTo(a, Values)[k'[a]]
               /\ pc'[a] \in {"write", "exit"} => result'[a] = Values[a]
  BY <1>3, <1>4 DEF Partial
<1>6. program \in Waking /\ program \notin Sleeping
  BY DEF Waking, Computing, Sleeping
<1>7. /\ UpTo(a, Values)[0] = IF tree.op[a] = "*" THEN 1 ELSE 0
      /\ \A j \in 1 .. Len(Kids(a)) :
            UpTo(a, Values)[j] = IF tree.op[a] = "*"
                                 THEN UpTo(a, Values)[j - 1] * Values[Kids(a)[j]]
                                 ELSE UpTo(a, Values)[j - 1] + Values[Kids(a)[j]]
      /\ Values[a] = IF Kids(a) = <<>> THEN tree.num[a]
                     ELSE UpTo(a, Values)[Len(Kids(a))]
  BY <1>1, <1>2, UpToEquation, ValuesEquation
<1>8. CASE pc'[a] = pc[a] /\ result'[a] = result[a] /\ (k'[a] = k[a] \/ pc[a] \in {"fork", "ready"})
  BY <1>1, <1>8 DEF Partial
<1>9. CASE pc'[a] \in {"fork", "ready", "awake", "collect"}
  BY <1>9
<1>10. CASE Awake(a)
  <2>1. k[a] = 1 /\ k' = k
    BY <1>1, <1>10 DEF Awake, Runs, Node
  <2>2. \E r \in FirstResult(a) : result' = [result EXCEPT ![a] = r]
    BY <1>10 DEF Awake
  <2>3. CASE Kids(a) = <<>>
    <3>1. result'[a] = tree.num[a] /\ pc'[a] = "write"
      BY <1>1, <1>2, <1>10, <2>2, <2>3 DEF FirstResult, Awake, GoesOn
    <3> QED
      BY <1>7, <2>3, <3>1
  <2>4. CASE Kids(a) # <<>>
    <3>1. tree.op[a] # "other"
      BY <1>1, <2>4 DEF IsExpression
    <3>2. result'[a] = (IF tree.op[a] = "*" THEN 1 ELSE 0) /\ pc'[a] = "wake"
      BY <1>1, <1>2, <1>10, <2>2, <2>4, <3>1 DEF FirstResult, Awake, GoesOn
    <3>3. k'[a] - 1 = 0
      BY <2>1
    <3> QED
      BY <1>7, <2>4, <3>2, <3>3
  <2> QED
    BY <2>3, <2>4
<1>11. CASE Wake(a)
  BY <1>1, <1>2, <1>11 DEF Wake, Runs, GoesOn, Partial
<1>12. CASE Read(a)
  <2> DEFINE c == Kids(a)[k[a]]
             x == Head(pipe[Pipe(c)])
  <2>1. k[a] \in 1 .. Len(Kids(a)) /\ x = Values[c]
    BY <1>1, <1>12, ReadsValue
  <2>2. /\ pc[a] = "read" /\ pc'[a] = "wait" /\ k' = k
        /\ result'[a] = Combined(a, x)
    BY <1>1, <1>2, <1>12 DEF Read, Runs, GoesOn
  <2>3. tree.op[a] # "other" /\ Kids(a) # <<>> /\ result[a] = UpTo(a, Values)[k[a] - 1]
    BY <1>1, <2>2 DEF Node, Partial
  <2> HIDE DEF c, x
  <2>4. Combined(a, x) = IF tree.op[a] = "*" THEN result[a] * x ELSE result[a] + x
    BY <1>1, <1>2, <2>3 DEF Combined
  <2>5. UpTo(a, Values)[k[a]] = IF tree.op[a] = "*" THEN result[a] * x ELSE result[a] + x
    BY <1>7, <2>1, <2>3 DEF c
  <2> QED
    BY <2>2, <2>3, <2>4, <2>5
<1>13. CASE Wait(a)
  <2>1. /\ pc[a] = "wait" /\ pc'[a] = "wake" /\ k'[a] = k[a] + 1 /\ result'[a] = result[a]
        /\ (k[a] + 1) - 1 = k[a]
    BY <1>1, <1>2, <1>13 DEF Wait, Runs, GoesOn
  <2> QED
    BY <1>1, <2>1 DEF Partial
<1>14. CASE AllWoken(a)
  <2>1. pc[a] = "wake" /\ pc'[a] = "write" /\ result'[a] = result[a]
    BY <1>1, <1>2, <1>14 DEF AllWoken, Runs, GoesOn
  <2>2. k[a] - 1 = Len(Kids(a))
    BY <1>1, <1>2, <1>14 DEF AllWoken, Node
  <2> QED
    BY <1>1, <1>7, <2>1, <2>2 DEF Partial
<1>15. CASE Write(a)
  BY <1>1, <1>2, <1>15 DEF Write, Runs, GoesOn, Partial
<1>16. CASE Fork(a) \/ AllForked(a) \/ Suspend(a) \/ Collect(a)
  <2>1. pc'[a] \in {"fork", "ready", "awake", "collect"}
    BY <1>1, <1>2, <1>6, <1>16 DEF Fork, AllForked, Suspend, Collect, Runs, GoesOn
  <2> QED
    BY <1>9, <2>1
<1>17. CASE GiveUp(a) \/ ChildReady(a) \/ ChildDied(a) \/ Exit(a)
  BY <1>8, <1>17 DEF GiveUp, CanShow, ChildReady, ChildDied, Exit, Runs
<1> QED
  BY <1>10, <1>11, <1>12, <1>13, <1>14, <1>15, <1>16, <1>17 DEF Process

\* The same of main().
LEMMA MainStep ==
    ASSUME TreeInv, ResultInv, program \in Computing, IsExpression, Process(0) \/ ShowTree,
           pc'[0] = "wait" \/ (pc'[0] = "wake" /\ k'[0] > 1)
    PROVE  result'[0] = Value
<1>1. /\ 0 \in Everyone /\ Node(0) /\ Kids(0) = <<tree.root>> /\ Len(Kids(0)) = 1
      /\ DOMAIN Kids(0) = 1 .. 1 /\ program \in Waking
  BY TreeFacts DEF TreeInv, LocalInv, TypeOK, Everyone, Waking, Computing
<1>2. /\ pc \in [Everyone -> {"fork", "ready", "awake", "wake", "read", "wait",
                              "collect", "write", "exit"}]
      /\ k \in [Everyone -> Nat] /\ result \in [Everyone -> Int]
  BY DEF TreeInv, TypeOK
<1>3. CASE Read(0)
  <2>1. k[0] = 1 /\ Head(pipe[Pipe(tree.root)]) = Values[tree.root]
    <3>1. k[0] \in DOMAIN Kids(0) /\ Head(pipe[Pipe(Kids(0)[k[0]])]) = Values[Kids(0)[k[0]]]
      BY <1>1, <1>3, ReadsValue
    <3> QED
      BY <1>1, <3>1
  <2>2. result'[0] = Combined(0, Head(pipe[Pipe(Kids(0)[k[0]])]))
    BY <1>1, <1>2, <1>3 DEF Read
  <2>3. Kids(0)[k[0]] = tree.root
    BY <1>1, <2>1
  <2> QED
    BY <2>1, <2>2, <2>3 DEF Combined, Value
<1>4. CASE Wait(0)
  <2>1. pc[0] = "wait" /\ result' = result
    BY <1>4 DEF Wait, Runs
  <2> QED
    BY <2>1 DEF ResultInv
<1>5. CASE ShowTree
  <2>1. pc'[0] = "wake" /\ k'[0] = 1
    BY <1>1, <1>2, <1>5 DEF ShowTree, GoesOn
  <2> QED
    BY <2>1
<1>6. CASE Wake(0) \/ Fork(0) \/ AllForked(0) \/ Awake(0) \/ Suspend(0) \/ Write(0)
  BY <1>1, <1>2, <1>6 DEF Wake, Fork, AllForked, Awake, Suspend, Write, Runs, GoesOn, Node, Computing, Waking
<1>7. CASE GiveUp(0) \/ ChildReady(0) \/ ChildDied(0) \/ Exit(0) \/ Collect(0)
  <2>1. program \notin Sleeping
    BY <1>1 DEF Waking, Computing, Sleeping
  <2> QED
    BY <1>1, <1>7, <2>1 DEF GiveUp, CanShow, ChildReady, ChildDied, Exit, Collect, Runs
<1>8. CASE AllWoken(0)
  BY <1>1, <1>8 DEF AllWoken, Runs, ResultInv
<1> QED
  BY <1>3, <1>4, <1>5, <1>6, <1>7, <1>8 DEF Process

LEMMA ResultStep == TreeInv /\ ResultInv /\ [Next]_vars => ResultInv'
<1> SUFFICES ASSUME TreeInv, ResultInv, [Next]_vars PROVE ResultInv'
  OBVIOUS
<1>1. CASE UNCHANGED vars
  <2>1. program' = program /\ tree' = tree /\ pc' = pc /\ k' = k /\ result' = result
    BY <1>1 DEF vars
  <2>2. Nodes' = Nodes /\ (\A n \in Nodes : Kids(n)' = Kids(n)) /\ (IsExpression' <=> IsExpression)
    BY <2>1 DEF Nodes, Kids, IsExpression
  <2>3. \A n \in Nodes : Partial(n) => Partial(n)'
    BY <2>1, <2>2, ValuesStay DEF Partial
  <2> QED
    BY <2>1, <2>2, <2>3, ValuesStay DEF ResultInv
<1>2. CASE Next
  <2>1. PICK a \in Everyone : Process(a) \/ (a = 0 /\ ShowTree)
    BY <1>2 DEF Next, Everyone
  <2>2. Moves(a)
    BY <2>1, Moving DEF TreeInv
  <2>3. program' = program /\ tree' = tree
    BY <2>2 DEF Moves
  <2>4. /\ Nodes' = Nodes /\ (IsExpression' <=> IsExpression) /\ 0 \notin Nodes
        /\ \A n \in Nodes : Kids(n)' = Kids(n)
    BY <2>3, TreeFacts DEF TreeInv, TypeOK, Nodes, Kids, IsExpression
  <2> SUFFICES ASSUME program \in Computing, IsExpression
               PROVE  /\ \A n \in Nodes : Partial(n)'
                      /\ (pc[0] = "wait" \/ (pc[0] = "wake" /\ k[0] > 1))' => result'[0] = Value
    BY <2>3, <2>4, ValuesStay DEF ResultInv
  <2>5. \A m \in Everyone \ {a} : pc'[m] = pc[m] /\ k'[m] = k[m] /\ result'[m] = result[m]
    BY <2>1, <2>2, ResultsKept DEF Moves, TreeInv
  <2>6. ASSUME NEW n \in Nodes PROVE Partial(n)'
    <3>1. CASE n = a
      BY <2>1, <2>4, <3>1, PartialStep
    <3>2. CASE n # a
      <4>1. pc'[n] = pc[n] /\ k'[n] = k[n] /\ result'[n] = result[n] /\ Partial(n)
        BY <2>5, <3>2 DEF Everyone, ResultInv
      <4>2. Kids(n)' = Kids(n) /\ Values' = Values /\ UpTo(n, Values)' = UpTo(n, Values)
        BY <2>3, <2>4, ValuesStay
      <4> QED
        BY <4>1, <4>2 DEF Partial
    <3> QED
      BY <3>1, <3>2
  <2>7. ASSUME pc'[0] = "wait" \/ (pc'[0] = "wake" /\ k'[0] > 1) PROVE result'[0] = Value
    <3>1. CASE a = 0
      BY <2>1, <2>7, <3>1, MainStep
    <3>2. CASE a # 0
      BY <2>5, <2>7, <3>2 DEF Everyone, ResultInv
    <3> QED
      BY <3>1, <3>2
  <2> QED
    BY <2>6, <2>7
<1> QED
  BY <1>1, <1>2

\* ResultRight: what ask4-pipes and ask4-pipes-v2 print is the value of the
\* expression, for every tree, every order in which the processes run, and with one
\* pipe for each child or one for all children of a node.
THEOREM ResultHolds == Spec => []ResultRight
<1>1. Init => ResultInv
  BY TreeFacts DEF Init, ResultInv, Partial, Everyone
<1>2. TreeInv /\ ResultInv => ResultRight
  <2> SUFFICES ASSUME TreeInv, ResultInv, program \in Computing, IsExpression, Succeeded
               PROVE  result[0] = Value
    BY DEF ResultRight
  <2>1. Node(0) /\ Len(Kids(0)) = 1
    BY TreeFacts DEF TreeInv, TypeOK, LocalInv, Everyone
  <2>2. pc[0] = "wake" /\ k[0] > 1
    BY <2>1 DEF Succeeded, Node, Dead
  <2> QED
    BY <2>2 DEF ResultInv
<1> QED
  BY <1>1, <1>2, TreeInvariant, ResultStep, PTL DEF Spec
=============================================================================
