------------------------------ MODULE ProcTree ------------------------------
(***************************************************************************)
(* The programs of lab2 that turn a tree into processes: each process      *)
(* forks its children, and main() forks the root.                          *)
(*                                                                         *)
(*   ask3-signals    3/ask3-signals.c: every process stops itself once its *)
(*                   children have, and they are woken depth first         *)
(*   ask4-pipes      4/ask4-pipes.c: what is woken also computes; a pipe   *)
(*                   for every child                                       *)
(*   ask4-pipes-v2   4/ask4-pipes-v2.c: a pipe for all children of a node  *)
(*   ex2_1           1/ex2_1.c: nobody stops, children are just collected; *)
(*                   always the tree with B and C below A and D below B    *)
(*   ex2_2           2/ex2_2.c: the same for any tree, last child first    *)
(*                                                                         *)
(* Process 0 is main(), with the root of the tree as its only child.  What *)
(* becomes of the others once main() has ended is left to the kernel.      *)
(***************************************************************************)
EXTENDS Integers, Sequences, FiniteSets, Processes

CONSTANTS Programs,  \* the programs to look at
          Trees,     \* the trees they are given
          Garbage    \* what the variable result may hold when it is not set

Waking    == {"ask3-signals", "ask4-pipes", "ask4-pipes-v2"}
Computing == {"ask4-pipes", "ask4-pipes-v2"}
Sleeping  == {"ex2_1", "ex2_2"}

\* A tree: the children of every node in order, what is below it, the operator
\* its name stands for and the number that atoi() makes of the name.
IsTree(t) ==
    LET Nodes == DOMAIN t.kids
        With(c) == {c} \cup t.below[c]     \* the subtree of c
    IN  /\ IsFiniteSet(Nodes) /\ Nodes \subseteq Nat \ {0} /\ t.root \in Nodes
        /\ t.kids \in [Nodes -> Seq(Nodes)]
        /\ t.below \in [Nodes -> SUBSET Nodes]
        /\ t.op \in [Nodes -> {"+", "*", "other"}]
        /\ t.num \in [Nodes -> Int]
        /\ Nodes = With(t.root)
        /\ \A c \in Nodes \ {t.root} : \E n \in Nodes : \E j \in DOMAIN t.kids[n] : t.kids[n][j] = c
        /\ \A n \in Nodes :
              /\ n \notin t.below[n] /\ t.root \notin t.below[n]
              /\ t.below[n] = UNION {With(t.kids[n][j]) : j \in DOMAIN t.kids[n]}
              /\ \A j \in DOMAIN t.kids[n] :
                    /\ t.kids[n][j] # t.root
                    /\ \A m \in Nodes : t.kids[n][j] \in t.below[m] <=> n \in With(m)
                    /\ \A m \in Nodes : \A l \in DOMAIN t.kids[m] :
                          t.kids[n][j] = t.kids[m][l] => n = m /\ j = l

ASSUME ProcTreeAssumption ==
    /\ Programs \subseteq Waking \cup Sleeping
    /\ \A t \in Trees : IsTree(t)
    /\ Garbage \subseteq Int /\ Garbage # {}

VARIABLES
    program, tree,
    proc,       \* process -> its state, see Processes
    code,       \* process -> 1 when it has exited with a failure, or 0
    pc,         \* process -> fork, ready, awake, wake, read, wait, collect,
                \* write or exit: what it does next
    k,          \* process -> the index of its loop over the children
    result,     \* process -> the variable result
    pipe        \* process -> the numbers in the pipe it keeps, see Pipe

vars == <<program, tree, proc, code, pc, k, result, pipe>>

Nodes    == DOMAIN tree.kids
Everyone == Nodes \cup {0}
Kids(n)  == IF n = 0 THEN <<tree.root>> ELSE tree.kids[n]
KidSet(n) == {Kids(n)[j] : j \in DOMAIN Kids(n)}
Parent(c) == CHOOSE n \in Everyone : c \in KidSet(n)

\* The pipe that process c writes to: its own, or the one of its siblings.
Pipe(c) == IF program = "ask4-pipes" THEN c ELSE Parent(c)

\* The tree of ex2_1: A, B, D and C.
ABDC == <<<<2, 4>>, <<3>>, <<>>, <<>>>>

Init ==
    /\ program \in Programs
    /\ tree \in Trees /\ (program = "ex2_1" => tree.kids = ABDC)
    /\ proc = [n \in Everyone |-> IF n = 0 THEN "running" ELSE "none"]
    /\ code = [n \in Everyone |-> 0]
    /\ pc = [n \in Everyone |-> "fork"]
    /\ k = [n \in Everyone |-> 1]
    /\ result = [n \in Everyone |-> 0]
    /\ pipe = [n \in Everyone |-> <<>>]

Runs(n, p) == proc[0] = "running" /\ proc[n] = "running" /\ pc[n] = p

GoesOn(n, p) == pc' = [pc EXCEPT ![n] = p]

\* exit(c): the descriptors are closed and the parent can collect the process.
Exits(n, c) ==
    /\ proc' = [proc EXCEPT ![n] = "zombie"]
    /\ code' = [code EXCEPT ![n] = c]
-----------------------------------------------------------------------------
\* The way down: children are created.

Fork(n) ==
    /\ Runs(n, "fork") /\ k[n] <= Len(Kids(n))
    /\ proc' = [proc EXCEPT ![Kids(n)[k[n]]] = "running"]
    /\ k' = [k EXCEPT ![n] = @ + 1]
    /\ UNCHANGED <<program, tree, code, pc, result, pipe>>

\* main() can show the tree of processes: when the root has stopped, or after
\* some seconds of sleep.
CanShow ==
    \/ Runs(0, "ready") /\ k[0] > 1
    \/ Runs(0, "wait") /\ program \in Sleeping

\* What a process may give up at: fork() and pipe(), malloc() at the start, which
\* ex2_2 does not look at and ex2_1 does not need, and system() in show_pstree().
GiveUp(n) ==
    /\ \/ /\ Runs(n, "fork")
          /\ k[n] <= Len(Kids(n)) \/ (Kids(n) = <<>> /\ program \in Waking)
       \/ n = 0 /\ CanShow
    /\ Exits(n, 1)
    /\ UNCHANGED <<program, tree, pc, k, result, pipe>>

AllForked(n) ==
    /\ Runs(n, "fork") /\ k[n] > Len(Kids(n))
    /\ IF program \in Waking
       THEN GoesOn(n, "ready") /\ k' = [k EXCEPT ![n] = 1]
       ELSE IF n = 0
       THEN GoesOn(n, "wait") /\ k' = [k EXCEPT ![n] = 1]
       ELSE GoesOn(n, "collect") /\ k' = [k EXCEPT ![n] = Len(Kids(n))]
    /\ UNCHANGED <<program, tree, proc, code, result, pipe>>

\* wait_for_ready_children(): waitpid(-1, &status, WUNTRACED), once per child.
ChildReady(n) ==
    /\ Runs(n, "ready") /\ k[n] <= Len(Kids(n))
    /\ \E c \in KidSet(n) : proc[c] = "stopped" /\ proc' = [proc EXCEPT ![c] = OnWait(@)]
    /\ k' = [k EXCEPT ![n] = @ + 1]
    /\ UNCHANGED <<program, tree, code, pc, result, pipe>>

\* "Child with PID has died unexpectedly!"
ChildDied(n) ==
    /\ Runs(n, "ready") /\ k[n] <= Len(Kids(n))
    /\ \E c \in KidSet(n) :
          /\ proc[c] = "zombie"
          /\ proc' = [proc EXCEPT ![c] = OnWait(@), ![n] = "zombie"]
    /\ code' = [code EXCEPT ![n] = 1]
    /\ UNCHANGED <<program, tree, pc, k, result, pipe>>

\* Mutant of Suspend: the process does not wait for its children.
Suspend_Early(n) ==
    /\ Runs(n, "ready") /\ n # 0
    /\ proc' = [proc EXCEPT ![n] = "stopped"]
    /\ GoesOn(n, "awake") /\ k' = [k EXCEPT ![n] = 1]
    /\ UNCHANGED <<program, tree, code, result, pipe>>

\* raise(SIGSTOP).
Suspend(n) ==
    /\ Runs(n, "ready") /\ n # 0 /\ k[n] > Len(Kids(n))
    /\ proc' = [proc EXCEPT ![n] = "stopped"]
    /\ GoesOn(n, "awake") /\ k' = [k EXCEPT ![n] = 1]
    /\ UNCHANGED <<program, tree, code, result, pipe>>

\* main(): show_pstree(); where nobody has stopped it is a part of AllForked.
ShowTree ==
    /\ Runs(0, "ready") /\ k[0] > 1
    /\ GoesOn(0, "wake") /\ k' = [k EXCEPT ![0] = 1]
    /\ UNCHANGED <<program, tree, proc, code, result, pipe>>
-----------------------------------------------------------------------------
\* The way up: children are woken one after the other.

\* Mutant of FirstResult: products start at 0.
FirstResult_Zero(n) == IF Kids(n) = <<>> THEN {tree.num[n]}
                       ELSE IF tree.op[n] = "other" THEN Garbage
                       ELSE {0}

\* A name that is no operator leaves the variable unset.
FirstResult(n) == IF Kids(n) = <<>> THEN {tree.num[n]}
                  ELSE IF tree.op[n] = "other" THEN Garbage
                  ELSE {IF tree.op[n] = "*" THEN 1 ELSE 0}

\* "is awake".
Awake(n) ==
    /\ Runs(n, "awake")
    /\ IF program \in Computing
       THEN /\ \E r \in FirstResult(n) : result' = [result EXCEPT ![n] = r]
            /\ GoesOn(n, IF Kids(n) = <<>> \/ tree.op[n] = "other" THEN "write" ELSE "wake")
       ELSE GoesOn(n, "wake") /\ UNCHANGED result
    /\ UNCHANGED <<program, tree, proc, code, k, pipe>>

\* Mutant of Wake: the next child is woken without waiting for this one.
Wake_All(n) ==
    /\ Runs(n, "wake") /\ k[n] <= Len(Kids(n))
    /\ LET c == Kids(n)[k[n]] IN proc' = [proc EXCEPT ![c] = OnCont(@)]
    /\ IF k[n] < Len(Kids(n)) THEN k' = [k EXCEPT ![n] = @ + 1] /\ pc' = pc
       ELSE GoesOn(n, IF program \in Computing THEN "read" ELSE "wait") /\ k' = k
    /\ UNCHANGED <<program, tree, code, result, pipe>>

\* kill(pid[i], SIGCONT).
Wake(n) ==
    /\ Runs(n, "wake") /\ k[n] <= Len(Kids(n))
    /\ LET c == Kids(n)[k[n]] IN proc' = [proc EXCEPT ![c] = OnCont(@)]
    /\ GoesOn(n, IF program \in Computing THEN "read" ELSE "wait")
    /\ UNCHANGED <<program, tree, code, k, result, pipe>>

Combined(n, x) == CASE n = 0 -> x
                    [] n # 0 /\ tree.op[n] = "+" -> result[n] + x
                    [] n # 0 /\ tree.op[n] = "*" -> result[n] * x

\* read(): there is never an end of file, the reader has the write end as well.
Read(n) ==
    /\ Runs(n, "read")
    /\ LET p == Pipe(Kids(n)[k[n]])
       IN  /\ pipe[p] # <<>>
           /\ result' = [result EXCEPT ![n] = Combined(n, Head(pipe[p]))]
           /\ pipe' = [pipe EXCEPT ![p] = Tail(@)]
    /\ GoesOn(n, "wait")
    /\ UNCHANGED <<program, tree, proc, code, k>>

\* wait(&status): any child that has ended.
Wait(n) ==
    /\ Runs(n, "wait")
    /\ \E c \in KidSet(n) : proc[c] = "zombie" /\ proc' = [proc EXCEPT ![c] = OnWait(@)]
    /\ k' = [k EXCEPT ![n] = @ + 1]
    /\ GoesOn(n, "wake")
    /\ UNCHANGED <<program, tree, code, result, pipe>>

AllWoken(n) ==
    /\ Runs(n, "wake") /\ k[n] > Len(Kids(n))
    /\ IF program \in Computing /\ n # 0
       THEN GoesOn(n, "write") /\ UNCHANGED <<proc, code>>
       ELSE Exits(n, 0) /\ pc' = pc
    /\ UNCHANGED <<program, tree, k, result, pipe>>

\* Mutant of Write: into the pipe of the children instead of the parent's.
Write_Down(n) ==
    /\ Runs(n, "write")
    /\ pipe' = [pipe EXCEPT ![IF Kids(n) = <<>> THEN n ELSE Pipe(Kids(n)[1])] = Append(@, result[n])]
    /\ GoesOn(n, "exit")
    /\ UNCHANGED <<program, tree, proc, code, k, result>>

Write(n) ==
    /\ Runs(n, "write")
    /\ pipe' = [pipe EXCEPT ![Pipe(n)] = Append(@, result[n])]
    /\ GoesOn(n, "exit")
    /\ UNCHANGED <<program, tree, proc, code, k, result>>

Exit(n) ==
    /\ Runs(n, "exit") /\ Exits(n, 0)
    /\ UNCHANGED <<program, tree, pc, k, result, pipe>>

\* ex2_2: while (i--) waitpid(pid[i], ..), then a leaf sleeps and all exit.
\* ex2_1: a wait() for every child.
Collect(n) ==
    /\ Runs(n, "collect")
    /\ IF k[n] > 0
       THEN \E c \in KidSet(n) :
                /\ program = "ex2_2" => c = Kids(n)[k[n]]
                /\ proc[c] = "zombie" /\ proc' = [proc EXCEPT ![c] = OnWait(@)]
                /\ k' = [k EXCEPT ![n] = @ - 1]
                /\ code' = code
       ELSE Exits(n, 0) /\ k' = k
    /\ UNCHANGED <<program, tree, pc, result, pipe>>
-----------------------------------------------------------------------------
Process(n) ==
    \/ Fork(n) \/ GiveUp(n) \/ AllForked(n) \/ ChildReady(n) \/ ChildDied(n)
    \/ Suspend(n) \/ Awake(n) \/ Wake(n) \/ Read(n) \/ Wait(n) \/ AllWoken(n)
    \/ Write(n) \/ Exit(n) \/ Collect(n)

Next == ShowTree \/ \E n \in Everyone : Process(n)

Spec == Init /\ [][Next]_vars

\* The kernel schedules every process that does not wait for something; no call
\* has to fail.
FairSpec ==
    Spec /\ WF_vars(ShowTree)
         /\ \A n \in {0} \cup UNION {DOMAIN t.kids : t \in Trees} :
               WF_vars(n \in Everyone /\ Process(n) /\ ~GiveUp(n))
-----------------------------------------------------------------------------
TypeOK ==
    /\ program \in Programs
    /\ tree \in Trees
    /\ proc \in [Everyone -> ProcStates]
    /\ code \in [Everyone -> {0, 1}]
    /\ pc \in [Everyone -> {"fork", "ready", "awake", "wake", "read", "wait",
                            "collect", "write", "exit"}]
    /\ k \in [Everyone -> Nat]
    /\ result \in [Everyone -> Int]
    /\ pipe \in [Everyone -> Seq(Int)]

\* main() of the programs that use wait_for_ready_children(): when it shows the
\* tree of processes, all of them exist and none executes, so that the picture
\* is complete and cannot change while it is taken.
TreeShown ==
    program \in Waking /\ Runs(0, "wake") /\ k[0] = 1 => \A n \in Nodes : proc[n] \in Halted

\* The wake-ups go depth first: of two processes that have been woken and not
\* collected, one is below the other.
Woken(n) == pc[n] \in {"awake", "wake", "read", "wait", "write", "exit"}
            /\ proc[n] \in {"running", "zombie"}

OneBranchAwake ==
    program \in Waking => \A m, n \in Nodes :
        Woken(m) /\ Woken(n) => m = n \/ m \in tree.below[n] \/ n \in tree.below[m]

\* wait() takes any child, and a read takes what any child has written: both get
\* the child that was just woken, even where all share a pipe.
AnswersAreOwn ==
    program \in Waking => \A n \in Everyone :
        LET c == Kids(n)[k[n]]
        IN  pc[n] \in {"read", "wait"} /\ proc[n] = "running" =>
                /\ \A d \in KidSet(n) : proc[d] = "zombie" => d = c
                /\ pc[n] = "read" => pipe[Pipe(c)] \in {<<>>, <<result[c]>>}
                /\ pc[n] = "wait" => pipe[Pipe(c)] = <<>>

IsExpression == \A n \in Nodes : tree.op[n] = "other" => tree.kids[n] = <<>>

\* What node n has got when it has combined the values of its first j children.
UpTo(n, value) ==
    LET upto[j \in 0 .. Len(tree.kids[n])] ==
            IF j = 0 THEN IF tree.op[n] = "*" THEN 1 ELSE 0
            ELSE IF tree.op[n] = "*" THEN upto[j - 1] * value[tree.kids[n][j]]
                                     ELSE upto[j - 1] + value[tree.kids[n][j]]
    IN  upto

\* The value of every node, and of the tree, by its definition.
Values ==
    LET value[n \in Nodes] == IF tree.kids[n] = <<>> THEN tree.num[n]
                              ELSE UpTo(n, value)[Len(tree.kids[n])]
    IN  value

Value == Values[tree.root]

Succeeded == proc[0] = "zombie" /\ code[0] = 0

\* "Result of tree is: ".
ResultRight == program \in Computing /\ IsExpression /\ Succeeded => result[0] = Value

\* A process that ends without a failure has collected all its children, and none
\* of them had failed; only ex2_1 and ex2_2 do not care how a child ended.  So when
\* main() returns 0 the whole tree was there and nothing of it is left.
NothingLeft ==
    program \notin Computing \/ IsExpression =>
        \A n \in Everyone : proc[n] \in Dead /\ code[n] = 0 =>
            \A c \in KidSet(n) : /\ proc[c] = "gone"
                                 /\ program \in Waking => code[c] = 0

\* Whichever fork(), pipe(), malloc() or system() fails, main() ends.
MainEnds == <>(proc[0] = "zombie")
=============================================================================
