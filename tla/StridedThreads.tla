--------------------------- MODULE StridedThreads ---------------------------
(***************************************************************************)
(* Three programs of lab3 that share one shape: main() creates n threads,  *)
(* thread r works on r, r + n, r + 2n, ... and main() joins them.          *)
(*                                                                         *)
(*   ring   solutions/mandelbrot/mandel.c: a thread computes a line and    *)
(*          outputs it when the semaphore before it lets it                *)
(*   rows   solutions/mandelbrot/shared_mem2D/mandel.c: the threads fill   *)
(*          the rows of an array that main() outputs after the joins       *)
(*   array  sync/pthread-test.c: the threads multiply the elements of an   *)
(*          array, and main() verifies them after the joins                *)
(*                                                                         *)
(* The threads of the first two look up colours in a table of mandel-lib.c *)
(* that all of them fill, without a lock, whenever they look.              *)
(***************************************************************************)
EXTENDS Integers, Sequences, FiniteSets

CONSTANTS y_chars,       \* lines of the picture, elements of the array
          ThreadCounts,  \* the values of total_threads
          Colours,       \* entries of colortable
          Garbage        \* what malloc() may leave in semaphores[0]

ASSUME StridedAssumption ==
    /\ y_chars \in Nat \ {0} /\ Colours \in Nat \ {0}
    /\ ThreadCounts \subseteq Nat \ {0}
    /\ Garbage \subseteq Nat

VARIABLES
    program,        \* ring, rows or array
    total_threads,
    mode,           \* main: create, join, output, verify; then end, fail
                    \* (exit(1)) or undef (a join of a thread that is not there)
    i,              \* the index of main's loops
    pc,             \* thread -> none, loop, wait, print, post, store, done or missing
    index,          \* thread -> the line it is at
    entry,          \* thread -> the entries that its call of maketable() has written
    filled,         \* the entries of colortable that anybody has written
    reg,            \* thread -> the element between its load and its store
    sem,            \* the values of semaphores[]
    cell,           \* 1 when a row has been computed, or 2 with a table that was
                    \* not full; how often an element was multiplied
    out             \* the lines that were output

vars == <<program, total_threads, mode, i, pc, index, entry, filled, reg, sem, cell, out>>

Lines   == 0 .. y_chars - 1
Threads == 0 .. total_threads - 1

\* Mutant of Init: the whole ring may go.
Init_AllOnes ==
    /\ program \in {"ring", "rows", "array"}
    /\ total_threads \in ThreadCounts
    /\ mode = "create"
    /\ i = 0
    /\ pc = [r \in Threads |-> "none"]
    /\ index = [r \in Threads |-> r]
    /\ entry = [r \in Threads |-> 0] /\ filled = {}
    /\ reg = [r \in Threads |-> 0]
    /\ sem = [r \in Threads |-> 1]
    /\ cell = [l \in Lines |-> 0]
    /\ out = <<>>

\* The loop that initialises the semaphores starts at 1, and the sem_init()
\* behind it addresses semaphores[total_threads], which is not there: what it
\* overwrites is taken to be nobody's.
Init ==
    /\ program \in {"ring", "rows", "array"}
    /\ total_threads \in ThreadCounts
    /\ mode = "create"
    /\ i = 0
    /\ pc = [r \in Threads |-> "none"]
    /\ index = [r \in Threads |-> r]
    /\ entry = [r \in Threads |-> 0] /\ filled = {}
    /\ reg = [r \in Threads |-> 0]
    /\ \E g \in Garbage : sem = [r \in Threads |-> IF r = 0 THEN g ELSE 0]
    /\ cell = [l \in Lines |-> 0]
    /\ out = <<>>
-----------------------------------------------------------------------------
\* main(): creation and joins.

Looped(next) == IF i + 1 < total_threads THEN i' = i + 1 /\ mode' = mode
                                         ELSE i' = 0 /\ mode' = next

Create ==
    /\ mode = "create"
    /\ pc' = [pc EXCEPT ![i] = "loop"]
    /\ Looped("join")
    /\ UNCHANGED <<program, total_threads, index, entry, filled, reg, sem, cell, out>>

\* pthread_create() returns a positive number: "ret < 0" of the two mandelbrot
\* programs does not see it, pthread-test does.
CreateFails ==
    /\ mode = "create"
    /\ IF program = "array"
       THEN mode' = "fail" /\ UNCHANGED <<i, pc>>
       ELSE pc' = [pc EXCEPT ![i] = "missing"] /\ Looped("join")
    /\ UNCHANGED <<program, total_threads, index, entry, filled, reg, sem, cell, out>>

AfterJoins == CASE program = "ring"  -> "end"
                [] program = "rows"  -> "output"
                [] program = "array" -> "verify"

\* Mutant of Join: main() waits for one thread only.
Join_FirstOnly ==
    /\ mode = "join" /\ pc[i] = "done"
    /\ i' = 0 /\ mode' = AfterJoins
    /\ UNCHANGED <<program, total_threads, pc, index, entry, filled, reg, sem, cell, out>>

\* The tid of a thread that was not created is what malloc() left.
Join ==
    /\ mode = "join"
    /\ \/ pc[i] = "done" /\ Looped(AfterJoins)
       \/ pc[i] = "missing" /\ mode' = "undef" /\ i' = i
    /\ UNCHANGED <<program, total_threads, pc, index, entry, filled, reg, sem, cell, out>>

OutputRow ==
    /\ mode = "output"
    /\ out' = Append(out, i)
    /\ IF i + 1 < y_chars THEN i' = i + 1 /\ mode' = mode
                          ELSE i' = i /\ mode' = "end"
    /\ UNCHANGED <<program, total_threads, pc, index, entry, filled, reg, sem, cell>>

\* arr[i] != VAL1 * VAL2: "Internal error".
VerifyArray ==
    /\ mode = "verify"
    /\ mode' = IF \A l \in Lines : cell[l] = 1 THEN "end" ELSE "fail"
    /\ UNCHANGED <<program, total_threads, i, pc, index, entry, filled, reg, sem, cell, out>>
-----------------------------------------------------------------------------
\* The threads.  They die with main().

Runs(r, p) == mode \notin {"end", "fail", "undef"} /\ pc[r] = p

\* Mutant of Advance: the threads take turns of one line too few.
Advance_ByOne(r) ==
    /\ index' = [index EXCEPT ![r] = @ + 1]
    /\ pc' = [pc EXCEPT ![r] = "loop"]

Advance(r) ==
    /\ index' = [index EXCEPT ![r] = @ + total_threads]
    /\ pc' = [pc EXCEPT ![r] = "loop"]

Leave(r) ==
    /\ Runs(r, "loop") /\ index[r] >= y_chars
    /\ pc' = [pc EXCEPT ![r] = "done"]
    /\ UNCHANGED <<program, total_threads, mode, i, index, entry, filled, reg, sem, cell, out>>

Computes(r) == program # "array" /\ Runs(r, "loop") /\ index[r] < y_chars

\* Mutant of MakeTable: initialized = 1 when the table is begun.
MakeTable_Trusting(r) ==
    /\ Computes(r) /\ entry[r] < Colours
    /\ IF entry[r] = 0 /\ filled # {}
       THEN entry' = [entry EXCEPT ![r] = Colours] /\ filled' = filled
       ELSE entry' = [entry EXCEPT ![r] = @ + 1] /\ filled' = filled \cup {entry[r]}
    /\ UNCHANGED <<program, total_threads, mode, i, pc, index, reg, sem, cell, out>>

\* if (!initialized) maketable(): nothing ever sets initialized, so every call of
\* rgb2xterm() writes the table once more, and always the same.
MakeTable(r) ==
    /\ Computes(r) /\ entry[r] < Colours
    /\ entry' = [entry EXCEPT ![r] = @ + 1]
    /\ filled' = filled \cup {entry[r]}
    /\ UNCHANGED <<program, total_threads, mode, i, pc, index, reg, sem, cell, out>>

\* compute_mandel_line(); one point stands for all the points of the line.
ComputeLine(r) ==
    /\ Computes(r) /\ entry[r] = Colours
    /\ cell' = [cell EXCEPT ![index[r]] = IF filled = 0 .. Colours - 1 THEN 1 ELSE 2]
    /\ entry' = [entry EXCEPT ![r] = 0]
    /\ IF program = "ring" THEN pc' = [pc EXCEPT ![r] = "wait"] /\ index' = index
                           ELSE Advance(r)
    /\ UNCHANGED <<program, total_threads, mode, i, filled, reg, sem, out>>

SemWait(r) ==
    /\ Runs(r, "wait")
    /\ sem[r % total_threads] > 0
    /\ sem' = [sem EXCEPT ![r % total_threads] = @ - 1]
    /\ pc' = [pc EXCEPT ![r] = "print"]
    /\ UNCHANGED <<program, total_threads, mode, i, index, entry, filled, reg, cell, out>>

OutputLine(r) ==
    /\ Runs(r, "print")
    /\ out' = Append(out, index[r])
    /\ pc' = [pc EXCEPT ![r] = "post"]
    /\ UNCHANGED <<program, total_threads, mode, i, index, entry, filled, reg, sem, cell>>

\* Mutant of SemPost: the thread calls itself again.
SemPost_ToItself(r) ==
    /\ Runs(r, "post")
    /\ sem' = [sem EXCEPT ![r % total_threads] = @ + 1]
    /\ Advance(r)
    /\ UNCHANGED <<program, total_threads, mode, i, entry, filled, reg, cell, out>>

SemPost(r) ==
    /\ Runs(r, "post")
    /\ sem' = [sem EXCEPT ![(r + 1) % total_threads] = @ + 1]
    /\ Advance(r)
    /\ UNCHANGED <<program, total_threads, mode, i, entry, filled, reg, cell, out>>

\* arr[i] *= mul, a load and a store.
LoadElement(r) ==
    /\ program = "array" /\ Runs(r, "loop") /\ index[r] < y_chars
    /\ reg' = [reg EXCEPT ![r] = cell[index[r]]]
    /\ pc' = [pc EXCEPT ![r] = "store"]
    /\ UNCHANGED <<program, total_threads, mode, i, index, entry, filled, sem, cell, out>>

StoreElement(r) ==
    /\ Runs(r, "store")
    /\ cell' = [cell EXCEPT ![index[r]] = reg[r] + 1]
    /\ Advance(r)
    /\ UNCHANGED <<program, total_threads, mode, i, entry, filled, reg, sem, out>>
-----------------------------------------------------------------------------
Main == Create \/ CreateFails \/ Join \/ OutputRow \/ VerifyArray
Thread(r) == Leave(r) \/ MakeTable(r) \/ ComputeLine(r) \/ SemWait(r) \/ OutputLine(r)
             \/ SemPost(r) \/ LoadElement(r) \/ StoreElement(r)

Next == Main \/ \E r \in Threads : Thread(r)

Spec == Init /\ [][Next]_vars

\* Threads are scheduled, and a semaphore that stays positive is taken: only one
\* thread ever waits for each.
FairSpec == Spec /\ WF_vars(Main)
                 /\ \A n \in ThreadCounts : \A r \in 0 .. n - 1 : WF_vars(r \in Threads /\ Thread(r))
-----------------------------------------------------------------------------
TypeOK ==
    /\ program \in {"ring", "rows", "array"}
    /\ total_threads \in ThreadCounts
    /\ mode \in {"create", "join", "output", "verify", "end", "fail", "undef"}
    /\ i \in Nat
    /\ pc \in [Threads -> {"none", "loop", "wait", "print", "post", "store", "done", "missing"}]
    /\ index \in [Threads -> Nat]
    /\ entry \in [Threads -> 0 .. Colours] /\ filled \subseteq 0 .. Colours - 1
    /\ reg \in [Threads -> Nat]
    /\ sem \in [Threads -> Nat]
    /\ cell \in [Lines -> Nat]
    /\ out \in Seq(Nat)

\* start_fn() of the ring: no two threads are between sem_wait() and sem_post(),
\* so the characters of two lines are never mixed.
OnePrints ==
    \A r, s \in Threads : pc[r] \in {"print", "post"} /\ pc[s] \in {"print", "post"} => r = s

\* Both mandelbrot programs output line after line, whichever thread is first.
Picture == INSTANCE LineOutput
LinesInOrder == Picture!Spec

MissingFromRing == program = "ring" /\ \E r \in Threads : pc[r] = "missing"

\* Every program comes to its end, with the whole picture, unless it sees or
\* meets a thread that could not be created: the chain of sem_post() has no gap
\* once it may start, and no join waits for a thread that waits.
ProgramEnds ==
    (program # "ring" \/ \E r \in Threads : sem[r] > 0) ~>
        \/ mode = "end" /\ (program # "array" => Len(out) = y_chars)
        \/ mode \in {"fail", "undef"}
        \/ MissingFromRing

\* What is output has been computed, and with the right colours: main() joins first
\* and the strides leave out no row, and nobody searches a table of colours that is
\* not full, although all threads fill it and none of them waits for another.
OutputIsComputed ==
    program # "array" => \A k \in 1 .. Len(out) : cell[out[k]] = 1

\* The strides share out the elements: none is ever multiplied twice, and when
\* main() verifies them after the joins each has been multiplied, with no lock.
ArrayVerified ==
    program = "array" =>
        /\ mode = "verify" => \A l \in Lines : cell[l] = 1
        /\ \A l \in Lines : cell[l] <= 1
-----------------------------------------------------------------------------
\* "control access to critical section (output lines in corresponding sequence)
\* ... circular chain reaction" (mandel.c, lines 151-155): the lines come out.
ChainReaction == (program = "ring") ~> (Len(out) = y_chars \/ MissingFromRing)
=============================================================================
