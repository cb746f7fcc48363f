# A verification of the operating-systems laboratory programs

The repository holds four sets of C programs, one per laboratory: file copying
(lab1), trees of processes (lab2), synchronisation of threads (lab3) and a
round-robin scheduler in user space (lab4). All programs that carry logic of
their own are modelled in TLA+; TLC checks small instances, and TLAPS proves the
main results for every value of the constants. Paths below are relative to `src/`.

## 1. Inventory

### Scheduler (`lab4/solutions/scheduler-shell`)

- **State.** `procList[]`, the table of tasks; `highPriority[]` and
  `lowPriority[]`, two arrays with the same pointers, used only for whether an
  entry is NULL; `highProcs` and `lowProcs`, counters kept by hand; `runningID`;
  `flag`, set by the first alarm; the signal mask, pending signals and the alarm;
  two pipes to the shell; the states of the children.
- **Operations.** `main()` forks the shell and one child per argument, waits for
  them to stop themselves, installs two handlers, continues the shell and serves
  its requests: print, kill by id, start a program, raise, lower, quit.
  `sigalrm_handler()` stops the running task when a quantum ends;
  `sigchld_handler()` collects reports in a loop and resumes the next task,
  which `sfind()` picks.
- **Interaction.** The handlers interrupt `main()` anywhere except while a
  request is served, and mask each other. The table is shared by three contexts:
  request loop, alarm handler, child handler. The kernel stops and kills children
  some time after `kill()` returns. The shell is one of the tasks it controls.
- **Hard.** Order of signals and reports; three copies of one fact (queue,
  counter, priority); pids of children that are already dead; a search without
  end inside a handler; a report that is never collected.
- **Correct means.** Queues and counters agree with the table; no living child is
  forgotten and no dead one is signalled; nothing but the shell runs in the first
  quantum; high priority goes first; one task executes at a time; every task has
  its turn; after the shell is gone the scheduler ends.

### Kindergarten (`lab3/solutions/kindergarten`, `lab3/lab3/solutions/kgarten`)

- **State.** The counters `vt` and `vc`, the ratio, one mutex; in `kgarten-2.c`
  the conditions `cond1` (children) and `cond2` (teachers).
- **Operations.** `child_enter`, `child_exit`, `teacher_enter`, `teacher_exit`,
  each one critical section or, while it waits, several; `verify()` inside each,
  or, in the earlier version, in a critical section of its own afterwards.
- **Hard.** Wakeups handed on one by one, wakeups without cause, two conditions
  that depend on the same two counters, threads that take what was signalled to
  another, a check that looks at a later state than the one it is for.
- **Correct means.** Never more than `ratio` children per teacher in the room; no
  lost wakeup; no child asleep for ever beside room; the version with conditions
  lets threads pass exactly when the busy-waiting one does.

### Mandelbrot and the striped array (`lab3/solutions/mandelbrot`, `lab3/sync`)

- **State.** A ring of semaphores, or a shared array of rows, or a shared array of
  numbers; the index of each thread; the table of colours in `mandel-lib.c`.
- **Operations.** `main()` creates n threads and joins them; thread r works on r,
  r + n, r + 2n, ...; in the ring it outputs its line between `sem_wait()` and
  `sem_post()` to the next; in shared memory `main()` outputs the rows after the
  joins; `pthread-test.c` verifies the array after them.
- **Hard.** A semaphore that is never initialised; threads that could not be
  created; threads that leave the ring at different times; a table that every
  thread fills while others search it.
- **Correct means.** Lines in order, none twice and none mixed with another; what
  is output has been computed, with a full table; strides share out the work; no
  thread waits for ever once the ring may start.

### Simplesync (`lab3/solutions/simplesync`, `lab3/sync/simplesync_v1.c`)

One counter, two threads, one upwards and one downwards, with a mutex, with atomic
operations, or with neither. **Correct means** that the counter is 0 at the end in
the two synchronised builds, and that they do the same to it.

### Process trees (`lab2/solutions/1` to `4`)

- **State.** The processes of a tree and their states; the loops over the children;
  pipes and the numbers in them; `result`; exit codes.
- **Operations.** Fork the children; wait until each has stopped itself; stop; wake
  the children one after the other, read what they computed, collect them; write
  one's own result; exit.
- **Interaction.** Signals, pipes and exit codes between parent and child; main()
  takes a picture of the tree between the way down and the way up.
- **Hard.** A SIGCONT before the stop it is for would be lost; siblings share a pipe
  and `wait()` takes any child; a reader holds the write end of its own pipe; a
  `fork()` that fails deep in the tree.
- **Correct means.** The tree is complete and at rest when it is shown; processes wake
  depth first; an answer is the one of the child that was asked; the result is the
  value of the expression; whoever ends without failure leaves nothing behind;
  main() ends whatever fails.

### Tree files (`tree.c` of lab2)

A recursive reader of blocks (name, number, names of the children, empty line).
**Correct means** that what is accepted is a tree whose blocks come depth first and
agree with what the parents announced, and that the file of a tree is read as it.

### Fconc (`lab1/file_concat/fconc.c`)

- **State.** Three descriptors, a buffer, the position in it.
- **Operations.** Check of the names, open, a read loop around `writep()`, which writes
  until the buffer is empty and tries again when it is interrupted, close.
- **Hard.** Short and interrupted writes; errors that nobody looks at; an output that is
  one of the inputs.
- **Correct means.** The output is what it held before and both inputs behind it, each
  byte once and in order; inputs are never written to; the program ends.

### The rest

`zing` prints a line; `rand-fork.c` prints random numbers; the exercises as handed out
are skeletons; the examples show single system calls. Their comments are used as
claims of what the solutions are to do. Build products and reports hold no logic.

## 2. Plan

What is most concurrent and least testable came first.

1. `Processes`, `TaskTable`, `Scheduler`, and proofs of both.
2. `Kgarten` (abstract), `KgartenCond` (implements it), and proofs; then the earlier
   busy-waiting version in `Kgarten`.
3. `LineOutput` (abstract) and `StridedThreads`: the ring, the shared rows and the
   array have one shape and are one module, then with the table of colours; proofs.
4. `SimpleSync`, and `SimpleSyncAtomic`, which shows that one build implements the
   other; proofs.
5. `ProcTree`: the five programs that make a tree of processes; proofs.
6. `Fconc` and proofs; `TreeFile` and proofs.

Every invariant and every step property that a run checks has a theorem. What is left
to TLC alone is liveness. What would come next: the copies that the exercises hold of
these programs, where they differ from the solutions.

## 3. Modules

| module | models | kind |
|---|---|---|
| `Processes` | what kill() and waitpid() do to a child | operators, external |
| `TaskTable` | procList, queues, counters and the operations on them | component, abstract for `Scheduler` |
| `Scheduler` | main, request loop, handlers, children, kernel, timer, user | composition |
| `Kgarten` | kgarten.c, in both versions | component, abstract for `KgartenCond` |
| `KgartenCond` | kgarten-2.c | component |
| `LineOutput` | the lines of the picture, one after the other | abstract for `StridedThreads` |
| `StridedThreads` | both parallel mandelbrot programs, the table of colours, pthread-test.c | component |
| `SimpleSync`, `SimpleSyncAtomic` | the three builds; the refinement between two of them | component, its own abstraction |
| `ProcTree` | ask3-signals, ask4-pipes, ask4-pipes-v2, ex2_1, ex2_2 | composition, over `Processes` |
| `TreeFile` | tree.c | component |
| `Fconc` | fconc.c | component |
| `MCScheduler`, `MCProcTree`, `MCTreeFile`, `MCFconc` | sets of requests, trees, files and command lines | for TLC |
| `SchedulerProof` (also of `TaskTable`), `KgartenProof`, `KgartenCondProof`, `StridedThreadsProof`, `SimpleSyncProof`, `ProcTreeProof`, `TreeFileProof`, `FconcProof` | theorems | proofs |

Definitions named `X_Something` beside a definition `X` are mutants: `X` with a
plausible mistake. They are used by no specification; each property is known to
fail when one of them replaces its original.

### Scheduler: state and actions against the code

A variable has the name it has in the code where there is one. A priority array is
the set of the slots whose entry is not NULL (`high`, `low`), since the code asks
nothing else of it. `pc` says where `main()` is: `wait` in
`wait_for_ready_children()`, `read` at the head of the request loop, `got` in
`process_request()`, `reply` before the `write()`, `pause` at the end. `mode` is
`main`, `chld` inside the SIGCHLD handler, or how the program ended: `exit0`,
`fail` (exit(1)), `spin` (`sfind()` never returns), `segv` (NULL followed), `undef`
(index out of an array). In the last two, C says nothing of what comes after, and
the model stops there.

- One action per request (`ServeKill`, `ServeExec`, `ServePriority`, `ServeQuit`,
  `ServePrint`): `process_request()` runs with both signals masked, so no handler
  sees it half done.
- `SigalrmHandler` is one action: nothing of it waits, and SIGCHLD is masked.
- The SIGCHLD handler is one action per round of its `waitpid()` loop (`ReapStopped`,
  `ReapTask`, `ReapUnknown`, `ReapIgnored`, `WaitNone`), since children change
  state between rounds. `ReapUnknown` is the `break` of line 381.
- `sigchld` and `sigalrm` are pending bits: signals of one kind are not queued.
- `KernelStop`, `KernelKill` carry out a signal some time after `kill()`. A child
  that was just forked is in `booting` until its `raise(SIGSTOP)` (`BootStop`).
- `ReadEOF` and `Reply` cover a shell that has died; its descriptors are closed when
  it is a zombie. The shell itself is `ShellAsks`, `ShellGetsReply` and `Exit`.
- `WaitReady` can fail in the model as in `wait_for_ready_children()`, when a child is
  dead instead of stopped; but no child of the model dies before its `raise(SIGSTOP)`,
  so it never does.
- `nproc` never changes. It is what tells the tasks of e from those of `main()`:
  `Started` is the children with a pid beyond nproc, which is what `CountersRight`
  needs. No action of the program looks at that set.

What the counters are worth is said exactly by `CountersRight`: `highProcs` is the
number of high tasks; `lowProcs`, while the shell is in the table, is the number of low
ones less one for the shell, whatever its priority, and less one for every task e has
ever started. So the test of `k 0` and the one of q are right as long as e was not used
and the shell has low priority (`CompanyIsKnown`, proved), and may be wrong in either
direction otherwise. With one task at the start: after e, `k 1` both counters are 0, so
`k 0` is obeyed and q does not kill the other task; after e, `k 1`, `k 2` `lowProcs` is
-1, so `k 0` is refused though there is no task; after `h 0` it is refused because the
shell itself counts.

Abstractions: names and output are left out; pids are handed out once, in order, and
`fork()` fails only when none is left; the pid of a collected child answers ESRCH
and is never reused (`TasksAreChildren` is what would protect the program against
reuse). More arguments than slots is excluded by an assumption (`NProcs`), as the
code does not look.

### Kindergarten: state and actions against the code

Every access to the counters happens with the mutex held, so a critical section is
one action, from the lock (or the return of a wait) to the unlock (or the next
wait). In `Kgarten`, `inside` is who is in the room, whatever the counters say;
`earlier` chooses the version whose threads verify later, in critical sections of
their own (`due`, `VerifyLater`). In `KgartenCond`, `at` says of each thread whether
it is `out`, `in`, asleep in `pthread_cond_wait()` (`wait`) or on its way back
(`woken`), when others may still get the mutex first. A signal wakes one sleeper of
the condition if there is one, a broadcast all, and `SpuriousWakeup` is what POSIX
allows besides. The busy loops of `kgarten.c` are disabled actions.

Refinement: `KgartenCond` implements `Kgarten` with `inside <- Inside`, where a
child that waits is outside and a teacher that waits is inside. Blocking and waking
up change nothing that `Kgarten` sees; the other four actions map to those of the
same name.

### Strided threads: state and actions against the code

`program` chooses among the ring, the rows and the array. `mode` and `i` are the
place and the loop index of `main()`: creating, joining, output, verification.
`pc[r]` is the place of thread r in its loop and `index[r]` its line or element.

- `MakeTable` is one turn of the loop of `maketable()`: `entry[r]` is how many entries
  the call of thread r has written, `filled` what anybody has written. `ComputeLine`
  needs the call to be over, and records whether the table was full when it was
  searched (`cell` 1 or 2). One point stands for all points of a line, since each
  point makes the same call. Colours are left out; that a second call writes the same
  values again is what lets `filled` only grow.
- `SemWait`, `OutputLine`, `SemPost` are the three steps of the critical section.
- `LoadElement` and `StoreElement` are the two halves of `arr[i] *= mul`.
- `CreateFails` is a `pthread_create()` that returns an error: `ret < 0` of the two
  mandelbrot programs misses it, and the join of the missing thread is undefined
  (`undef`).
- `Garbage` is what fresh memory may hold in `semaphores[0]`.

Refinement: `StridedThreads` implements `LineOutput`, for the ring and for the rows,
with the identity as mapping; for the array, `out` stays empty.

### Simplesync: state and actions against the code

Loads and stores of the counter are separate steps, also inside the critical section.
`mode` is the place of `main()`, with the failure of either `pthread_create()`. In
`SimpleSyncAtomic` the build with the mutex implements the one with atomic
operations: a thread inside is mapped to one in front of its update, and the store is
the update.

### Process trees: state and actions against the code

Process 0 is `main()`, with the root as its only child. `proc` holds the kernel's view
of each process (`Processes`: running, stopped, stopped and reported, zombie, gone),
`pc` and `k` the place in `explore_tree()`/`fork_procs()` and the index of its loops.
One action is what lies between two calls of the kernel. `GiveUp` is every call that may
fail: `fork()`, `pipe()`, `malloc()`, and `system()` when `main()` shows the tree. `ShowTree`
is `show_pstree()` when it succeeds; the two programs with sleeps may call it at any time
before they collect the root, so there only the failure is a step. Fairness does not
reach `GiveUp`: a process that could only go on by failing would be stuck. The five
programs share the
way down (`Fork`, `GiveUp`, `AllForked`); three of them stop and are woken
(`ChildReady`, `ChildDied`, `Suspend`, `ShowTree`, `Awake`, `Wake`, `Wait`, `AllWoken`);
two of these compute on the way up (`Read`, `Write`, `Exit`); the two with sleeps only
collect (`Collect`). `Pipe(c)` is what distinguishes the two programs with pipes.

A tree is a constant, any that `IsTree` admits: `below` makes "is below" available
without recursion. A leaf has a number, an inner node an operator; a name that is
neither `+` nor `*` leaves `result` unset (`Garbage`). Left out: a numeric overflow of
the result, real time (the sleeps), and what the kernel does with processes whose
`main()` has ended.

### Tree files: state and actions against the code

`parse_node()` calls itself for the children in order, so the stack of its calls is a
list of names still `expected`. `ParseNode` is one block read, `Reject` every way out
with exit(1), `EmptyFile` the one that returns NULL. A line is a sequence of
characters, because lengths matter here: names are stored with one character less
than they are compared with, and the last line loses its last character if it does
not end with a newline. `atol()` skips blanks (which stand for all white space), takes a
sign of either kind and the digits up to the first other character, and says 0 when
there are none. The number of children is unsigned, so it is taken modulo `UNSIGNED`
(2^32 in C, 18 in the run).

What a tree is, is said apart from the reader: in a depth-first list of nodes, `After[i]`
is where the subtree of node i has ended, and a child begins where the one before it has
(`ChildAt`). `Layout` is the text of such a list and `Describes` the files that hold it:
any comments and empty lines before a block, the last empty line may be missing, what
comes behind is not read.

### Fconc: state and actions against the code

`disk` holds the contents, `pos` the offsets of the inputs, `buffer` what was read and
not yet written. `Read` and `Write` take any number of bytes that is possible;
`Interrupted` is EINTR or EAGAIN, after which `writep()` tries again; `WriteFails` is
every other error, which `main()` ignores; `ReadFails` is taken for the end of the
file, as in the code. Two names may stand for one file. `Usage` is the first test of
`main()`: a wrong number of names, or `--help` as the first one, is answered with the
usage and an exit with 0, whatever the other names are, and so is an output named after
an input. These calls copy nothing, and `DoneMeansCopied` speaks of the others.

## 4. Runs

| run | instance | question |
|---|---|---|
| `sched_safety` | table of 3, 3 pids, 0 to 2 tasks at start, every command, ids from -1 to MAX_TASKS + 1, kernel of any speed | queues and counters; no child lost or stale; nothing runs early; high goes first; the handlers use the table as `TaskTable` allows |
| `sched_live` | table of 4, 1 to 3 tasks, h, l and q, prompt kernel, fair | one task executes at a time; round robin starves nobody; quitting ends the program |
| `sched_freeze` | 1 task, `k 1`; violated | the early `break` of the SIGCHLD handler leaves reports behind, and the whole system freezes |
| `sched_spin` | 1 task, e and k 0; violated | `sfind()` searches two empty queues for ever |
| `kgarten_busy` | 5 children, 3 teachers, ratio 2, both versions | the ratio holds and `verify()` is silent |
| `kgarten_cond` | 5 children, 3 teachers, ratio 2, fair | no lost wakeup; implements `Kgarten`; with room for good no child sleeps for ever |
| `strided` | 1 to 4 threads, 5 lines, 3 colours, `semaphores[0]` 0 or 1, fair | lines in order and whole, computed first and with a full table; the array is right; the programs end |
| `strided_uninit` | 1 or 2 threads, 3 lines, `semaphores[0]` 0; violated | the ring never starts |
| `simple_sync` | 4 iterations, three builds, fair | the sum is 0; mutex implements atomic; the racy build keeps its bounds; all end |
| `proc_tree` | six trees of 1 to 7 nodes, five programs, any call may fail, fair | complete at the picture; depth first; own answers; the right result; nothing left; `main()` ends |
| `tree_file` | all files of up to 4 lines of 7 kinds; the files of all trees of up to 4 nodes, with three kinds of lines before every block or every other one and three endings; those of up to 3 nodes with one line replaced, by numbers behind blanks and signs too | what is accepted is a tree, what is a tree is accepted; types; reading ends |
| `fconc` | 7 names (`--help` is one, and also a file), files of up to 4 bytes, buffer of 3, disk of 11, any call may fail | bytes neither lost nor repeated; inputs kept; done means copied; the program ends |

The violated runs state what a comment of the repository says and the code does not
do; PROJECT.json quotes the comment of each.

**Bounds.** A table of 3 has the shell, one task beside it and a second one to
compete with; two tasks and the shell already give every relation of `runningID`,
`j` and the slot found, a full table, and a slot used twice. A fourth slot is used
where a circle of three matters (turns). Pids are as many as slots, so that a table
emptied by k runs into a failing fork. Indices are inside the table, at its edge and
on both sides outside. With ratio 2, three teachers and five children the room can be
empty, partly and completely full, with one and with two teachers able to leave, and
with children left over outside. Five lines are not a multiple of 2, 3 or 4, so
threads leave the ring at different times; with four threads one of them has two
lines and the others one; three colours let one thread search the table while a second is
at its beginning and a third in its middle. Four iterations let both threads overtake each
other in a load and a store. The trees have a leaf, a chain, a node of three children,
both operators, a name that is none, and the one of `forktree/expr.tree`. Four lines
hold a smallest tree and everything that can go wrong before and after it; layouts of
four nodes have every shape in which a child comes after a subtree. A file of 4 bytes
takes more than one buffer and one of 3 bytes exactly one; 11 bytes are
enough for every proper copy, and are filled by the copy of a file to its own end.

**Deadlock.** It is not checked for (`CHECK_DEADLOCK FALSE`) where programs end, or
where a user may say nothing (scheduler). What a deadlock would be there, a liveness
property says: `QuitEnds`, `ProgramEnds`, `Terminates`, `MainEnds`, `Ends`. The
kindergarten runs do check, though a thread asleep may always wake up without cause in
`KgartenCond`; what a deadlock would mean there is `NoChildForgotten` and
`NoTeacherForgotten`.

**Timing.** `Timely` says that the kernel finishes what was begun (signals under way,
new children, requests) before a quantum of two seconds ends. `sched_safety` and all
proofs but one do without it. `sched_live` and `TurnsExclusive` need it: with a slower
kernel two tasks may execute for a moment, and a stop may land after the next resume.

**Fairness** (`FairSpec` of each module).

- *Scheduler.* Weak for the program's own steps and for the kernel, which carries out
  a signal once sent, and for a shell that reads its reply. Strong for the delivery of
  pending signals and the alarm: a busy user opens and closes the window in which a
  handler may start, but the signal stays pending and the window is open again after
  every request. None for the user and for the end of tasks.
- *Kindergarten.* Every thread that is not asleep gets the mutex some time: the threads
  sleep between their calls, and the mutex is held for a few instructions.
- *Strided threads, simplesync, process trees.* Weak fairness of `main()` and of each
  thread or process: they are scheduled. Nothing is assumed of who gets a mutex, and a
  semaphore of the ring has one waiter only.
- *Tree files.* The one thread runs.
- *Fconc.* The program goes on, and a write that is interrupted again and again goes
  through, or fails, in the end. Without the second there is no promise, since
  `writep()` has no bound on its tries.

## 5. Proofs

Assumptions are the named `ASSUME`s of the modules: a table with a slot for the shell,
as many pids as initial tasks, a positive ratio, finite and disjoint sets of threads,
at least one line, colour and thread, trees that are trees, contents that are
sequences of bytes. Two theorems of `StridedThreads` also assume that `semaphores[0]`
starts at 0 or 1 (`PictureInOrder`, `OneThreadPrints`), and `InputsStay` that no file
has two names (`OneNameEach`), which is exactly what `warning()` cannot see.

- **The table** (`SchedulerProof`, first part). `TableInv` joins the types, `QueuesMatch`,
  `DistinctPids`, `HighCounted` and `LowNotOvercounted`. The parts need each other:
  `sched_change_priority()` moves the counters by what the queues hold, removal by the
  priority of the task, and `QueuesMatch` is what makes the two the same. Of the table
  alone `lowProcs` can only be bounded, because it says nothing of who started a task.
- **The counters** (`CountersHold`, `CompanyIsKnown`). `Gap` is what `lowProcs` lacks.
  Raising, lowering and removing keep it (`PriorityGap`, `RemoveGap`), e adds one
  (`CreateGap`). That the set `Started` also grows by one needs that e is given a new pid
  beyond nproc, because `main()` has used all pids up to it; `CountInv` is these two
  facts, and the gap is then one for the shell and one for every e. Without e and with
  a shell of low priority both tests of the counters follow.
- **The scheduler** (`SchedulerProof`). `SchedInv` adds where the shell is and, for
  every child, how its state and its slot belong together: alive means in the table;
  in the table means not collected; before the first alarm only the shell has been
  continued. The last part is what makes the first inductive: reports consumed before
  `flag` is set empty no slot, and this is right only because no task can have died
  of itself by then. Every action is a step of `TaskTable` or leaves the table alone
  (`SchedulerUsesTable`), so the table's theorem carries over. `HighFirstHolds` is an
  action property from the same invariant.
- **One task at a time** (`TurnsExclusive`). `TurnInv` says that from the start on a task
  that executes, *or whose stop has not been looked at yet*, is the one in `runningID`:
  so at most one stop is there for the handler to see, and it hands on one turn. Stops of
  the first quantum are looked at before the first alarm, when they change nothing. The
  hypothesis `Prompt` is `Timely`, and no request that starts a task; it allows k, which
  `sched_live` leaves out for another reason (see `sched_freeze`).
- **The kindergarten** (`KgartenProof`, `KgartenCondProof`). `KgartenInv`: each counter
  is the number of threads it stands for, and the counters keep the ratio. This is
  why `verify()` may also look later, as in the earlier version. `CondInv`:
  the two promises about wakeups are inductive with the types alone, because a test
  that was false becomes true only in an operation that signals, and a signal of one
  thread is enough as long as one is on its way. The refinement is proved step by
  step, and the ratio is inherited through it.
- **A remark from the proof.** The two signals that pass a wakeup on (lines 182 and
  267 of `kgarten-2.c`) are not needed for the two promises: every event that makes
  room wakes as many threads as it makes room for. Without them TLC finds nothing
  broken either; they are modelled as they are.
- **Strided threads** (`StridedThreadsProof`). `RingInv` is a token: no thread may
  print, or one thread may, prints or has printed, the lines of the others follow its
  line in the order of the ring, and as many lines are out as its index says. The
  order of the lines is the position of the token. `StrideInv` says that exactly the
  lines before the one a thread is at have been dealt with, once; it needs that the
  index of thread r is r modulo n, and that whatever a call of `maketable()` has
  written stays written (`TableInv`). `RowsInv` and `RingLinesInv` carry this to what
  is output; `Places` says where `main()` and the threads can be together.
- **Simplesync** (`SimpleSyncProof`). Who is inside holds the mutex (`Places`), what it
  loaded is still there (`Loaded`), and the counter is the difference of the updates
  (`Counted`). For the racy build `Loaded` only gives the bounds. With them each store
  is one atomic update, which is the refinement.
- **Process trees** (`ProcTreeProof`). `TreeInv` has five parts. `LocalInv` relates a
  process to its place (`Node`), a parent to each of its children (`Edge`) and its count
  of stops, or of exits, to the children it was told of (`Count`); it is inductive by
  itself, and its only hard step is that a count of all children means all children
  (`AllTold`). `Settled` says that below a process that sleeps nothing executes and
  below one that is done all have ended; it travels up the tree level by level, which is
  why the picture is complete. `OneBranchAwake` needs it; `Answer` (what is in a pipe,
  and whose it is) needs only the local form of it, that one child at a time is awake,
  which is in `Edge`. All of it holds in spite of every failure.
- **The result** (`ResultHolds`). `Values` is the value of each node by its definition; that
  there is such a function is an induction over the size of subtrees (`SmallerBelow`).
  `ResultInv` says by the place of each process what its `result` is: what it has combined
  of its first k - 1 or k children, in the end its value. An answer that is read is the
  value of the child that was woken because of `Answer`.
- **Tree files** (`TreeFileProof`), in two directions. *What is accepted is a tree:*
  `Stacks(ns)[m]` is what a depth-first walk expects after m nodes, and `OrderInv` says that
  `expected` is that, and that every node came when it was expected (`InOrder`). That a list
  which is in order and ends with nothing expected is a tree (`InOrderIsTree`) is an
  induction from the last node to the first: the walk comes back from the subtree of a
  child with exactly that child taken off (`ChildByChild`). *What describes a tree is
  accepted:* a tree is in order (`TreeIsInOrder`, the same induction the other way), its
  text has every block where `Begin` says (`TextLines`), and the block there is the only
  one the reader can find (`BlockFound`). `LegalInv` joins these: the nodes read are the
  first ones of the tree, and the reader is before the block of the next.
- **Fconc** (`FconcProof`). `EveryByteOnce` is an invariant of the form "output, buffer
  and unread parts are the whole", and inductive with the types, the places and the
  positions (`Progress`); the rest is facts about cutting sequences. `DoneMeansCopied`
  is its last state. `OutputInOrder`, which holds even after a failed write, is stronger
  by what is in the buffer: it is what was read last, so all of the output comes from
  before it (`OrderInv`), and what a write adds can be picked behind what was picked.

Types are proved for all these modules; most need no run. What is worth knowing of them
is that a slot is inside the table, no semaphore goes below zero, nothing is read or
written that is not open, and every stored name has room for its end.

Inductions over numbers are inductions over sets of numbers (`SetInduction`, from the
well-foundedness of <): the prover cannot instantiate a theorem with an operator, but it
can with a set. This is how the recursive functions of `ProcTree` and `TreeFile` are shown
to exist and to satisfy their equations.

Model-checked only: what depends on fairness (`NoStarvation`, `QuitEnds`,
`NoChildSleepsOn`, `ProgramEnds`, `Terminates`, `MainEnds`, `Ends`), since the prover
has no rule for liveness. Every invariant and every step property of the runs is proved,
some of them under the hypotheses named above.

## 6. What was seen besides

These are outcomes of the models that no run is kept for, because no comment or test
of the repository says otherwise, or because a property already leaves the case out.

- *Scheduler.* The bound of an id is off by one, ids of h and l are not looked at, a
  negative id passes (`undef`); after e the counters are too small, and may even be
  negative (`CountersRight`); with a full table the search for a slot has no end
  (`undef`); `sfind()` may return slot 0 after it was emptied, and NULL is followed
  (`segv`); `k 0` beside a task started by e removes what nobody counts; the first stop
  of such a task moves the turn on, so that two tasks execute for a time; `main()`
  waits for nproc stops though it has made nproc + 1 children.
- *Strided threads.* `total_threads` 0 passes; `ret < 0` never sees a failing
  `pthread_create()`; `initialized` of `mandel-lib.c` is never set, so every point fills
  the table again, and it is just this that makes the race on the table harmless: set
  at the beginning of `maketable()` it would let a thread search a table that is not
  full (`MakeTable_Trusting`); colour 232 is mapped into the colour cube (`<= 232`).
- *Process trees.* A name above others that is no operator leaves `result` unset, its
  children are never woken and stay; after a failure stopped siblings stay as well.
- *Tree files.* Names of `NODE_NAME_SIZE` characters or more are always rejected as
  unequal to themselves, which is why `Describes` asks for names that fit; a last line
  without newline loses a character; an empty file gives NULL.
- *Fconc.* The name the program chooses itself is not compared, and an input of that
  name is copied to its own end until the disk is full; the exit code is 0 after a failed
  write; a failed read is an end of file; an old output is not truncated.

## 7. Not modelled

- Output, colours and floating-point arithmetic; names of tasks and processes; pictures
  of the process tree; parsing of command lines and of `argv`; the clock.
- `zing` and `rand-fork.c`, which keep no state; the exercises as handed out and the
  examples, which are parts of what the models hold, without an end; build products
  and reports.
- Copies. A large part of the C files is the same text again: each exercise holds its
  own `proc-common.c` and `tree.c`, `lab3/lab3` repeats `lab3`, `mandel-lib.c` (with its
  tables of colours) exists four times, and CMake has left its compiler probes. The
  models are mapped to one copy of each file, so the share of all lines that they
  cover is much smaller than the share of the code that differs.
