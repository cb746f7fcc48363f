----------------------------- MODULE Scheduler -----------------------------
(***************************************************************************)
(* lab4/solutions/scheduler-shell: a round-robin scheduler with two        *)
(* priorities, built from SIGSTOP, SIGCONT and a 2 second alarm, that      *)
(* takes requests from a shell it schedules like any other task.           *)
(*                                                                         *)
(* Actors: the scheduler (main, its request loop, two signal handlers that *)
(* run on top of it), its children (shell and tasks), the kernel that      *)
(* carries out signals, the timer, and the user at the shell.              *)
(***************************************************************************)
EXTENDS TaskTable, Processes

CONSTANTS Requests,   \* what the user may ask for: records [no, arg]
          Timely      \* TRUE: the kernel needs much less than a time quantum

ASSUME SchedulerAssumption ==
    /\ Requests \subseteq [no : {"PRINT_TASKS", "KILL_TASK", "EXEC_TASK", "HIGH_TASK",
                                 "LOW_TASK", "KILL_SHELL"}, arg : Int]
    /\ Timely \in BOOLEAN
    /\ NULL \notin Requests

VARIABLES
    runningID,  \* the slot that is thought to run
    flag,       \* the first quantum has expired
    pc,         \* main: wait, read, got (a request, signals not masked yet),
                \*       reply, pause
    mode,       \* main, chld (inside the SIGCHLD handler), or how it ended
    ready,      \* children wait_for_ready_children() still waits for
    nproc,      \* main()'s argc - 1: the tasks it starts itself
    pstate,     \* pid -> state of the process
    booting,    \* children that have not reached their raise(SIGSTOP)
    sigchld, sigalrm,  \* pending signals: not queued, one of each at most
    timer,      \* an alarm() is set
    chan,       \* the two pipes: idle, request, busy, reply
    request     \* the request until it is answered, else NULL

main   == <<runningID, flag, pc, mode, ready, nproc>>
kernel == <<pstate, booting, sigchld, sigalrm, timer>>
pipes  == <<chan, request>>
vars   == <<table, main, kernel, pipes>>

\* How the scheduler can end: exit(0); exit(1); sfind() never returns; a NULL
\* pointer is followed; an array is indexed out of its bounds (from where the
\* model says nothing).
Ended == {"exit0", "fail", "spin", "segv", "undef"}
Up == mode \notin Ended

Init ==
    /\ InitTable
    /\ runningID = 0
    /\ flag = FALSE
    /\ pc = "wait"
    /\ mode = "main"
    /\ nproc = lowProcs
    /\ ready = nproc                 \* although there are nproc + 1
    /\ booting = {p \in Pids : p <= nproc}
    /\ pstate = [p \in Pids |-> IF p <= nproc THEN "running" ELSE "none"]
    /\ sigchld = FALSE
    /\ sigalrm = FALSE
    /\ timer = FALSE
    /\ chan = "idle"
    /\ request = NULL
-----------------------------------------------------------------------------
\* main(), up to the request loop.

\* wait_for_ready_children(nproc): any child's stop counts.  A death would end
\* the program; the children of the model do not die before their raise(SIGSTOP),
\* nor until they are continued, so that branch is never taken.
WaitReady ==
    /\ mode = "main" /\ pc = "wait" /\ ready > 0
    /\ \E p \in Pids :
        /\ pstate[p] \in Waitable
        /\ pstate' = [pstate EXCEPT ![p] = OnWait(@)]
        /\ IF pstate[p] = "stopped" THEN ready' = ready - 1 /\ mode' = mode
                                    ELSE ready' = ready /\ mode' = "fail"
    /\ UNCHANGED <<table, runningID, flag, pc, nproc, booting, sigchld, sigalrm, timer, pipes>>

\* The handlers are installed before the shell is continued, so the SIGCHLD of
\* that SIGCONT is caught.
Start ==
    /\ mode = "main" /\ pc = "wait" /\ ready = 0
    /\ Timely => booting = {}
    /\ IF nproc = 0                  \* "No tasks. Exiting..."
       THEN mode' = "fail" /\ UNCHANGED <<pc, pstate, sigchld, timer>>
       ELSE /\ pc' = "read"
            /\ pstate' = [pstate EXCEPT ![Shell] = OnCont(@)]
            /\ sigchld' = (pstate[Shell] \in Halted)
            /\ timer' = TRUE
            /\ mode' = mode
    /\ UNCHANGED <<table, runningID, flag, ready, nproc, booting, sigalrm, pipes>>
-----------------------------------------------------------------------------
\* shell_request_loop().  Requests are served with both signals masked.

ReadRequest ==
    /\ mode = "main" /\ pc = "read" /\ chan = "request"
    /\ chan' = "busy"
    /\ pc' = "got"
    /\ UNCHANGED <<table, runningID, flag, mode, ready, nproc, kernel, request>>

ReadEOF ==
    /\ mode = "main" /\ pc = "read" /\ chan # "request" /\ pstate[Shell] \in Dead
    /\ pc' = "pause"
    /\ UNCHANGED <<table, runningID, flag, mode, ready, nproc, kernel, pipes>>

\* write() of the return value; SIGPIPE is ignored, so a dead shell gives EPIPE.
Reply ==
    /\ mode = "main" /\ pc = "reply"
    /\ IF pstate[Shell] \in Dead THEN pc' = "pause" /\ chan' = chan
                                 ELSE pc' = "read" /\ chan' = "reply"
    /\ request' = NULL
    /\ UNCHANGED <<table, runningID, flag, mode, ready, nproc, kernel>>

Serving(no) == mode = "main" /\ pc = "got" /\ request.no = no

Served == pc' = "reply" /\ mode' = mode
Ends(how) == mode' = how /\ pc' = pc /\ UNCHANGED table
Kill(P) == pstate' = [p \in Pids |-> IF p \in P THEN OnKill(pstate[p]) ELSE pstate[p]]

ServePrint ==
    /\ Serving("PRINT_TASKS")
    /\ Served
    /\ UNCHANGED <<table, runningID, flag, ready, nproc, kernel, pipes>>

\* Mutant of ServeKill: without has_company, "k 0" removes a shell in company.
ServeKill_NoCompanyCheck ==
    /\ Serving("KILL_TASK")
    /\ request.arg \in Occupied
    /\ RemoveTask(request.arg)
    /\ Kill({procList[request.arg].pid})
    /\ Served
    /\ UNCHANGED <<runningID, flag, ready, nproc, booting, sigchld, sigalrm, timer, pipes>>

\* sched_kill_task_by_id(); the pid of a task already dead is still a zombie's
\* or nobody's, and the error of kill() is only reported.
ServeKill ==
    LET id == request.arg IN
    /\ Serving("KILL_TASK")
    /\ \/ /\ id > MAX_TASKS
          /\ Ends("fail") /\ UNCHANGED pstate
       \/ /\ id = 0 /\ HasCompany    \* "There are still active jobs."
          /\ Served /\ UNCHANGED <<table, pstate>>
       \/ /\ id \notin Slots /\ id <= MAX_TASKS
          /\ Ends("undef") /\ UNCHANGED pstate
       \/ /\ id \in Slots \ Occupied /\ ~(id = 0 /\ HasCompany)
          /\ Ends("fail") /\ UNCHANGED pstate
       \/ /\ id \in Occupied /\ ~(id = 0 /\ HasCompany)
          /\ RemoveTask(id)
          /\ Kill({procList[id].pid})
          /\ Served
    /\ UNCHANGED <<runningID, flag, ready, nproc, booting, sigchld, sigalrm, timer, pipes>>

\* sched_create_task(): the search for a slot has no bound, fork() may fail.
ServeExec ==
    /\ Serving("EXEC_TASK")
    /\ \/ /\ Occupied = Slots
          /\ Ends("undef") /\ UNCHANGED <<pstate, booting>>
       \/ /\ Occupied # Slots
          /\ \A p \in Pids : pstate[p] # "none"
          /\ Ends("fail") /\ UNCHANGED <<pstate, booting>>
       \/ \E p \in Pids :
            /\ pstate[p] = "none"
            /\ \A k \in Pids : pstate[k] = "none" => p <= k
            /\ CreateTask(p)
            /\ pstate' = [pstate EXCEPT ![p] = "running"]
            /\ booting' = booting \cup {p}
            /\ Served
    /\ UNCHANGED <<runningID, flag, ready, nproc, sigchld, sigalrm, timer, pipes>>

\* sched_change_priority(): an empty slot is ignored, a wrong index is not.
ServePriority ==
    LET rid == request.arg IN
    /\ \/ Serving("LOW_TASK")  /\ rid \in Occupied /\ LowerTask(rid) /\ Served
       \/ Serving("HIGH_TASK") /\ rid \in Occupied /\ RaiseTask(rid) /\ Served
       \/ /\ Serving("LOW_TASK") \/ Serving("HIGH_TASK")
          /\ rid \in Slots \ Occupied
          /\ Served /\ UNCHANGED table
       \/ /\ Serving("LOW_TASK") \/ Serving("HIGH_TASK")
          /\ rid \notin Slots
          /\ Ends("undef")
    /\ UNCHANGED <<runningID, flag, ready, nproc, kernel, pipes>>

\* Mutant of ServeQuit: destroy_universe() frees the tasks and kills none.
ServeQuit_TasksNotKilled ==
    /\ Serving("KILL_SHELL")
    /\ Quit
    /\ Kill({procList[0].pid})
    /\ Served
    /\ UNCHANGED <<runningID, flag, ready, nproc, booting, sigchld, sigalrm, timer, pipes>>

\* REQ_KILL_SHELL: SIGKILL to the shell, and to every task that is removed.
ServeQuit ==
    /\ Serving("KILL_SHELL")
    /\ Quit
    /\ Kill({procList[i].pid : i \in {k \in Occupied : procList'[k] = NULL}})
    /\ Served
    /\ UNCHANGED <<runningID, flag, ready, nproc, booting, sigchld, sigalrm, timer, pipes>>
-----------------------------------------------------------------------------
\* The handlers.  Each masks both signals while it runs.

Interruptible == mode = "main" /\ pc # "wait"

\* Mutant of SigalrmHandler: the alarm is not set again.
SigalrmHandler_OneShot ==
    /\ Interruptible /\ sigalrm
    /\ sigalrm' = FALSE
    /\ flag' = TRUE
    /\ IF procList[runningID] = NULL \/ pstate[procList[runningID].pid] = "gone"
       THEN mode' = "fail" /\ UNCHANGED pstate
       ELSE /\ pstate' = [pstate EXCEPT ![procList[runningID].pid] = OnStop(@)]
            /\ mode' = mode
    /\ UNCHANGED <<table, runningID, pc, ready, nproc, booting, sigchld, timer, pipes>>

\* sigalrm_handler(), after install_signal_handlers() at the earliest.
SigalrmHandler ==
    /\ Interruptible /\ sigalrm
    /\ sigalrm' = FALSE
    /\ flag' = TRUE
    /\ IF procList[runningID] = NULL \/ pstate[procList[runningID].pid] = "gone"
       THEN mode' = "fail" /\ UNCHANGED <<pstate, timer>>
       ELSE /\ pstate' = [pstate EXCEPT ![procList[runningID].pid] = OnStop(@)]
            /\ timer' = TRUE
            /\ mode' = mode
    /\ UNCHANGED <<table, runningID, pc, ready, nproc, booting, sigchld, pipes>>

SigchldHandler ==
    /\ Interruptible /\ sigchld
    /\ sigchld' = FALSE
    /\ mode' = "chld"
    /\ UNCHANGED <<table, runningID, flag, pc, ready, nproc, pstate, booting, sigalrm, timer,
                   pipes>>

\* Mutant of Eligible: the low queue is looked at in every round.
Eligible_LowToo(hp, H, L) == H \cup L

\* Mutant of Distance: the search starts at slot 0 and not after runningID.
Distance_FromZero(i, j) == j

\* sfind(): the first slot after runningID, in a circle, of the queue that the
\* counter of high-priority tasks selects; {} when the loop never ends.
Eligible(hp, H, L) == IF hp > 0 THEN H ELSE IF hp = 0 THEN L ELSE {}

Distance(i, j) == (j - i - 1) % MAX_TASKS

sfind(i, E) == {j \in E : \A k \in E : Distance(i, j) <= Distance(i, k)}

\* Mutant of Resume: sfind() is called, but runningID keeps its value.
Resume_SameID(ps) ==
    LET next == sfind(runningID, Eligible(highProcs', high', low')) IN
    \/ /\ next = {}
       /\ mode' = "spin" /\ pstate' = ps /\ UNCHANGED <<runningID, sigchld>>
    \/ \E j \in next :
        /\ procList'[j] # NULL
        /\ pstate' = [ps EXCEPT ![procList'[j].pid] = OnCont(@)]
        /\ sigchld' = (sigchld \/ ps[procList'[j].pid] \in Halted)
        /\ UNCHANGED <<runningID, mode>>

\* runningID = sfind(); kill(procList[runningID]->pid, SIGCONT), with the table
\* as this iteration leaves it and ps the states after its waitpid().
Resume(ps) ==
    LET next == sfind(runningID, Eligible(highProcs', high', low')) IN
    \/ /\ next = {}
       /\ mode' = "spin" /\ pstate' = ps /\ UNCHANGED <<runningID, sigchld>>
    \/ \E j \in next :
        /\ runningID' = j
        /\ IF procList'[j] = NULL
           THEN mode' = "segv" /\ pstate' = ps /\ UNCHANGED sigchld
           ELSE LET p == procList'[j].pid IN
                IF ps[p] = "gone"
                THEN mode' = "fail" /\ pstate' = ps /\ UNCHANGED sigchld
                ELSE /\ pstate' = [ps EXCEPT ![p] = OnCont(@)]
                     /\ sigchld' = (sigchld \/ ps[p] \in Halted)
                     /\ UNCHANGED mode

\* The waitpid() at the head of the loop.
WaitNone ==
    /\ mode = "chld"
    /\ \A p \in Pids : pstate[p] \notin Waitable
    /\ mode' = IF \A p \in Pids : pstate[p] \notin Children THEN "fail" ELSE "main"
    /\ UNCHANGED <<table, runningID, flag, pc, ready, nproc, kernel, pipes>>

Reported(p) == mode = "chld" /\ pstate[p] \in Waitable
Reaped(p)   == [pstate EXCEPT ![p] = OnWait(@)]

\* Before the first alarm a report is consumed and nothing else is done.
ReapIgnored(p) ==
    /\ Reported(p) /\ ~flag
    /\ pstate' = Reaped(p)
    /\ UNCHANGED <<table, main, booting, sigchld, sigalrm, timer, pipes>>

\* Mutant of ReapStopped: without flag, the stops of children that wait for their
\* first turn are taken for expired quanta.
ReapStopped_NoFlag(p) ==
    /\ Reported(p) /\ pstate[p] = "stopped"
    /\ UNCHANGED table
    /\ Resume(Reaped(p))
    /\ UNCHANGED <<flag, pc, ready, nproc, booting, sigalrm, timer, pipes>>

\* Whichever child has stopped, the next one is resumed.
ReapStopped(p) ==
    /\ Reported(p) /\ flag /\ pstate[p] = "stopped"
    /\ UNCHANGED table
    /\ Resume(Reaped(p))
    /\ UNCHANGED <<flag, pc, ready, nproc, booting, sigalrm, timer, pipes>>

\* A dead child that is not in procList[1..]: the break of line 381 leaves the
\* waitpid() loop, and with it the handler.
ReapUnknown(p) ==
    /\ Reported(p) /\ flag /\ pstate[p] = "zombie" /\ SlotsOf(p) = {}
    /\ pstate' = Reaped(p)
    /\ mode' = "main"
    /\ UNCHANGED <<table, runningID, flag, pc, ready, nproc, booting, sigchld, sigalrm, timer,
                   pipes>>

\* A dead child that is: its task is removed, and if it was its turn the next
\* one is resumed.
ReapTask(p) ==
    /\ Reported(p) /\ flag /\ pstate[p] = "zombie"
    /\ \E j \in SlotsOf(p) :
        /\ \A k \in SlotsOf(p) : j <= k
        /\ RemoveTask(j)
        /\ IF procList'[0] = NULL /\ lowProcs' = 0 /\ highProcs' = 0
           THEN mode' = "exit0" /\ pstate' = Reaped(p) /\ UNCHANGED <<runningID, sigchld>>
           ELSE IF j = runningID
                THEN Resume(Reaped(p))
                ELSE pstate' = Reaped(p) /\ UNCHANGED <<mode, runningID, sigchld>>
    /\ UNCHANGED <<flag, pc, ready, nproc, booting, sigalrm, timer, pipes>>
-----------------------------------------------------------------------------
\* The kernel, the timer, the children and the user.

\* SIGCHLD is ignored by default: until the handler is installed it is lost.
ChildSignals == sigchld' = (sigchld \/ pc # "wait")

\* A new child gets to its raise(SIGSTOP).
BootStop(p) ==
    /\ Up /\ p \in booting /\ pstate[p] \in Active
    /\ booting' = booting \ {p}
    /\ pstate' = [pstate EXCEPT ![p] = "stopped"]
    /\ ChildSignals
    /\ UNCHANGED <<table, main, sigalrm, timer, pipes>>

KernelStop(p) ==
    /\ Up /\ pstate[p] = "stopping"
    /\ pstate' = [pstate EXCEPT ![p] = "stopped"]
    /\ ChildSignals
    /\ UNCHANGED <<table, main, booting, sigalrm, timer, pipes>>

KernelKill(p) ==
    /\ Up /\ pstate[p] = "dying"
    /\ pstate' = [pstate EXCEPT ![p] = "zombie"]
    /\ booting' = booting \ {p}
    /\ ChildSignals
    /\ UNCHANGED <<table, main, sigalrm, timer, pipes>>

\* A task returns from its main() or its execve() fails; the shell exits at the
\* end of its input, never while it waits for a reply.
Exit(p) ==
    /\ Up /\ pstate[p] \in Active /\ p \notin booting
    /\ p = Shell => chan = "idle"
    /\ pstate' = [pstate EXCEPT ![p] = "zombie"]
    /\ ChildSignals
    /\ UNCHANGED <<table, main, booting, sigalrm, timer, pipes>>

\* Nothing that was begun is unfinished.
Quiet ==
    /\ mode = "main" /\ ~sigchld
    /\ \/ pc = "pause"
       \/ pc = "read" /\ chan \in {"idle", "reply"} /\ pstate[Shell] \notin Dead
    /\ booting = {}
    /\ \A p \in Pids : pstate[p] \notin {"stopping", "dying"}

Tick ==
    /\ Up /\ timer
    /\ Timely => Quiet
    /\ timer' = FALSE
    /\ sigalrm' = TRUE
    /\ UNCHANGED <<table, main, pstate, booting, sigchld, pipes>>

ShellRuns == Up /\ pstate[Shell] \in Active /\ Shell \notin booting

\* process_cmdline() and issue_request().
ShellAsks(r) ==
    /\ ShellRuns /\ chan = "idle"
    /\ chan' = "request"
    /\ request' = r
    /\ UNCHANGED <<table, main, kernel>>

ShellGetsReply ==
    /\ ShellRuns /\ chan = "reply"
    /\ chan' = "idle"
    /\ UNCHANGED <<table, main, kernel, request>>
-----------------------------------------------------------------------------
Serve == ServePrint \/ ServeKill \/ ServeExec \/ ServePriority \/ ServeQuit
Reap(p) == ReapIgnored(p) \/ ReapStopped(p) \/ ReapUnknown(p) \/ ReapTask(p)
Carry(p) == BootStop(p) \/ KernelStop(p) \/ KernelKill(p)

Program == WaitReady \/ Start \/ ReadRequest \/ ReadEOF \/ Reply \/ Serve
           \/ WaitNone \/ \E p \in Pids : Reap(p)

Next == \/ Program
        \/ SigalrmHandler
        \/ SigchldHandler
        \/ \E p \in Pids : Carry(p) \/ Exit(p)
        \/ Tick
        \/ ShellGetsReply
        \/ \E r \in Requests : ShellAsks(r)

Spec == Init /\ [][Next]_vars

\* The program and the kernel do not stop; a pending signal is delivered, and the
\* alarm goes off, however busy the request loop is kept.  No fairness for the
\* user and for the ends of tasks.
Fairness ==
    /\ WF_vars(Program)
    /\ SF_vars(SigalrmHandler)
    /\ SF_vars(SigchldHandler)
    /\ \A p \in Pids : WF_vars(Carry(p))
    /\ SF_vars(Tick)
    /\ WF_vars(ShellGetsReply)

FairSpec == Spec /\ Fairness
-----------------------------------------------------------------------------
SchedulerTypeOK ==
    /\ runningID \in Slots
    /\ flag \in BOOLEAN
    /\ pc \in {"wait", "read", "got", "reply", "pause"}
    /\ mode \in {"main", "chld"} \cup Ended
    /\ ready \in Nat /\ nproc \in NProcs
    /\ pstate \in [Pids -> ProcStates]
    /\ booting \subseteq Pids
    /\ sigchld \in BOOLEAN /\ sigalrm \in BOOLEAN /\ timer \in BOOLEAN
    /\ chan \in {"idle", "request", "busy", "reply"}
    /\ request \in Requests \cup {NULL}

TypeOK == TableTypeOK /\ SchedulerTypeOK

\* The handlers and the request loop use the table as TaskTable promises: tasks
\* come only while the shell is there, and leave in no other way.
UsesTable == TableSpec

\* The tasks that the shell has started with e so far, dead or alive.
Started == {p \in Pids : p > nproc /\ pstate[p] # "none"}

\* The counters, kept by hand in five functions.  highProcs is the number of
\* tasks with high priority.  lowProcs is off by what is in no counter: the
\* shell, and every task that e has ever started, since sched_create_task() does
\* not count its task, but whoever removes or raises it takes it off.  Without e
\* and with a shell of low priority, "k 0" and q are told the truth.  With e they
\* are not: q may leave out destroy_universe() though there are tasks, and after
\* e, k 1, k 2 lowProcs is -1, so that "k 0" is refused though there is no task,
\* and line 403 does not end the program.  Once the shell has left the table, the
\* claim is only that lowProcs does not count a task too many.
CountersRight ==
    /\ HighCounted
    /\ 0 \in Occupied => lowProcs = Cardinality(LowTasks) - 1 - Cardinality(Started)
    /\ 0 \notin Occupied => LowNotOvercounted

\* No task is lost: a child that is alive and that nothing is about to kill is
\* in the table, so a quantum, a request or the end of the shell can reach it.
NoOrphans ==
    \A p \in Pids : pstate[p] \in Live => \E i \in Occupied : procList[i].pid = p

\* Nothing is kept for a task whose death has been collected: every signal the
\* scheduler sends through slots 1.. reaches a child of its own, never a pid
\* that the kernel may have given to somebody else.
TasksAreChildren ==
    \A i \in Occupied \ {0} : pstate[procList[i].pid] \in Children

\* Until the first alarm no task but the shell executes past its raise(SIGSTOP).
TasksHeldBack ==
    ~flag => \A p \in Pids \ {Shell} : pstate[p] \in Active => p \in booting

\* A stop hands the processor to a task of low priority only when no task of
\* the table has high priority: the counter and the queues together mean what
\* the priorities say.
HighFirst ==
    [][\A p \in Pids :
          (mode = "chld" /\ pstate[p] \in Halted /\ pstate'[p] = "running") =>
              \E i \in Occupied' :
                  /\ procList'[i].pid = p
                  /\ procList'[i].priority = PRIOR_LOW =>
                        \A k \in Occupied' : procList'[k].priority = PRIOR_LOW]_vars

\* With a kernel that is prompt, the task in runningID is the only one that
\* executes; the children that have not been started do not count.
OnlyCurrentRuns ==
    \A p \in Pids : (Up /\ mode = "main" /\ pstate[p] \in Active /\ p \notin booting) =>
        procList[runningID] # NULL /\ procList[runningID].pid = p
-----------------------------------------------------------------------------
\* Nobody in the queue that is served waits forever: again and again, every slot
\* is empty, outranked, has its turn, or the scheduler has ended.
Turn(i) == procList[i] # NULL /\ runningID = i /\ pstate[procList[i].pid] \in Active
NoStarvation ==
    \A i \in Slots : []<>(~Up \/ procList[i] = NULL \/ Turn(i)
                            \/ i \notin Eligible(highProcs, high, low))

\* After the shell has left the table the scheduler comes to an end, through
\* one of its handlers (main only pauses).
QuitEnds == (pc # "wait" /\ procList[0] = NULL) ~> (mode \in {"exit0", "fail"})
-----------------------------------------------------------------------------
\* What a comment of the repository says, and the code does not do.

\* "until we exit from inside a signal handler" (lines 691-692), once the shell
\* has left the table.
ExitsAfterShell == QuitEnds
=============================================================================
