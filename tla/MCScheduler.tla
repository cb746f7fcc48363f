---------------------------- MODULE MCScheduler ----------------------------
(* Instances of Scheduler for TLC: the requests of each run.               *)
EXTENDS Scheduler

\* The commands of shell.c; the argument of p, e and q is not read.
Ask(no, args) == {[no |-> no, arg |-> a] : a \in args}

\* Every command, with indices inside, just outside and well outside the table.
AllRequests ==
    Ask("PRINT_TASKS", {0}) \cup Ask("EXEC_TASK", {0}) \cup Ask("KILL_SHELL", {0})
    \cup Ask("KILL_TASK", {-1, 0, 1, 2, MAX_TASKS, MAX_TASKS + 1})
    \cup Ask("HIGH_TASK", {0, 1, 2, MAX_TASKS}) \cup Ask("LOW_TASK", {0, 1})

\* Commands that neither start nor remove a single task.
NoKill ==
    Ask("KILL_SHELL", {0}) \cup Ask("HIGH_TASK", {0, 1, 2}) \cup Ask("LOW_TASK", {1, 2})

\* The commands that the counterexamples need.
KillOne == Ask("KILL_TASK", {1})
ExecOne == Ask("EXEC_TASK", {0}) \cup Ask("KILL_TASK", {0})
=============================================================================
