----------------------------- MODULE TaskTable -----------------------------
(***************************************************************************)
(* The scheduler's table of tasks (lab4/solutions/scheduler-shell): the    *)
(* array procList[] with the two priority arrays that hold the same        *)
(* pointers, and the two counters kept beside them by hand.                *)
(*                                                                         *)
(* A priority array is used for one thing only, whether an entry is NULL,  *)
(* so it is the set of the slots whose entry is not.  Slot 0 is the        *)
(* shell's.  total_number_of_tasks is written and never read: left out.    *)
(***************************************************************************)
EXTENDS Integers, FiniteSets

CONSTANTS MAX_TASKS,  \* slots of the table
          MaxPid,     \* the pids that fork() can hand out are 0..MaxPid
          NProcs,     \* the values of argc - 1 the scheduler is started with
          NULL

Slots == 0 .. MAX_TASKS - 1
Pids  == 0 .. MaxPid
Shell == 0            \* the shell's pid; the i-th task forked by main has pid i

PRIOR_LOW  == "PRIOR_LOW"
PRIOR_HIGH == "PRIOR_HIGH"
Task == [pid : Pids, priority : {PRIOR_LOW, PRIOR_HIGH}]

ASSUME TableAssumption ==
    /\ MAX_TASKS \in Nat \ {0}
    /\ MaxPid \in Nat
    /\ NProcs \subseteq Nat
    /\ \A n \in NProcs : n < MAX_TASKS /\ n <= MaxPid
    /\ NULL \notin Task

VARIABLES procList,   \* slot -> task or NULL
          high, low,  \* the slots whose highPriority / lowPriority is not NULL
          highProcs,  \* meant to count the high-priority tasks
          lowProcs    \* meant to count the low-priority tasks

table == <<procList, high, low, highProcs, lowProcs>>

Occupied == {i \in Slots : procList[i] # NULL}

\* What the two counters should count: the tasks that are queued and there.
HighTasks == high \cap Occupied
LowTasks  == low \cap Occupied

\* The slot the two loops over procList[1..] find for a pid: shell excluded.
SlotsOf(p) == {i \in Occupied \ {0} : procList[i].pid = p}

\* sched_kill_task_by_id's has_company: lowProcs | highProcs.
HasCompany == lowProcs # 0 \/ highProcs # 0
-----------------------------------------------------------------------------
\* main() up to update_priority_queues(): the shell and n tasks, all of low
\* priority; the counter counts the tasks and not the shell.
InitTable ==
    \E n \in NProcs :
        /\ procList = [i \in Slots |-> IF i <= n
                                       THEN [pid |-> i, priority |-> PRIOR_LOW]
                                       ELSE NULL]
        /\ high = {}
        /\ low = 0 .. n
        /\ highProcs = 0
        /\ lowProcs = n

\* sched_create_task(): first fit.  The counter is not touched.
CreateTask(p) ==
    \E i \in Slots \ Occupied :
        /\ \A k \in Slots \ Occupied : i <= k
        /\ procList' = [procList EXCEPT ![i] = [pid |-> p, priority |-> PRIOR_LOW]]
        /\ low' = low \cup {i}
        /\ UNCHANGED <<high, highProcs, lowProcs>>

\* What sched_kill_task_by_id() and the SIGCHLD handler do to the table alike.
RemoveTask(i) ==
    /\ i \in Occupied
    /\ procList' = [procList EXCEPT ![i] = NULL]
    /\ IF procList[i].priority = PRIOR_LOW
       THEN /\ low' = low \ {i}
            /\ lowProcs' = lowProcs - 1
            /\ UNCHANGED <<high, highProcs>>
       ELSE /\ high' = high \ {i}
            /\ highProcs' = highProcs - 1
            /\ UNCHANGED <<low, lowProcs>>

\* Mutant of LowerTask: the counters move even if the task was low already.
LowerTask_AlwaysCounts(i) ==
    /\ i \in Occupied
    /\ procList' = [procList EXCEPT ![i].priority = PRIOR_LOW]
    /\ low' = low \cup {i}
    /\ high' = high \ {i}
    /\ lowProcs' = lowProcs + 1
    /\ highProcs' = highProcs - 1

\* sched_change_priority(rid, PRIOR_LOW)
LowerTask(i) ==
    /\ i \in Occupied
    /\ procList' = [procList EXCEPT ![i].priority = PRIOR_LOW]
    /\ low' = low \cup {i}
    /\ high' = high \ {i}
    /\ IF i \in high THEN /\ lowProcs' = lowProcs + 1
                          /\ highProcs' = highProcs - 1
                     ELSE UNCHANGED <<lowProcs, highProcs>>

\* Mutant of RaiseTask: the task stays in lowPriority.
RaiseTask_StaysLow(i) ==
    /\ i \in Occupied
    /\ procList' = [procList EXCEPT ![i].priority = PRIOR_HIGH]
    /\ high' = high \cup {i}
    /\ IF i \in high THEN UNCHANGED <<lowProcs, highProcs>>
                     ELSE /\ lowProcs' = lowProcs - 1
                          /\ highProcs' = highProcs + 1
    /\ UNCHANGED low

\* sched_change_priority(rid, PRIOR_HIGH)
RaiseTask(i) ==
    /\ i \in Occupied
    /\ procList' = [procList EXCEPT ![i].priority = PRIOR_HIGH]
    /\ high' = high \cup {i}
    /\ low' = low \ {i}
    /\ IF i \in low THEN /\ lowProcs' = lowProcs - 1
                         /\ highProcs' = highProcs + 1
                    ELSE UNCHANGED <<lowProcs, highProcs>>

\* process_request's REQ_KILL_SHELL and destroy_universe(): the tasks go only
\* if a counter is positive; the shell leaves procList and stays in its queue.
Quit ==
    /\ 0 \in Occupied
    /\ IF lowProcs > 0 \/ highProcs > 0
       THEN /\ procList' = [i \in Slots |-> NULL]
            /\ low' = low \ (Occupied \ {0})
            /\ high' = high \ (Occupied \ {0})
            /\ lowProcs' = 0
            /\ highProcs' = 0
       ELSE /\ procList' = [procList EXCEPT ![0] = NULL]
            /\ UNCHANGED <<low, high, lowProcs, highProcs>>
-----------------------------------------------------------------------------
\* What the table promises to whoever drives it: the shell creates tasks while
\* it is there, with pids not in the table, and is removed by a request of its
\* own ("k 0") only when neither counter says there is company.
TableNext ==
    \/ \E p \in Pids : /\ 0 \in Occupied
                       /\ \A i \in Occupied : procList[i].pid # p
                       /\ CreateTask(p)
    \/ \E i \in Slots : /\ i = 0 => ~HasCompany
                        /\ RemoveTask(i)
    \/ \E i \in Slots : LowerTask(i) \/ RaiseTask(i)
    \/ Quit

TableSpec == InitTable /\ [][TableNext]_table
-----------------------------------------------------------------------------
TableTypeOK ==
    /\ procList \in [Slots -> Task \cup {NULL}]
    /\ high \in SUBSET Slots
    /\ low \in SUBSET Slots
    /\ highProcs \in Int
    /\ lowProcs \in Int

\* An occupied slot is queued once, under the priority its task records; a free
\* slot is queued nowhere.  The exception is the shell's slot, which a quit
\* leaves in its queue after procList[0] is NULL (lines 255-258).
QueuesMatch ==
    /\ \A i \in Occupied : /\ i \in low  <=> procList[i].priority = PRIOR_LOW
                           /\ i \in high <=> procList[i].priority = PRIOR_HIGH
    /\ (high \cup low) \ Occupied \subseteq {0}

\* No pid is in the table twice: a death report names at most one slot, so the
\* first match of the SIGCHLD handler's search is the right one.
DistinctPids ==
    \A i, k \in Occupied : procList[i].pid = procList[k].pid => i = k

\* The counter sfind() trusts when it decides which queue to search is right:
\* it is the number of tasks that are in the table with high priority.
HighCounted == highProcs = Cardinality(HighTasks)

\* lowProcs errs on one side only: it is at most the number of low-priority
\* tasks that are there, and so never positive when there is none.  It can be
\* negative; module Scheduler says by how much it is off, and why.
LowNotOvercounted == lowProcs <= Cardinality(LowTasks)
=============================================================================
