-------------------------- MODULE SchedulerProof --------------------------
(***************************************************************************)
(* First the invariants of TaskTable, for every size of the table, every   *)
(* number of tasks and any sequence of requests and deaths.  Then theorems *)
(* about Scheduler: it uses the table as TaskTable promises, and therefore *)
(* keeps its invariants; and table and processes agree.                    *)
(***************************************************************************)
EXTENDS Scheduler, FiniteSetTheorems, TLAPS

\* No part of TableInv is inductive without the queues: whether a counter moves
\* is decided by an entry of a queue in sched_change_priority(), and by the
\* priority of the task where it is removed; QueuesMatch says the two agree.
TableInv == TableTypeOK /\ QueuesMatch /\ DistinctPids /\ HighCounted /\ LowNotOvercounted

\* The sets that the counters count are finite.
LEMMA QueuesFinite ==
    ASSUME TableTypeOK
    PROVE  /\ IsFiniteSet(HighTasks) /\ Cardinality(HighTasks) \in Nat
           /\ IsFiniteSet(LowTasks)  /\ Cardinality(LowTasks) \in Nat
<1>1. IsFiniteSet(Slots)
  BY FS_Interval, TableAssumption DEF Slots
<1>2. HighTasks \subseteq Slots /\ LowTasks \subseteq Slots
  BY DEF TableTypeOK, HighTasks, LowTasks
<1> QED
  BY <1>1, <1>2, FS_Subset, FS_CardinalityType

\* update_priority_queues() leaves every task in the low queue.
LEMMA InitEstablishes == InitTable => TableInv
<1> SUFFICES ASSUME NEW n \in NProcs,
                    procList = [i \in Slots |-> IF i <= n
                                       THEN [pid |-> i, priority |-> PRIOR_LOW]
                                       ELSE NULL],
                    high = {}, low = 0 .. n, highProcs = 0, lowProcs = n
             PROVE  TableInv
  BY DEF InitTable
<1>1. n \in Nat /\ n < MAX_TASKS /\ n <= MaxPid /\ MAX_TASKS \in Nat /\ MaxPid \in Nat
  BY TableAssumption
<1>2. \A i \in 0 .. n : i \in Slots /\ [pid |-> i, priority |-> PRIOR_LOW] \in Task
  BY <1>1 DEF Slots, Pids, Task
<1>3. TableTypeOK
  <2>1. procList \in [Slots -> Task \cup {NULL}]
    BY <1>1, <1>2 DEF Slots
  <2>2. 0 .. n \subseteq Slots
    BY <1>1 DEF Slots
  <2> QED
    BY <2>1, <2>2, <1>1 DEF TableTypeOK
<1>4. Occupied = 0 .. n
  BY <1>1, <1>2, TableAssumption DEF Occupied, Slots
<1>5. \A i \in Occupied : procList[i].pid = i /\ procList[i].priority = PRIOR_LOW
  BY <1>1, <1>2, <1>4 DEF Slots
<1>6. QueuesMatch
  BY <1>4, <1>5 DEF QueuesMatch, PRIOR_LOW, PRIOR_HIGH
<1>7. DistinctPids
  BY <1>4, <1>5 DEF DistinctPids
<1>8. HighCounted
  BY FS_EmptySet DEF HighCounted, HighTasks
<1>9. LowNotOvercounted
  <2>1. LowTasks = 0 .. n
    BY <1>4 DEF LowTasks
  <2>2. Cardinality(0 .. n) = n + 1
    BY <1>1, FS_Interval
  <2> QED
    BY <2>1, <2>2, <1>1 DEF LowNotOvercounted
<1> QED
  BY <1>3, <1>6, <1>7, <1>8, <1>9 DEF TableInv

-----------------------------------------------------------------------------
\* sched_create_task() fills an empty slot and counts nothing.
LEMMA CreatePreserves ==
    ASSUME TableInv, NEW p \in Pids, 0 \in Occupied,
           \A i \in Occupied : procList[i].pid # p,
           CreateTask(p)
    PROVE  TableInv'
<1> DEFINE new == [pid |-> p, priority |-> PRIOR_LOW]
<1>1. PICK i \in Slots \ Occupied :
          /\ procList' = [procList EXCEPT ![i] = new]
          /\ low' = low \cup {i}
          /\ UNCHANGED <<high, highProcs, lowProcs>>
  BY DEF CreateTask
<1>2. TableTypeOK /\ QueuesMatch /\ DistinctPids /\ HighCounted /\ LowNotOvercounted
  BY DEF TableInv
<1>3. new \in Task /\ new # NULL /\ new.pid = p /\ new.priority = PRIOR_LOW
  <2>1. new \in Task
    BY DEF Task
  <2> QED
    BY <2>1, TableAssumption
<1> HIDE DEF new
<1>4. /\ Occupied' = Occupied \cup {i}
      /\ procList'[i] = new
      /\ \A k \in Occupied : k # i /\ procList'[k] = procList[k]
  BY <1>1, <1>2, <1>3 DEF Occupied, TableTypeOK
<1>5. i \notin high /\ i \notin low
  BY <1>2, <1>1 DEF QueuesMatch, Occupied, TableTypeOK
<1>6. TableTypeOK'
  BY <1>1, <1>2, <1>3 DEF TableTypeOK
<1>7. QueuesMatch'
  BY <1>1, <1>2, <1>3, <1>4, <1>5 DEF QueuesMatch, PRIOR_LOW, PRIOR_HIGH
<1>8. DistinctPids'
  BY <1>2, <1>3, <1>4 DEF DistinctPids
<1>9. HighTasks' = HighTasks
  BY <1>1, <1>4, <1>5 DEF HighTasks
<1>10. LowTasks' = LowTasks \cup {i} /\ i \notin LowTasks
  BY <1>1, <1>4, <1>5 DEF LowTasks
<1>11. HighCounted'
  BY <1>1, <1>2, <1>9 DEF HighCounted
<1>12. LowNotOvercounted'
  <2>1. Cardinality(LowTasks') = Cardinality(LowTasks) + 1
    BY <1>2, <1>10, QueuesFinite, FS_AddElement
  <2> QED
    BY <2>1, <1>1, <1>2, QueuesFinite DEF LowNotOvercounted, TableTypeOK
<1> QED
  BY <1>6, <1>7, <1>8, <1>11, <1>12 DEF TableInv

\* A removed task leaves its queue, and the counter of its priority moves.
LEMMA RemovePreserves ==
    ASSUME TableInv, NEW i \in Slots, RemoveTask(i)
    PROVE  TableInv'
<1>1. TableTypeOK /\ QueuesMatch /\ DistinctPids /\ HighCounted /\ LowNotOvercounted
  BY DEF TableInv
<1>2. i \in Occupied /\ procList' = [procList EXCEPT ![i] = NULL]
  BY DEF RemoveTask
<1>3. /\ Occupied' = Occupied \ {i}
      /\ \A k \in Occupied' : procList'[k] = procList[k]
  BY <1>1, <1>2 DEF Occupied, TableTypeOK
<1>4. procList[i].priority \in {PRIOR_LOW, PRIOR_HIGH}
  BY <1>1, <1>2 DEF TableTypeOK, Occupied, Task
<1>5. /\ procList[i].priority = PRIOR_LOW  => i \in low /\ i \notin high
      /\ procList[i].priority = PRIOR_HIGH => i \in high /\ i \notin low
  BY <1>1, <1>2 DEF QueuesMatch, PRIOR_LOW, PRIOR_HIGH
<1>6. DistinctPids'
  BY <1>1, <1>3 DEF DistinctPids
<1>7. CASE procList[i].priority = PRIOR_LOW
  <2>1. /\ low' = low \ {i} /\ lowProcs' = lowProcs - 1
        /\ high' = high /\ highProcs' = highProcs
    BY <1>7 DEF RemoveTask
  <2>2. TableTypeOK'
    BY <2>1, <1>1, <1>2 DEF TableTypeOK
  <2>3. QueuesMatch'
    BY <2>1, <1>1, <1>3, <1>5, <1>7 DEF QueuesMatch
  <2>4. HighTasks' = HighTasks /\ LowTasks' = LowTasks \ {i} /\ i \in LowTasks
    BY <2>1, <1>2, <1>3, <1>5, <1>7 DEF HighTasks, LowTasks
  <2>5. Cardinality(LowTasks') = Cardinality(LowTasks) - 1
    BY <2>4, <1>1, QueuesFinite, FS_RemoveElement
  <2>6. HighCounted' /\ LowNotOvercounted'
    BY <2>1, <2>4, <2>5, <1>1, QueuesFinite DEF HighCounted, LowNotOvercounted, TableTypeOK
  <2> QED
    BY <2>2, <2>3, <2>6, <1>6 DEF TableInv
<1>8. CASE procList[i].priority = PRIOR_HIGH
  <2>1. /\ high' = high \ {i} /\ highProcs' = highProcs - 1
        /\ low' = low /\ lowProcs' = lowProcs
    BY <1>8 DEF RemoveTask, PRIOR_LOW, PRIOR_HIGH
  <2>2. TableTypeOK'
    BY <2>1, <1>1, <1>2 DEF TableTypeOK
  <2>3. QueuesMatch'
    BY <2>1, <1>1, <1>3, <1>5, <1>8 DEF QueuesMatch
  <2>4. LowTasks' = LowTasks /\ HighTasks' = HighTasks \ {i} /\ i \in HighTasks
    BY <2>1, <1>2, <1>3, <1>5, <1>8 DEF HighTasks, LowTasks
  <2>5. Cardinality(HighTasks') = Cardinality(HighTasks) - 1
    BY <2>4, <1>1, QueuesFinite, FS_RemoveElement
  <2>6. HighCounted' /\ LowNotOvercounted'
    BY <2>1, <2>4, <2>5, <1>1, QueuesFinite DEF HighCounted, LowNotOvercounted, TableTypeOK
  <2> QED
    BY <2>2, <2>3, <2>6, <1>6 DEF TableInv
<1> QED
  BY <1>4, <1>7, <1>8

\* A task that is lowered changes queues at most once, and so do the counters.
LEMMA LowerPreserves ==
    ASSUME TableInv, NEW i \in Slots, LowerTask(i)
    PROVE  TableInv'
<1>1. TableTypeOK /\ QueuesMatch /\ DistinctPids /\ HighCounted /\ LowNotOvercounted
  BY DEF TableInv
<1>2. /\ i \in Occupied
      /\ procList' = [procList EXCEPT ![i].priority = PRIOR_LOW]
      /\ low' = low \cup {i} /\ high' = high \ {i}
  BY DEF LowerTask
<1>3. procList[i] \in Task
  BY <1>1, <1>2 DEF TableTypeOK, Occupied
<1>4. /\ procList'[i] \in Task
      /\ procList'[i].pid = procList[i].pid /\ procList'[i].priority = PRIOR_LOW
      /\ \A k \in Slots \ {i} : procList'[k] = procList[k]
  BY <1>1, <1>2, <1>3 DEF TableTypeOK, Task
<1>5. Occupied' = Occupied
  BY <1>2, <1>4, TableAssumption DEF Occupied
<1>6. procList' \in [Slots -> Task \cup {NULL}]
  BY <1>1, <1>2, <1>4 DEF TableTypeOK
<1>7. QueuesMatch'
  BY <1>1, <1>2, <1>4, <1>5 DEF QueuesMatch, Occupied, PRIOR_LOW, PRIOR_HIGH
<1>8. DistinctPids'
  BY <1>1, <1>4, <1>5 DEF DistinctPids, Occupied
<1>9. CASE i \in high
  <2>1. lowProcs' = lowProcs + 1 /\ highProcs' = highProcs - 1
    BY <1>9 DEF LowerTask
  <2>2. i \notin low
    BY <1>9, <1>1, <1>2 DEF QueuesMatch, PRIOR_LOW, PRIOR_HIGH
  <2>3. /\ HighTasks' = HighTasks \ {i} /\ i \in HighTasks
        /\ LowTasks' = LowTasks \cup {i} /\ i \notin LowTasks
    BY <2>2, <1>2, <1>5, <1>9 DEF HighTasks, LowTasks
  <2>4. /\ Cardinality(HighTasks') = Cardinality(HighTasks) - 1
        /\ Cardinality(LowTasks') = Cardinality(LowTasks) + 1
    BY <2>3, <1>1, QueuesFinite, FS_AddElement, FS_RemoveElement
  <2>5. HighCounted' /\ LowNotOvercounted'
    BY <2>1, <2>4, <1>1, QueuesFinite DEF HighCounted, LowNotOvercounted, TableTypeOK
  <2>6. TableTypeOK'
    BY <2>1, <1>1, <1>2, <1>6 DEF TableTypeOK
  <2> QED
    BY <2>5, <2>6, <1>7, <1>8 DEF TableInv
<1>10. CASE i \notin high
  <2>1. lowProcs' = lowProcs /\ highProcs' = highProcs
    BY <1>10 DEF LowerTask
  <2>2. procList[i].priority = PRIOR_LOW /\ i \in low
    BY <1>10, <1>1, <1>2, <1>3 DEF QueuesMatch, Task
  <2>3. HighTasks' = HighTasks /\ LowTasks' = LowTasks
    BY <2>2, <1>2, <1>5, <1>10 DEF HighTasks, LowTasks
  <2>4. HighCounted' /\ LowNotOvercounted'
    BY <2>1, <2>3, <1>1 DEF HighCounted, LowNotOvercounted
  <2>5. TableTypeOK'
    BY <2>1, <1>1, <1>2, <1>6 DEF TableTypeOK
  <2> QED
    BY <2>4, <2>5, <1>7, <1>8 DEF TableInv
<1> QED
  BY <1>9, <1>10

\* A task that is raised changes queues at most once, and so do the counters.
LEMMA RaisePreserves ==
    ASSUME TableInv, NEW i \in Slots, RaiseTask(i)
    PROVE  TableInv'
<1>1. TableTypeOK /\ QueuesMatch /\ DistinctPids /\ HighCounted /\ LowNotOvercounted
  BY DEF TableInv
<1>2. /\ i \in Occupied
      /\ procList' = [procList EXCEPT ![i].priority = PRIOR_HIGH]
      /\ high' = high \cup {i} /\ low' = low \ {i}
  BY DEF RaiseTask
<1>3. procList[i] \in Task
  BY <1>1, <1>2 DEF TableTypeOK, Occupied
<1>4. /\ procList'[i] \in Task
      /\ procList'[i].pid = procList[i].pid /\ procList'[i].priority = PRIOR_HIGH
      /\ \A k \in Slots \ {i} : procList'[k] = procList[k]
  BY <1>1, <1>2, <1>3 DEF TableTypeOK, Task
<1>5. Occupied' = Occupied
  BY <1>2, <1>4, TableAssumption DEF Occupied
<1>6. procList' \in [Slots -> Task \cup {NULL}]
  BY <1>1, <1>2, <1>4 DEF TableTypeOK
<1>7. QueuesMatch'
  BY <1>1, <1>2, <1>4, <1>5 DEF QueuesMatch, Occupied, PRIOR_HIGH, PRIOR_LOW
<1>8. DistinctPids'
  BY <1>1, <1>4, <1>5 DEF DistinctPids, Occupied
<1>9. CASE i \in low
  <2>1. highProcs' = highProcs + 1 /\ lowProcs' = lowProcs - 1
    BY <1>9 DEF RaiseTask
  <2>2. i \notin high
    BY <1>9, <1>1, <1>2 DEF QueuesMatch, PRIOR_HIGH, PRIOR_LOW
  <2>3. /\ LowTasks' = LowTasks \ {i} /\ i \in LowTasks
        /\ HighTasks' = HighTasks \cup {i} /\ i \notin HighTasks
    BY <2>2, <1>2, <1>5, <1>9 DEF LowTasks, HighTasks
  <2>4. /\ Cardinality(LowTasks') = Cardinality(LowTasks) - 1
        /\ Cardinality(HighTasks') = Cardinality(HighTasks) + 1
    BY <2>3, <1>1, QueuesFinite, FS_AddElement, FS_RemoveElement
  <2>5. HighCounted' /\ LowNotOvercounted'
    BY <2>1, <2>4, <1>1, QueuesFinite DEF HighCounted, LowNotOvercounted, TableTypeOK
  <2>6. TableTypeOK'
    BY <2>1, <1>1, <1>2, <1>6 DEF TableTypeOK
  <2> QED
    BY <2>5, <2>6, <1>7, <1>8 DEF TableInv
<1>10. CASE i \notin low
  <2>1. highProcs' = highProcs /\ lowProcs' = lowProcs
    BY <1>10 DEF RaiseTask
  <2>2. procList[i].priority = PRIOR_HIGH /\ i \in high
    BY <1>10, <1>1, <1>2, <1>3 DEF QueuesMatch, Task
  <2>3. LowTasks' = LowTasks /\ HighTasks' = HighTasks
    BY <2>2, <1>2, <1>5, <1>10 DEF LowTasks, HighTasks
  <2>4. HighCounted' /\ LowNotOvercounted'
    BY <2>1, <2>3, <1>1 DEF HighCounted, LowNotOvercounted
  <2>5. TableTypeOK'
    BY <2>1, <1>1, <1>2, <1>6 DEF TableTypeOK
  <2> QED
    BY <2>4, <2>5, <1>7, <1>8 DEF TableInv
<1> QED
  BY <1>9, <1>10

\* Quitting empties the table or, with both counters 0, takes only the shell out.
LEMMA QuitPreserves ==
    ASSUME TableInv, Quit
    PROVE  TableInv'
<1>1. TableTypeOK /\ QueuesMatch /\ DistinctPids /\ HighCounted /\ LowNotOvercounted
  BY DEF TableInv
<1>2. 0 \in Slots
  BY TableAssumption DEF Slots
<1>3. CASE lowProcs > 0 \/ highProcs > 0
  <2>1. /\ procList' = [i \in Slots |-> NULL]
        /\ low' = low \ (Occupied \ {0}) /\ high' = high \ (Occupied \ {0})
        /\ lowProcs' = 0 /\ highProcs' = 0
    BY <1>3 DEF Quit
  <2>2. Occupied' = {}
    BY <2>1 DEF Occupied
  <2>3. TableTypeOK'
    BY <2>1, <1>1 DEF TableTypeOK
  <2>4. QueuesMatch' /\ DistinctPids'
    BY <2>1, <2>2, <1>1 DEF QueuesMatch, DistinctPids
  <2>5. HighTasks' = {} /\ LowTasks' = {}
    BY <2>2 DEF HighTasks, LowTasks
  <2>6. HighCounted' /\ LowNotOvercounted'
    BY <2>1, <2>5, FS_EmptySet DEF HighCounted, LowNotOvercounted
  <2> QED
    BY <2>3, <2>4, <2>6 DEF TableInv
<1>4. CASE ~(lowProcs > 0 \/ highProcs > 0)
  <2>1. /\ procList' = [procList EXCEPT ![0] = NULL]
        /\ UNCHANGED <<low, high, lowProcs, highProcs>>
    BY <1>4 DEF Quit
  <2>2. /\ Occupied' = Occupied \ {0}
        /\ \A k \in Occupied' : procList'[k] = procList[k]
    BY <2>1, <1>1, <1>2 DEF Occupied, TableTypeOK
  <2>3. TableTypeOK'
    BY <2>1, <1>1, <1>2 DEF TableTypeOK
  <2>4. QueuesMatch' /\ DistinctPids'
    BY <2>1, <2>2, <1>1 DEF QueuesMatch, DistinctPids
  <2>5. HighTasks = {}
    BY <1>1, <1>4, QueuesFinite, FS_EmptySet DEF HighCounted, TableTypeOK
  <2>6. HighTasks' = HighTasks
    BY <2>1, <2>2, <2>5 DEF HighTasks
  <2>7. HighCounted'
    BY <2>1, <2>6, <1>1 DEF HighCounted
  <2>8. LowTasks' \subseteq LowTasks
    BY <2>1, <2>2 DEF LowTasks
  <2>9. Cardinality(LowTasks') \in Nat
    BY <2>8, <1>1, QueuesFinite, FS_Subset, FS_CardinalityType
  <2>10. LowNotOvercounted'
    BY <2>1, <2>9, <1>1, <1>4 DEF LowNotOvercounted, TableTypeOK
  <2> QED
    BY <2>3, <2>4, <2>7, <2>10 DEF TableInv
<1> QED
  BY <1>3, <1>4

\* The hand-kept copies stay consistent under every sequence of requests and
\* deaths: sched_kill_task_by_id(), sched_create_task(), sched_change_priority(),
\* the removal of the SIGCHLD handler and REQ_KILL_SHELL all preserve TableInv.
THEOREM TableStep == TableInv /\ [TableNext]_table => TableInv'
<1> SUFFICES ASSUME TableInv, [TableNext]_table PROVE TableInv'
  OBVIOUS
<1>1. CASE \E p \in Pids : /\ 0 \in Occupied
                           /\ \A i \in Occupied : procList[i].pid # p
                           /\ CreateTask(p)
  BY <1>1, CreatePreserves
<1>2. CASE \E i \in Slots : RemoveTask(i)
  BY <1>2, RemovePreserves
<1>3. CASE \E i \in Slots : LowerTask(i) \/ RaiseTask(i)
  BY <1>3, LowerPreserves, RaisePreserves
<1>4. CASE Quit
  BY <1>4, QuitPreserves
<1>5. CASE UNCHANGED table
  BY <1>5 DEF table, TableInv, TableTypeOK, QueuesMatch, DistinctPids, HighCounted,
              LowNotOvercounted, HighTasks, LowTasks, Occupied
<1> QED
  BY <1>1, <1>2, <1>3, <1>4, <1>5 DEF TableNext

\* For every size of the table and any number of tasks, the table's invariants
\* hold in every behaviour that uses the table as TableNext allows.
THEOREM TableCorrect == TableSpec => []TableInv
<1>1. InitTable => TableInv
  BY InitEstablishes
<1>2. TableInv /\ [TableNext]_table => TableInv'
  BY TableStep
<1> QED
  BY <1>1, <1>2, PTL DEF TableSpec
-----------------------------------------------------------------------------
\* Why the table is used properly: a task is created for a request, a request
\* comes from a shell that runs, and a shell that runs has its slot.  Slot 0
\* can be lost only with its shell doomed, and from then on nothing is asked.
ShellInv ==
    /\ pstate[Shell] # "none"
    /\ 0 \in Occupied => procList[0].pid = Shell
    /\ 0 \notin Occupied => /\ pstate[Shell] \notin Live
                            /\ pc \notin {"wait", "got"}
                            /\ chan # "request"
    /\ pc = "wait" => ~flag
    /\ pc \in {"got", "reply"} => chan = "busy"

\* Before the first alarm deaths are consumed without a look at the table, which
\* is harmless because no task of the table dies that early.
TasksNotDoomed ==
    ~flag => \A i \in Occupied \ {0} : pstate[procList[i].pid] \notin {"dying", "zombie"}

ChildInv == NoOrphans /\ TasksAreChildren /\ TasksHeldBack /\ TasksNotDoomed

SchedInv == TableInv /\ SchedulerTypeOK /\ ShellInv /\ ChildInv

\* The shell has a slot and a pid of its own.
LEMMA ShellConstants == 0 \in Slots /\ Shell \in Pids
BY TableAssumption DEF Slots, Shell, Pids

\* Signals and waitpid() keep a process state a process state; only a SIGKILL
\* and a death end Live, and only the report of a death ends Children.
LEMMA SignalFacts ==
    ASSUME NEW s \in ProcStates
    PROVE  /\ OnStop(s) \in ProcStates /\ OnCont(s) \in ProcStates
           /\ OnKill(s) \in ProcStates /\ OnWait(s) \in ProcStates
           /\ (OnStop(s) \in Live <=> s \in Live) /\ (OnCont(s) \in Live <=> s \in Live)
           /\ OnKill(s) \notin Live /\ (OnWait(s) \in Live <=> s \in Live)
           /\ (OnStop(s) \in Children <=> s \in Children)
           /\ (OnCont(s) \in Children <=> s \in Children)
           /\ (OnKill(s) \in Children <=> s \in Children)
           /\ s # "zombie" => (OnWait(s) \in Children <=> s \in Children)
           /\ (OnStop(s) \in Active <=> s \in Active) /\ (OnWait(s) \in Active => s \in Active)
           /\ (OnKill(s) \in Active => s \in Active)
           /\ (OnStop(s) = "none" <=> s = "none") /\ (OnCont(s) = "none" <=> s = "none")
           /\ (OnKill(s) = "none" <=> s = "none") /\ (OnWait(s) = "none" <=> s = "none")
           /\ (OnStop(s) \in {"dying", "zombie"} <=> s \in {"dying", "zombie"})
           /\ (OnCont(s) \in {"dying", "zombie"} <=> s \in {"dying", "zombie"})
           /\ (OnWait(s) \in {"dying", "zombie"} => s \in {"dying", "zombie"})
BY DEF ProcStates, OnStop, OnCont, OnKill, OnWait, Live, Active, Halted, Children

\* main() forks a child for every slot it fills.
LEMMA SchedInit == Init => SchedInv
<1> SUFFICES ASSUME Init PROVE SchedInv
  OBVIOUS
<1>1. TableInv
  BY InitEstablishes DEF Init
<1>2. PICK n \in NProcs :
          /\ procList = [i \in Slots |-> IF i <= n
                                         THEN [pid |-> i, priority |-> PRIOR_LOW]
                                         ELSE NULL]
          /\ lowProcs = n
  BY DEF Init, InitTable
<1>3. n \in Nat /\ n < MAX_TASKS /\ n <= MaxPid /\ MAX_TASKS \in Nat /\ MaxPid \in Nat
  BY TableAssumption
<1>4. Occupied = 0 .. n /\ \A i \in Occupied : procList[i].pid = i
  <2>1. \A i \in 0 .. n : [pid |-> i, priority |-> PRIOR_LOW] \in Task
    BY <1>3 DEF Task, Pids
  <2> QED
    BY <1>2, <1>3, <2>1, TableAssumption DEF Occupied, Slots
<1>5. /\ pstate = [p \in Pids |-> IF p <= n THEN "running" ELSE "none"]
      /\ booting = {p \in Pids : p <= n}
      /\ ~flag /\ pc = "wait" /\ chan = "idle" /\ mode = "main" /\ runningID = 0
      /\ nproc = n /\ ready = n
      /\ sigchld = FALSE /\ sigalrm = FALSE /\ timer = FALSE /\ request = NULL
  BY <1>2 DEF Init
<1>6. SchedulerTypeOK
  BY <1>3, <1>5, ShellConstants DEF SchedulerTypeOK, ProcStates, Ended, Init
<1>7. ShellInv
  BY <1>3, <1>4, <1>5, ShellConstants DEF ShellInv, Shell
<1>8. \A p \in Pids : (p <= n => pstate[p] = "running") /\ (~(p <= n) => pstate[p] = "none")
  BY <1>5
<1>9. NoOrphans
  <2>1. \A p \in Pids : p <= n => p \in Occupied /\ procList[p].pid = p
    BY <1>3, <1>4 DEF Pids
  <2> QED
    BY <2>1, <1>8 DEF NoOrphans, Live, Active, Halted
<1>10. TasksAreChildren /\ TasksNotDoomed
  <2>1. \A i \in Occupied : i \in Pids /\ pstate[procList[i].pid] = "running"
    BY <1>3, <1>4, <1>8 DEF Pids
  <2> QED
    BY <2>1 DEF TasksAreChildren, TasksNotDoomed, Children, ProcStates
<1>11. TasksHeldBack
  BY <1>5, <1>8 DEF TasksHeldBack, Active
<1> QED
  BY <1>1, <1>6, <1>7, <1>9, <1>10, <1>11 DEF SchedInv, ChildInv
-----------------------------------------------------------------------------
\* Of the steps of the scheduler only the service of e creates a task; the others
\* remove or move one, or empty the table, or leave it alone.
LEMMA TableMoves ==
    ASSUME SchedInv, [Next]_vars, ~ServeExec
    PROVE  \/ UNCHANGED table
           \/ \E i \in Slots : (i = 0 => ~HasCompany) /\ RemoveTask(i)
           \/ \E i \in Slots : LowerTask(i) \/ RaiseTask(i)
           \/ Quit
<1>1. CASE ServeKill
  <2>1. CASE UNCHANGED table
    BY <2>1
  <2>2. CASE ~UNCHANGED table
    <3>1. LET id == request.arg IN id \in Occupied /\ ~(id = 0 /\ HasCompany) /\ RemoveTask(id)
      BY <1>1, <2>2 DEF ServeKill, Ends
    <3> QED
      BY <3>1 DEF Occupied
  <2> QED
    BY <2>1, <2>2
<1>2. CASE ServePriority
  BY <1>2 DEF ServePriority, Occupied, Ends
<1>3. CASE ServeQuit
  BY <1>3 DEF ServeQuit
<1>4. CASE \E p \in Pids : ReapTask(p)
  BY <1>4 DEF ReapTask, SlotsOf, Occupied
<1>5. CASE WaitReady \/ Start \/ ReadRequest \/ ReadEOF \/ Reply \/ ServePrint \/ WaitNone
  BY <1>5 DEF WaitReady, Start, ReadRequest, ReadEOF, Reply, ServePrint, WaitNone
<1>6. CASE \E p \in Pids : ReapIgnored(p) \/ ReapStopped(p) \/ ReapUnknown(p)
  BY <1>6 DEF ReapIgnored, ReapStopped, ReapUnknown
<1>7. CASE SigalrmHandler \/ SigchldHandler \/ Tick \/ ShellGetsReply
  BY <1>7 DEF SigalrmHandler, SigchldHandler, Tick, ShellGetsReply
<1>8. CASE \E p \in Pids : Carry(p) \/ Exit(p)
  BY <1>8 DEF Carry, BootStop, KernelStop, KernelKill, Exit
<1>9. CASE \E r \in Requests : ShellAsks(r)
  BY <1>9 DEF ShellAsks
<1>10. CASE UNCHANGED vars
  BY <1>10 DEF vars
<1> QED
  BY <1>1, <1>2, <1>3, <1>4, <1>5, <1>6, <1>7, <1>8, <1>9, <1>10
     DEF Next, Program, Serve, Reap

\* The service of e creates a task with a pid that was not used, or nothing.
LEMMA ExecMoves ==
    ASSUME SchedInv, ServeExec
    PROVE  /\ 0 \in Occupied
           /\ \/ UNCHANGED <<table, pstate>>
              \/ \E p \in Pids : /\ pstate[p] = "none"
                               /\ \A i \in Occupied : procList[i].pid # p
                               /\ CreateTask(p)
                               /\ pstate' = [pstate EXCEPT ![p] = "running"]
<1>1. 0 \in Occupied
  BY DEF ServeExec, Serving, SchedInv, ShellInv
<1>2. CASE UNCHANGED <<table, pstate>>
  BY <1>1, <1>2
<1>3. CASE ~UNCHANGED <<table, pstate>>
  <2>1. PICK p \in Pids : /\ pstate[p] = "none" /\ CreateTask(p)
                         /\ pstate' = [pstate EXCEPT ![p] = "running"]
    BY <1>3 DEF ServeExec, Ends
  <2>2. \A i \in Occupied : procList[i].pid # p
    BY <1>1, <2>1 DEF SchedInv, ShellInv, ChildInv, TasksAreChildren, Children
  <2> QED
    BY <1>1, <2>1, <2>2
<1> QED
  BY <1>2, <1>3

\* Every step of the scheduler is a step of the table or leaves it alone.
LEMMA StepUsesTable == SchedInv /\ [Next]_vars => [TableNext]_table
<1> SUFFICES ASSUME SchedInv, [Next]_vars PROVE [TableNext]_table
  OBVIOUS
<1>1. CASE ServeExec
  BY <1>1, ExecMoves DEF TableNext
<1>2. CASE ~ServeExec
  BY <1>2, TableMoves DEF TableNext
<1> QED
  BY <1>1, <1>2
-----------------------------------------------------------------------------
\* The steps that do not touch the table, the processes and the flag.
LEMMA CalmSteps ==
    ASSUME SchedInv, TableInv',
           \/ ReadRequest \/ ReadEOF \/ Reply \/ ServePrint \/ WaitNone
           \/ SigchldHandler \/ Tick \/ ShellGetsReply \/ UNCHANGED vars
           \/ \E r \in Requests : ShellAsks(r)
    PROVE  SchedInv'
<1> USE DEF ReadRequest, ReadEOF, Reply, ServePrint, Serving, Served, WaitNone,
            SigchldHandler, Tick, ShellGetsReply, ShellAsks, ShellRuns, kernel, pipes, main, vars
<1>1. UNCHANGED <<table, pstate, booting, flag>>
  OBVIOUS
<1>2. SchedulerTypeOK'
  <2> USE DEF SchedInv, SchedulerTypeOK
  <2>1. CASE ReadRequest \/ ReadEOF \/ Reply \/ ServePrint
    BY <2>1
  <2>2. CASE WaitNone \/ SigchldHandler
    BY <2>2 DEF Ended
  <2>3. CASE Tick \/ ShellGetsReply \/ UNCHANGED vars
    BY <2>3
  <2>4. CASE \E r \in Requests : ShellAsks(r)
    BY <2>4
  <2> QED
    BY <2>1, <2>2, <2>3, <2>4
<1>3. ShellInv'
  BY <1>1 DEF SchedInv, ShellInv, Occupied, table, Live
<1>4. ChildInv'
  BY <1>1 DEF SchedInv, ChildInv, NoOrphans, TasksAreChildren, TasksHeldBack, TasksNotDoomed,
              Occupied, table
<1> QED
  BY <1>2, <1>3, <1>4 DEF SchedInv
-----------------------------------------------------------------------------
\* sfind() returns a slot, and the SIGCONT that follows resumes at most that one.
LEMMA ResumeFacts ==
    ASSUME NEW ps \in [Pids -> ProcStates], TableTypeOK', SchedulerTypeOK, Resume(ps)
    PROVE  /\ runningID' \in Slots
           /\ mode' \in {mode, "spin", "segv", "fail"}
           /\ sigchld' \in BOOLEAN
           /\ pstate' \in [Pids -> ProcStates]
           /\ \A p \in Pids : pstate'[p] = ps[p] \/ pstate'[p] = OnCont(ps[p])
<1> DEFINE next == sfind(runningID, Eligible(highProcs', high', low'))
<1>1. next \subseteq Slots
  BY DEF sfind, Eligible, TableTypeOK
<1>2. CASE next = {}
  BY <1>1, <1>2 DEF Resume, SchedulerTypeOK
<1>3. CASE next # {}
  <2>1. PICK j \in next :
            /\ runningID' = j
            /\ IF procList'[j] = NULL
               THEN mode' = "segv" /\ pstate' = ps /\ UNCHANGED sigchld
               ELSE LET p == procList'[j].pid IN
                    IF ps[p] = "gone"
                    THEN mode' = "fail" /\ pstate' = ps /\ UNCHANGED sigchld
                    ELSE /\ pstate' = [ps EXCEPT ![p] = OnCont(@)]
                         /\ sigchld' = (sigchld \/ ps[p] \in Halted)
                         /\ UNCHANGED mode
    BY <1>3 DEF Resume
  <2>2. j \in Slots
    BY <1>1
  <2>3. CASE procList'[j] = NULL \/ ps[procList'[j].pid] = "gone"
    BY <2>1, <2>2, <2>3 DEF SchedulerTypeOK
  <2>4. CASE ~(procList'[j] = NULL \/ ps[procList'[j].pid] = "gone")
    <3>1. procList'[j].pid \in Pids
      BY <2>2, <2>4 DEF TableTypeOK, Task
    <3>2. OnCont(ps[procList'[j].pid]) \in ProcStates
      BY <3>1, SignalFacts
    <3> QED
      BY <2>1, <2>2, <2>4, <3>1, <3>2 DEF SchedulerTypeOK
  <2> QED
    BY <2>3, <2>4
<1> QED
  BY <1>2, <1>3

\* A step that leaves the table alone keeps table and processes together if it
\* revives nobody and collects the death of nobody in the table.
LEMMA SameTable ==
    ASSUME SchedInv, UNCHANGED table, pstate' \in [Pids -> ProcStates],
           \A p \in Pids : pstate'[p] \in Live => pstate[p] \in Live,
           \A i \in Occupied \ {0} : pstate'[procList[i].pid] \in Children
    PROVE  NoOrphans' /\ TasksAreChildren'
BY DEF SchedInv, ChildInv, NoOrphans, TasksAreChildren, Occupied, table

\* Every task of the table has a pid.
LEMMA PidsOfTable ==
    ASSUME TableInv
    PROVE  \A i \in Occupied : i \in Slots /\ procList[i].pid \in Pids
BY DEF TableInv, TableTypeOK, Occupied, Task
-----------------------------------------------------------------------------
\* Collecting a stop, or failing, before the handlers are installed.
LEMMA WaitReadyStep ==
    ASSUME SchedInv, TableInv', WaitReady
    PROVE  SchedInv'
<1>1. PICK q \in Pids :
          /\ pstate[q] \in Waitable
          /\ pstate' = [pstate EXCEPT ![q] = OnWait(@)]
          /\ IF pstate[q] = "stopped" THEN ready' = ready - 1 /\ mode' = mode
                                      ELSE ready' = ready /\ mode' = "fail"
  BY DEF WaitReady
<1>2. /\ pc = "wait" /\ ~flag /\ ready > 0
      /\ UNCHANGED <<table, runningID, flag, pc, nproc, booting, sigchld, sigalrm, timer, pipes>>
  BY DEF WaitReady, SchedInv, ShellInv
<1>3. /\ pstate \in [Pids -> ProcStates] /\ OnWait(pstate[q]) \in ProcStates
      /\ pstate' \in [Pids -> ProcStates]
      /\ \A p \in Pids \ {q} : pstate'[p] = pstate[p]
      /\ pstate'[q] = OnWait(pstate[q])
  BY <1>1, SignalFacts DEF SchedInv, SchedulerTypeOK
<1>4. SchedulerTypeOK'
  BY <1>1, <1>2, <1>3 DEF SchedInv, SchedulerTypeOK, Ended, pipes
<1>5. /\ \A p \in Pids : pstate'[p] \in Live => pstate[p] \in Live
      /\ \A p \in Pids : pstate'[p] \in Active => pstate[p] \in Active
      /\ \A p \in Pids : pstate'[p] \in {"dying", "zombie"} => pstate[p] \in {"dying", "zombie"}
      /\ \A p \in Pids : pstate[p] # "none" => pstate'[p] # "none"
  BY <1>3, SignalFacts
<1>6. \A i \in Occupied \ {0} : pstate'[procList[i].pid] \in Children
  <2> SUFFICES ASSUME NEW i \in Occupied \ {0} PROVE pstate'[procList[i].pid] \in Children
    OBVIOUS
  <2>1. procList[i].pid \in Pids /\ pstate[procList[i].pid] \in Children \ {"zombie"}
    BY <1>2, PidsOfTable DEF SchedInv, ChildInv, TasksAreChildren, TasksNotDoomed
  <2> QED
    BY <2>1, <1>3, SignalFacts
<1>7. NoOrphans' /\ TasksAreChildren'
  BY <1>2, <1>3, <1>5, <1>6, SameTable
<1>8. TasksHeldBack' /\ TasksNotDoomed'
  BY <1>2, <1>5, PidsOfTable DEF SchedInv, ChildInv, TasksHeldBack, TasksNotDoomed, table, Occupied
<1>9. ShellInv'
  BY <1>2, <1>5, ShellConstants DEF SchedInv, ShellInv, table, Occupied, pipes
<1> QED
  BY <1>4, <1>7, <1>8, <1>9 DEF SchedInv, ChildInv

\* The shell is continued: it is the one child that may be, before the first alarm.
LEMMA StartStep ==
    ASSUME SchedInv, TableInv', Start
    PROVE  SchedInv'
<1>1. CASE nproc = 0
  <2>1. UNCHANGED <<table, runningID, flag, pc, ready, nproc, kernel, pipes>> /\ mode' = "fail"
    BY <1>1 DEF Start, kernel
  <2> QED
    BY <2>1 DEF SchedInv, SchedulerTypeOK, ShellInv, ChildInv, NoOrphans, TasksAreChildren,
                TasksHeldBack, TasksNotDoomed, Occupied, table, kernel, pipes, Ended
<1>2. CASE nproc # 0
  <2>1. /\ pc = "wait" /\ ~flag /\ pc' = "read"
        /\ pstate' = [pstate EXCEPT ![Shell] = OnCont(@)]
        /\ sigchld' \in BOOLEAN /\ timer' = TRUE /\ mode' = mode
        /\ UNCHANGED <<table, runningID, flag, ready, nproc, booting, sigalrm, pipes>>
    BY <1>2 DEF Start, SchedInv, ShellInv
  <2>2. /\ pstate \in [Pids -> ProcStates] /\ OnCont(pstate[Shell]) \in ProcStates
        /\ pstate' \in [Pids -> ProcStates]
        /\ \A p \in Pids \ {Shell} : pstate'[p] = pstate[p]
        /\ pstate'[Shell] = OnCont(pstate[Shell])
    BY <2>1, SignalFacts, ShellConstants DEF SchedInv, SchedulerTypeOK
  <2>3. SchedulerTypeOK'
    BY <2>1, <2>2 DEF SchedInv, SchedulerTypeOK, pipes
  <2>4. /\ \A p \in Pids : pstate'[p] \in Live => pstate[p] \in Live
        /\ \A p \in Pids : pstate[p] \in Children => pstate'[p] \in Children
        /\ \A p \in Pids : pstate'[p] \in {"dying", "zombie"} => pstate[p] \in {"dying", "zombie"}
        /\ pstate[Shell] # "none" => pstate'[Shell] # "none"
    BY <2>2, SignalFacts, ShellConstants
  <2>5. \A i \in Occupied \ {0} : pstate'[procList[i].pid] \in Children
    BY <2>4, PidsOfTable DEF SchedInv, ChildInv, TasksAreChildren
  <2>6. NoOrphans' /\ TasksAreChildren'
    BY <2>1, <2>2, <2>4, <2>5, SameTable
  <2>7. TasksHeldBack' /\ TasksNotDoomed'
    BY <2>1, <2>2, <2>4, PidsOfTable
       DEF SchedInv, ChildInv, TasksHeldBack, TasksNotDoomed, table, Occupied
  <2>8. ShellInv'
    BY <2>1, <2>2, <2>4, ShellConstants DEF SchedInv, ShellInv, table, Occupied, pipes
  <2> QED
    BY <2>3, <2>6, <2>7, <2>8 DEF SchedInv, ChildInv
<1> QED
  BY <1>1, <1>2

\* An alarm only stops a task, which stays what it was to the table.
LEMMA SigalrmStep ==
    ASSUME SchedInv, TableInv', SigalrmHandler
    PROVE  SchedInv'
<1>1. /\ pc # "wait" /\ mode = "main" /\ flag' = TRUE /\ sigalrm' = FALSE
      /\ UNCHANGED <<table, runningID, pc, ready, nproc, booting, sigchld, pipes>>
  BY DEF SigalrmHandler, Interruptible
<1>2. CASE UNCHANGED pstate
  <2>1. mode' \in {mode, "fail"} /\ timer' \in BOOLEAN
    BY <1>1 DEF SigalrmHandler, SchedInv, SchedulerTypeOK
  <2> QED
    BY <1>1, <1>2, <2>1 DEF SchedInv, SchedulerTypeOK, ShellInv, ChildInv, NoOrphans,
       TasksAreChildren, TasksHeldBack, TasksNotDoomed, Occupied, table, pipes, Ended
<1>3. CASE ~UNCHANGED pstate
  <2> DEFINE q == procList[runningID].pid
  <2>1. /\ procList[runningID] # NULL /\ timer' = TRUE /\ mode' = mode
        /\ pstate' = [pstate EXCEPT ![q] = OnStop(@)]
    BY <1>1, <1>3 DEF SigalrmHandler
  <2>2. q \in Pids
    BY <2>1 DEF SchedInv, SchedulerTypeOK, TableInv, TableTypeOK, Task
  <2>3. /\ pstate \in [Pids -> ProcStates] /\ OnStop(pstate[q]) \in ProcStates
        /\ pstate' \in [Pids -> ProcStates]
        /\ \A p \in Pids : pstate'[p] = pstate[p] \/ pstate'[p] = OnStop(pstate[p])
    BY <2>1, <2>2, SignalFacts DEF SchedInv, SchedulerTypeOK
  <2>4. /\ \A p \in Pids : pstate'[p] \in Live => pstate[p] \in Live
        /\ \A p \in Pids : pstate[p] \in Children => pstate'[p] \in Children
        /\ \A p \in Pids : pstate[p] # "none" => pstate'[p] # "none"
    BY <2>3, SignalFacts
  <2>5. \A i \in Occupied \ {0} : pstate'[procList[i].pid] \in Children
    BY <2>4, PidsOfTable DEF SchedInv, ChildInv, TasksAreChildren
  <2> HIDE DEF q
  <2>6. NoOrphans' /\ TasksAreChildren'
    BY <1>1, <2>3, <2>4, <2>5, SameTable
  <2>7. TasksHeldBack' /\ TasksNotDoomed'
    BY <1>1 DEF TasksHeldBack, TasksNotDoomed
  <2>8. SchedulerTypeOK'
    BY <1>1, <2>1, <2>3 DEF SchedInv, SchedulerTypeOK, pipes
  <2>9. ShellInv'
    BY <1>1, <2>4, ShellConstants DEF SchedInv, ShellInv, table, Occupied, pipes
  <2> QED
    BY <2>6, <2>7, <2>8, <2>9 DEF SchedInv, ChildInv
<1> QED
  BY <1>2, <1>3

\* The three arms of the SIGCHLD handler that leave the table alone.
LEMMA ReapStep ==
    ASSUME SchedInv, TableInv', NEW q \in Pids,
           ReapIgnored(q) \/ ReapStopped(q) \/ ReapUnknown(q)
    PROVE  SchedInv'
<1> DEFINE ps == Reaped(q)
<1>1. /\ mode = "chld" /\ pstate[q] \in Waitable
      /\ UNCHANGED <<table, flag, pc, ready, nproc, booting, sigalrm, timer, pipes>>
  BY DEF ReapIgnored, ReapStopped, ReapUnknown, Reported, main
<1>2. /\ pstate \in [Pids -> ProcStates] /\ OnWait(pstate[q]) \in ProcStates
      /\ ps \in [Pids -> ProcStates] /\ ps[q] = OnWait(pstate[q])
      /\ \A p \in Pids \ {q} : ps[p] = pstate[p]
  BY SignalFacts DEF SchedInv, SchedulerTypeOK, Reaped
<1>3. /\ runningID' \in Slots /\ mode' \in {"main", "chld", "spin", "segv", "fail"}
      /\ sigchld' \in BOOLEAN /\ pstate' \in [Pids -> ProcStates]
      /\ \A p \in Pids : pstate'[p] = ps[p] \/ (flag /\ pstate'[p] = OnCont(ps[p]))
  <2>1. CASE ReapIgnored(q) \/ ReapUnknown(q)
    BY <2>1, <1>1, <1>2 DEF ReapIgnored, ReapUnknown, SchedInv, SchedulerTypeOK, main
  <2>2. CASE ReapStopped(q)
    <3>1. flag /\ Resume(ps)
      BY <2>2 DEF ReapStopped
    <3>2. TableTypeOK' /\ SchedulerTypeOK
      BY DEF SchedInv, TableInv
    <3> HIDE DEF ps
    <3> QED
      BY <3>1, <3>2, <1>1, <1>2, ResumeFacts
  <2> QED
    BY <2>1, <2>2
<1>4. \A i \in Occupied \ {0} : ps[procList[i].pid] \in Children
  <2> SUFFICES ASSUME NEW i \in Occupied \ {0} PROVE ps[procList[i].pid] \in Children
    OBVIOUS
  <2>1. procList[i].pid \in Pids /\ pstate[procList[i].pid] \in Children
    BY PidsOfTable DEF SchedInv, ChildInv, TasksAreChildren
  <2>2. CASE pstate[q] = "zombie" /\ procList[i].pid = q
    <3>1. ~flag
      BY <2>2 DEF ReapStopped, ReapUnknown, ReapIgnored, SlotsOf
    <3> QED
      BY <2>2, <3>1 DEF SchedInv, ChildInv, TasksNotDoomed
  <2>3. CASE pstate[q] # "zombie" \/ procList[i].pid # q
    BY <2>1, <2>3, <1>2, SignalFacts
  <2> QED
    BY <2>2, <2>3
<1> HIDE DEF ps
<1>5. /\ \A p \in Pids : pstate'[p] \in Live => pstate[p] \in Live
      /\ \A p \in Pids : ~flag => (pstate'[p] \in Active => pstate[p] \in Active)
      /\ \A p \in Pids : pstate'[p] \in {"dying", "zombie"} => pstate[p] \in {"dying", "zombie"}
      /\ \A p \in Pids : pstate[p] # "none" => pstate'[p] # "none"
  BY <1>2, <1>3, SignalFacts
<1>6. \A i \in Occupied \ {0} : pstate'[procList[i].pid] \in Children
  BY <1>2, <1>3, <1>4, PidsOfTable, SignalFacts DEF SchedInv
<1>7. NoOrphans' /\ TasksAreChildren'
  BY <1>1, <1>3, <1>5, <1>6, SameTable
<1>8. TasksHeldBack' /\ TasksNotDoomed'
  BY <1>1, <1>5, PidsOfTable DEF SchedInv, ChildInv, TasksHeldBack, TasksNotDoomed, table, Occupied
<1>9. SchedulerTypeOK'
  BY <1>1, <1>3 DEF SchedInv, SchedulerTypeOK, pipes, Ended
<1>10. ShellInv'
  BY <1>1, <1>5, ShellConstants DEF SchedInv, ShellInv, table, Occupied, pipes
<1> QED
  BY <1>7, <1>8, <1>9, <1>10 DEF SchedInv, ChildInv

\* What the kernel and the children do moves no child into or out of the table.
LEMMA KernelStep ==
    ASSUME SchedInv, TableInv', NEW q \in Pids, Carry(q) \/ Exit(q)
    PROVE  SchedInv'
<1>1. /\ UNCHANGED <<table, main, sigalrm, timer, pipes>>
      /\ sigchld' = (sigchld \/ pc # "wait")
      /\ booting' \in {booting, booting \ {q}}
      /\ \/ pstate[q] \in Active /\ pstate' = [pstate EXCEPT ![q] = "stopped"]
         \/ pstate[q] = "dying" /\ pstate' = [pstate EXCEPT ![q] = "zombie"]
         \/ /\ pstate[q] \in Active /\ q \notin booting
            /\ pstate' = [pstate EXCEPT ![q] = "zombie"]
  BY DEF Carry, BootStop, KernelStop, KernelKill, Exit, ChildSignals, Active
<1>2. /\ pstate \in [Pids -> ProcStates] /\ pstate' \in [Pids -> ProcStates]
      /\ \A p \in Pids \ {q} : pstate'[p] = pstate[p]
      /\ pstate'[q] \in {"stopped", "zombie"}
      /\ pstate'[q] = "stopped" => pstate[q] \in Active
      /\ pstate'[q] = "zombie" =>
            pstate[q] = "dying" \/ (pstate[q] \in Active /\ q \notin booting)
  BY <1>1 DEF SchedInv, SchedulerTypeOK, ProcStates
<1>3. /\ \A p \in Pids : pstate'[p] \in Live => pstate[p] \in Live
      /\ \A p \in Pids : pstate'[p] \in Active => pstate[p] \in Active /\ p # q
      /\ \A p \in Pids : pstate[p] \in Children => pstate'[p] \in Children
      /\ \A p \in Pids : pstate[p] # "none" => pstate'[p] # "none"
  BY <1>2 DEF Live, Active, Halted, Children, ProcStates
<1>4. \A i \in Occupied \ {0} : pstate'[procList[i].pid] \in Children
  BY <1>3, PidsOfTable DEF SchedInv, ChildInv, TasksAreChildren
<1>5. NoOrphans' /\ TasksAreChildren'
  BY <1>1, <1>2, <1>3, <1>4, SameTable
<1>6. TasksHeldBack'
  BY <1>1, <1>3 DEF SchedInv, ChildInv, TasksHeldBack, main
<1>7. TasksNotDoomed'
  <2> SUFFICES ASSUME ~flag, NEW i \in Occupied \ {0}, procList[i].pid = q,
                      pstate'[q] \in {"dying", "zombie"}
               PROVE  FALSE
    BY <1>1, <1>2, PidsOfTable DEF SchedInv, ChildInv, TasksNotDoomed, main, table, Occupied
  <2>1. pstate[q] # "dying"
    BY DEF SchedInv, ChildInv, TasksNotDoomed
  <2>2. q # Shell
    <3>1. 0 \in Occupied => procList[0].pid # q
      BY DEF SchedInv, TableInv, DistinctPids
    <3>2. 0 \notin Occupied => pstate[Shell] \notin Live
      BY DEF SchedInv, ShellInv
    <3> QED
      BY <3>1, <3>2, <2>1, <1>2 DEF SchedInv, ShellInv, Live
  <2>3. pstate[q] \in Active /\ q \notin booting
    BY <2>1, <1>2
  <2> QED
    BY <2>2, <2>3 DEF SchedInv, ChildInv, TasksHeldBack
<1>8. SchedulerTypeOK'
  BY <1>1, <1>2 DEF SchedInv, SchedulerTypeOK, main, pipes
<1>9. ShellInv'
  BY <1>1, <1>3, ShellConstants DEF SchedInv, ShellInv, main, table, Occupied, pipes
<1> QED
  BY <1>5, <1>6, <1>7, <1>8, <1>9 DEF SchedInv, ChildInv
-----------------------------------------------------------------------------
\* The requests that end the scheduler: id out of range, no such task, no pid.
LEMMA EndStep ==
    ASSUME SchedInv, mode' \in {"fail", "undef"},
           UNCHANGED <<table, runningID, flag, pc, ready, nproc, kernel, pipes>>
    PROVE  SchedInv'
BY DEF SchedInv, TableInv, TableTypeOK, QueuesMatch, DistinctPids, HighCounted,
       LowNotOvercounted, HighTasks, LowTasks, SchedulerTypeOK, ShellInv, ChildInv, NoOrphans,
       TasksAreChildren, TasksHeldBack, TasksNotDoomed, Occupied, table, kernel, pipes, Ended

\* SIGKILL goes to the pids whose slots are emptied in the same step.
LEMMA KillStep ==
    ASSUME SchedInv, TableInv', NEW R \in SUBSET Occupied,
           Kill({procList[i].pid : i \in R}),
           Occupied' = Occupied \ R, \A i \in Occupied' : procList'[i] = procList[i],
           pc = "got", pc' = "reply", chan' = chan, mode' = mode, 0 \in Occupied,
           UNCHANGED <<runningID, flag, ready, nproc, booting, sigchld, sigalrm, timer, pipes>>
    PROVE  SchedInv'
<1> DEFINE P == {procList[i].pid : i \in R}
<1>1. /\ pstate \in [Pids -> ProcStates] /\ pstate' \in [Pids -> ProcStates]
      /\ \A p \in Pids \ P : pstate'[p] = pstate[p]
      /\ \A p \in Pids : p \in P => pstate'[p] = OnKill(pstate[p])
  BY SignalFacts DEF Kill, SchedInv, SchedulerTypeOK
<1>2. /\ \A i \in R : procList[i].pid \in P
      /\ \A i \in Occupied \ R : procList[i].pid \notin P
  BY DEF SchedInv, TableInv, DistinctPids
<1>3. \A i \in Occupied : i \in Slots /\ procList[i].pid \in Pids
  BY PidsOfTable DEF SchedInv
<1>4. NoOrphans'
  <2> SUFFICES ASSUME NEW p \in Pids, pstate'[p] \in Live
               PROVE  \E i \in Occupied' : procList'[i].pid = p
    BY DEF NoOrphans
  <2>1. p \notin P /\ pstate[p] \in Live
    BY <1>1, SignalFacts
  <2>2. PICK i \in Occupied : procList[i].pid = p
    BY <2>1 DEF SchedInv, ChildInv, NoOrphans
  <2>3. i \in Occupied' /\ procList'[i] = procList[i]
    BY <1>2, <2>1, <2>2
  <2> QED
    BY <2>2, <2>3
<1>5. TasksAreChildren' /\ TasksNotDoomed'
  <2>1. \A i \in Occupied' : /\ procList'[i] = procList[i] /\ i \in Occupied
                             /\ pstate'[procList[i].pid] = pstate[procList[i].pid]
    BY <1>1, <1>2, <1>3
  <2> QED
    BY <2>1 DEF SchedInv, ChildInv, TasksAreChildren, TasksNotDoomed
<1>6. TasksHeldBack'
  BY <1>1, SignalFacts DEF SchedInv, ChildInv, TasksHeldBack
<1>7. SchedulerTypeOK'
  BY <1>1 DEF SchedInv, SchedulerTypeOK, pipes
<1>8. ShellInv'
  <2>1. pstate'[Shell] # "none"
    BY <1>1, ShellConstants, SignalFacts DEF SchedInv, ShellInv
  <2>2. 0 \in Occupied' => procList'[0].pid = Shell
    BY DEF SchedInv, ShellInv
  <2>3. 0 \notin Occupied' => pstate'[Shell] \notin Live
    <3>1. 0 \notin Occupied' => 0 \in R /\ procList[0].pid = Shell
      BY DEF SchedInv, ShellInv
    <3> QED
      BY <3>1, <1>1, <1>2, ShellConstants, SignalFacts
  <2> QED
    BY <2>1, <2>2, <2>3 DEF SchedInv, ShellInv
<1> QED
  BY <1>4, <1>5, <1>6, <1>7, <1>8 DEF SchedInv, ChildInv

\* "k": a task leaves the table in the request that sends it SIGKILL.
LEMMA ServeKillStep ==
    ASSUME SchedInv, TableInv', ServeKill
    PROVE  SchedInv'
<1> DEFINE id == request.arg
<1>1. /\ pc = "got" /\ mode = "main" /\ 0 \in Occupied
      /\ UNCHANGED <<runningID, flag, ready, nproc, booting, sigchld, sigalrm, timer, pipes>>
  BY DEF ServeKill, Serving, SchedInv, ShellInv
<1>2. CASE mode' \in {"fail", "undef"} /\ pc' = pc /\ UNCHANGED <<table, pstate>>
  BY <1>1, <1>2, EndStep DEF kernel
<1>3. CASE Served /\ UNCHANGED <<table, pstate>>
  BY <1>1, <1>3 DEF Served, SchedInv, SchedulerTypeOK, ShellInv, ChildInv, NoOrphans,
     TasksAreChildren, TasksHeldBack, TasksNotDoomed, Occupied, table, pipes
<1>4. CASE id \in Occupied /\ RemoveTask(id) /\ Kill({procList[id].pid}) /\ Served
  <2>1. /\ Occupied' = Occupied \ {id}
        /\ \A i \in Occupied' : procList'[i] = procList[i]
    BY <1>4 DEF RemoveTask, SchedInv, TableInv, TableTypeOK, Occupied
  <2>2. Kill({procList[i].pid : i \in {id}})
    <3>1. {procList[i].pid : i \in {id}} = {procList[id].pid}
      OBVIOUS
    <3> QED
      BY <3>1, <1>4
  <2>3. {id} \in SUBSET Occupied
    BY <1>4
  <2>4. pc' = "reply" /\ mode' = mode /\ chan' = chan
    BY <1>1, <1>4 DEF Served, pipes
  <2> HIDE DEF id
  <2> QED
    BY <2>1, <2>2, <2>3, <2>4, <1>1, KillStep
<1> QED
  BY <1>2, <1>3, <1>4 DEF ServeKill, Ends

\* "q": all the tasks that leave the table are sent SIGKILL.
LEMMA ServeQuitStep ==
    ASSUME SchedInv, TableInv', ServeQuit
    PROVE  SchedInv'
<1> DEFINE R == {k \in Occupied : procList'[k] = NULL}
<1>1. /\ pc = "got" /\ mode = "main" /\ 0 \in Occupied
      /\ Quit /\ Kill({procList[i].pid : i \in R}) /\ Served
      /\ UNCHANGED <<runningID, flag, ready, nproc, booting, sigchld, sigalrm, timer, pipes>>
  BY DEF ServeQuit, Serving, SchedInv, ShellInv
<1>2. \A i \in Slots : procList'[i] = NULL \/ procList'[i] = procList[i]
  BY <1>1 DEF Quit, SchedInv, TableInv, TableTypeOK
<1>3. /\ Occupied' = Occupied \ R
      /\ \A i \in Occupied' : procList'[i] = procList[i]
  BY <1>2 DEF Occupied
<1>4. pc' = "reply" /\ mode' = mode /\ chan' = chan /\ R \in SUBSET Occupied
  BY <1>1 DEF Served, pipes
<1> HIDE DEF R
<1> QED
  BY <1>1, <1>3, <1>4, KillStep

\* "h" and "l" keep the tasks and their pids.
LEMMA ServePriorityStep ==
    ASSUME SchedInv, TableInv', ServePriority
    PROVE  SchedInv'
<1>1. /\ pc = "got" /\ 0 \in Occupied
      /\ UNCHANGED <<runningID, flag, ready, nproc, kernel, pipes>>
  BY DEF ServePriority, Serving, SchedInv, ShellInv
<1>2. CASE Ends("undef")
  BY <1>1, <1>2, EndStep DEF Ends
<1>3. CASE Served
  <2>1. /\ Occupied' = Occupied
        /\ \A i \in Occupied : procList'[i].pid = procList[i].pid
    <3>1. CASE UNCHANGED table
      BY <3>1 DEF table, Occupied
    <3>2. CASE ~UNCHANGED table
      <4>1. PICK r \in Occupied, c \in {PRIOR_LOW, PRIOR_HIGH} :
                procList' = [procList EXCEPT ![r].priority = c]
        BY <3>2, <1>3 DEF ServePriority, Ends, LowerTask, RaiseTask
      <4>2. \A i \in Occupied : i \in Slots /\ procList[i] \in Task
        BY DEF Occupied, SchedInv, TableInv, TableTypeOK
      <4>3. /\ \A i \in Slots \ {r} : procList'[i] = procList[i]
            /\ procList'[r] \in Task /\ procList'[r].pid = procList[r].pid
        BY <4>1, <4>2 DEF SchedInv, TableInv, TableTypeOK, Task
      <4> QED
        BY <4>2, <4>3, TableAssumption DEF Occupied
    <3> QED
      BY <3>1, <3>2
  <2>2. SchedulerTypeOK'
    BY <1>1, <1>3 DEF Served, SchedInv, SchedulerTypeOK, kernel, pipes
  <2>3. ShellInv' /\ ChildInv'
    BY <1>1, <1>3, <2>1 DEF Served, SchedInv, ShellInv, ChildInv, NoOrphans, TasksAreChildren,
       TasksHeldBack, TasksNotDoomed, kernel, pipes
  <2> QED
    BY <2>2, <2>3 DEF SchedInv
<1> QED
  BY <1>2, <1>3 DEF ServePriority

\* "e": the new child and its slot come together.
LEMMA ServeExecStep ==
    ASSUME SchedInv, TableInv', ServeExec
    PROVE  SchedInv'
<1>1. /\ pc = "got" /\ mode = "main" /\ 0 \in Occupied
      /\ UNCHANGED <<runningID, flag, ready, nproc, sigchld, sigalrm, timer, pipes>>
  BY DEF ServeExec, Serving, SchedInv, ShellInv
<1>2. CASE (Ends("undef") \/ Ends("fail")) /\ UNCHANGED <<pstate, booting>>
  BY <1>1, <1>2, EndStep DEF Ends, kernel
<1>3. CASE \E p \in Pids : /\ pstate[p] = "none" /\ CreateTask(p)
                           /\ pstate' = [pstate EXCEPT ![p] = "running"]
                           /\ booting' = booting \cup {p} /\ Served
  <2>1. PICK p \in Pids : /\ pstate[p] = "none" /\ CreateTask(p)
                         /\ pstate' = [pstate EXCEPT ![p] = "running"]
                         /\ booting' = booting \cup {p} /\ Served
    BY <1>3
  <2>2. PICK i \in Slots \ Occupied :
            procList' = [procList EXCEPT ![i] = [pid |-> p, priority |-> PRIOR_LOW]]
    BY <2>1 DEF CreateTask
  <2>3. [pid |-> p, priority |-> PRIOR_LOW] # NULL
    BY TableAssumption DEF Task
  <2>4. /\ Occupied' = Occupied \cup {i} /\ i # 0
        /\ procList'[i].pid = p
        /\ \A k \in Occupied : k # i /\ procList'[k] = procList[k]
    BY <1>1, <2>2, <2>3 DEF Occupied, SchedInv, TableInv, TableTypeOK
  <2>5. /\ pstate \in [Pids -> ProcStates] /\ pstate' \in [Pids -> ProcStates]
        /\ pstate'[p] = "running" /\ p # Shell
        /\ \A k \in Pids \ {p} : pstate'[k] = pstate[k]
    BY <2>1 DEF SchedInv, SchedulerTypeOK, ShellInv, ProcStates
  <2>6. \A k \in Occupied : procList[k].pid # p /\ procList[k].pid \in Pids
    BY <1>1, <2>1, PidsOfTable DEF SchedInv, ShellInv, ChildInv, TasksAreChildren, Children
  <2>7. NoOrphans'
    BY <2>4, <2>5 DEF SchedInv, ChildInv, NoOrphans
  <2>8. TasksAreChildren' /\ TasksNotDoomed'
    BY <1>1, <2>4, <2>5, <2>6
       DEF SchedInv, ChildInv, TasksAreChildren, TasksNotDoomed, Children, ProcStates
  <2>9. TasksHeldBack'
    BY <1>1, <2>1, <2>5 DEF SchedInv, ChildInv, TasksHeldBack
  <2>10. SchedulerTypeOK'
    BY <1>1, <2>1, <2>5 DEF Served, SchedInv, SchedulerTypeOK, pipes
  <2>11. ShellInv'
    BY <1>1, <2>1, <2>4, <2>5, ShellConstants DEF Served, SchedInv, ShellInv, pipes
  <2> QED
    BY <2>7, <2>8, <2>9, <2>10, <2>11 DEF SchedInv, ChildInv
<1> QED
  BY <1>2, <1>3 DEF ServeExec

\* A death that is found in the table leaves it in the same iteration.
LEMMA ReapTaskStep ==
    ASSUME SchedInv, TableInv', NEW q \in Pids, ReapTask(q)
    PROVE  SchedInv'
<1> DEFINE ps == Reaped(q)
<1>1. /\ mode = "chld" /\ flag /\ pstate[q] = "zombie"
      /\ UNCHANGED <<flag, pc, ready, nproc, booting, sigalrm, timer, pipes>>
  BY DEF ReapTask, Reported
<1>2. PICK j \in SlotsOf(q) :
        /\ RemoveTask(j)
        /\ IF procList'[0] = NULL /\ lowProcs' = 0 /\ highProcs' = 0
           THEN mode' = "exit0" /\ pstate' = ps /\ UNCHANGED <<runningID, sigchld>>
           ELSE IF j = runningID
                THEN Resume(ps)
                ELSE pstate' = ps /\ UNCHANGED <<mode, runningID, sigchld>>
  BY DEF ReapTask
<1>3. j \in Occupied \ {0} /\ procList[j].pid = q
  BY DEF SlotsOf
<1>4. /\ Occupied' = Occupied \ {j}
      /\ \A i \in Occupied' : procList'[i] = procList[i]
  BY <1>2 DEF RemoveTask, SchedInv, TableInv, TableTypeOK, Occupied
<1>5. /\ pstate \in [Pids -> ProcStates]
      /\ ps \in [Pids -> ProcStates] /\ ps[q] = "gone"
      /\ \A p \in Pids \ {q} : ps[p] = pstate[p]
  BY <1>1 DEF SchedInv, SchedulerTypeOK, Reaped, OnWait, ProcStates
<1> HIDE DEF ps
<1>6. /\ runningID' \in Slots /\ mode' \in {"exit0", "chld", "spin", "segv", "fail"}
      /\ sigchld' \in BOOLEAN /\ pstate' \in [Pids -> ProcStates]
      /\ \A p \in Pids : pstate'[p] = ps[p] \/ pstate'[p] = OnCont(ps[p])
  <2>1. TableTypeOK' /\ SchedulerTypeOK
    BY DEF SchedInv, TableInv
  <2>2. CASE Resume(ps)
    BY <2>1, <2>2, <1>1, <1>5, ResumeFacts
  <2>3. CASE pstate' = ps /\ UNCHANGED <<runningID, sigchld>> /\ mode' \in {"exit0", mode}
    BY <2>1, <2>3, <1>1, <1>5 DEF SchedulerTypeOK
  <2> QED
    BY <1>2, <2>2, <2>3
<1>7. \A p \in Pids \ {q} :
          /\ pstate'[p] \in Live => pstate[p] \in Live
          /\ pstate[p] \in Children => pstate'[p] \in Children
          /\ pstate[p] # "none" => pstate'[p] # "none"
  BY <1>5, <1>6, SignalFacts
<1>8. pstate'[q] = "gone"
  BY <1>5, <1>6 DEF OnCont, Halted
<1>9. \A i \in Occupied' : i \in Occupied /\ procList[i].pid # q /\ procList[i].pid \in Pids
  BY <1>3, <1>4, PidsOfTable DEF SchedInv, TableInv, DistinctPids
<1>10. NoOrphans'
  <2> SUFFICES ASSUME NEW p \in Pids, pstate'[p] \in Live
               PROVE  \E i \in Occupied' : procList'[i].pid = p
    BY DEF NoOrphans
  <2>1. p # q /\ pstate[p] \in Live
    BY <1>7, <1>8 DEF Live, Active, Halted
  <2>2. PICK i \in Occupied : procList[i].pid = p
    BY <2>1 DEF SchedInv, ChildInv, NoOrphans
  <2> QED
    BY <2>1, <2>2, <1>3, <1>4
<1>11. TasksAreChildren'
  BY <1>4, <1>7, <1>9 DEF SchedInv, ChildInv, TasksAreChildren
<1>12. TasksHeldBack' /\ TasksNotDoomed'
  BY <1>1 DEF TasksHeldBack, TasksNotDoomed
<1>13. SchedulerTypeOK'
  BY <1>1, <1>6 DEF SchedInv, SchedulerTypeOK, pipes, Ended
<1>14. ShellInv'
  <2>1. pstate'[Shell] # "none"
    BY <1>7, <1>8, ShellConstants DEF SchedInv, ShellInv
  <2>2. (0 \in Occupied' <=> 0 \in Occupied) /\ (0 \in Occupied' => procList'[0] = procList[0])
    BY <1>3, <1>4
  <2>3. pstate[Shell] \notin Live => pstate'[Shell] \notin Live
    BY <1>7, <1>8, ShellConstants DEF Live, Active, Halted
  <2> QED
    BY <1>1, <2>1, <2>2, <2>3 DEF SchedInv, ShellInv, pipes
<1> QED
  BY <1>10, <1>11, <1>12, <1>13, <1>14 DEF SchedInv, ChildInv
-----------------------------------------------------------------------------
\* Every action of the scheduler, the kernel and the user keeps the invariant.
LEMMA SchedStep == SchedInv /\ [Next]_vars => SchedInv'
<1> SUFFICES ASSUME SchedInv, [Next]_vars PROVE SchedInv'
  OBVIOUS
<1>1. TableInv'
  BY StepUsesTable, TableStep DEF SchedInv
<1>2. CASE WaitReady
  BY <1>1, <1>2, WaitReadyStep
<1>3. CASE Start
  BY <1>1, <1>3, StartStep
<1>4. CASE \/ ReadRequest \/ ReadEOF \/ Reply \/ ServePrint \/ WaitNone
           \/ SigchldHandler \/ Tick \/ ShellGetsReply \/ UNCHANGED vars
           \/ \E r \in Requests : ShellAsks(r)
  BY <1>1, <1>4, CalmSteps
<1>5. CASE ServeKill
  BY <1>1, <1>5, ServeKillStep
<1>6. CASE ServeExec
  BY <1>1, <1>6, ServeExecStep
<1>7. CASE ServePriority
  BY <1>1, <1>7, ServePriorityStep
<1>8. CASE ServeQuit
  BY <1>1, <1>8, ServeQuitStep
<1>9. CASE SigalrmHandler
  BY <1>1, <1>9, SigalrmStep
<1>10. CASE \E p \in Pids : ReapIgnored(p) \/ ReapStopped(p) \/ ReapUnknown(p)
  BY <1>1, <1>10, ReapStep
<1>11. CASE \E p \in Pids : ReapTask(p)
  BY <1>1, <1>11, ReapTaskStep
<1>12. CASE \E p \in Pids : Carry(p) \/ Exit(p)
  BY <1>1, <1>12, KernelStep
<1> QED
  BY <1>2, <1>3, <1>4, <1>5, <1>6, <1>7, <1>8, <1>9, <1>10, <1>11, <1>12
     DEF Next, Program, Serve, Reap

\* The strengthening of NoOrphans, TasksAreChildren and TasksHeldBack that is
\* inductive holds in every behaviour: deaths, kills and creations come from three
\* contexts (handler, request loop, kernel), and each keeps table and children in step.
THEOREM SchedInvariant == Spec => []SchedInv
<1>1. Init => SchedInv
  BY SchedInit
<1>2. SchedInv /\ [Next]_vars => SchedInv'
  BY SchedStep
<1> QED
  BY <1>1, <1>2, PTL DEF Spec

\* Every behaviour of the scheduler, seen through its table, is a behaviour of
\* TaskTable: the handlers and the request loop, interleaved in any way, create
\* and remove tasks only as it allows.
THEOREM SchedulerUsesTable == Spec => UsesTable
<1>1. Init => InitTable
  BY DEF Init
<1>2. SchedInv /\ [Next]_vars => [TableNext]_table
  BY StepUsesTable
<1> QED
  BY <1>1, <1>2, SchedInvariant, PTL DEF Spec, UsesTable, TableSpec

\* The whole state keeps its types: in particular the running slot is always one
\* of the table, so procList[runningID] is never out of bounds in a handler.
THEOREM SchedulerTypes == Spec => []TypeOK
<1>1. SchedInv => TypeOK
  BY DEF SchedInv, TableInv, TypeOK
<1> QED
  BY <1>1, SchedInvariant, PTL

\* The queues stay in step with procList, and no two tasks share a pid, under any
\* interleaving of requests, deaths, stops and alarms.
THEOREM TableConsistent == Spec => [](QueuesMatch /\ DistinctPids)
<1>1. SchedInv => QueuesMatch /\ DistinctPids
  BY DEF SchedInv, TableInv
<1> QED
  BY <1>1, SchedInvariant, PTL

-----------------------------------------------------------------------------
\* By how much lowProcs is too small.
Gap == Cardinality(LowTasks) - lowProcs

\* What makes CountersRight inductive: the tasks that main() starts have pids up
\* to nproc, so a pid that e is given is a new element of Started.
CountInv ==
    /\ \A p \in Pids : p <= nproc => pstate[p] # "none"
    /\ 0 \in Occupied => Gap = 1 + Cardinality(Started)

LEMMA GapType == ASSUME TableTypeOK PROVE Gap \in Int
BY QueuesFinite DEF Gap, TableTypeOK

\* Whoever removes a task takes it off the counter of the queue it leaves.
LEMMA RemoveGap ==
    ASSUME TableInv, NEW i \in Slots, RemoveTask(i)
    PROVE  Gap' = Gap
<1>1. TableTypeOK /\ QueuesMatch
  BY DEF TableInv
<1>2. i \in Occupied /\ procList' = [procList EXCEPT ![i] = NULL]
  BY DEF RemoveTask
<1>3. Occupied' = Occupied \ {i}
  BY <1>1, <1>2 DEF Occupied, TableTypeOK
<1>4. CASE procList[i].priority = PRIOR_LOW
  <2>1. low' = low \ {i} /\ lowProcs' = lowProcs - 1 /\ i \in low
    BY <1>1, <1>2, <1>4 DEF RemoveTask, QueuesMatch
  <2>2. LowTasks' = LowTasks \ {i} /\ i \in LowTasks
    BY <2>1, <1>2, <1>3 DEF LowTasks
  <2>3. Cardinality(LowTasks') = Cardinality(LowTasks) - 1
    BY <2>2, <1>1, QueuesFinite, FS_RemoveElement
  <2> QED
    BY <2>1, <2>3, <1>1, QueuesFinite DEF Gap, TableTypeOK
<1>5. CASE procList[i].priority # PRIOR_LOW
  <2>1. low' = low /\ lowProcs' = lowProcs /\ i \notin low
    BY <1>1, <1>2, <1>5 DEF RemoveTask, QueuesMatch
  <2>2. LowTasks' = LowTasks
    BY <2>1, <1>3 DEF LowTasks
  <2> QED
    BY <2>1, <2>2 DEF Gap
<1> QED
  BY <1>4, <1>5

\* A task that changes its queue changes the counters with it.
LEMMA PriorityGap ==
    ASSUME TableInv, NEW i \in Slots, LowerTask(i) \/ RaiseTask(i)
    PROVE  Gap' = Gap
<1>1. TableTypeOK /\ QueuesMatch /\ i \in Occupied
  BY DEF TableInv, LowerTask, RaiseTask
<1>2. PICK c \in {PRIOR_LOW, PRIOR_HIGH} : procList' = [procList EXCEPT ![i].priority = c]
  BY DEF LowerTask, RaiseTask
<1>3. Occupied' = Occupied
  <2>1. procList[i] \in Task
    BY <1>1 DEF Occupied, TableTypeOK
  <2>2. [procList[i] EXCEPT !.priority = c] # NULL
    BY <2>1, <1>2, TableAssumption DEF Task
  <2> QED
    BY <1>1, <1>2, <2>2 DEF Occupied, TableTypeOK
<1>4. i \in high <=> i \notin low
  BY <1>1 DEF QueuesMatch, Occupied, TableTypeOK, Task, PRIOR_LOW, PRIOR_HIGH
<1>5. CASE LowerTask(i)
  <2>1. CASE i \in high
    <3>1. lowProcs' = lowProcs + 1 /\ low' = low \cup {i} /\ i \notin low
      BY <1>4, <1>5, <2>1 DEF LowerTask
    <3>2. LowTasks' = LowTasks \cup {i} /\ i \notin LowTasks
      BY <3>1, <1>1, <1>3 DEF LowTasks
    <3>3. Cardinality(LowTasks') = Cardinality(LowTasks) + 1
      BY <3>2, <1>1, QueuesFinite, FS_AddElement
    <3> QED
      BY <3>1, <3>3, <1>1, QueuesFinite DEF Gap, TableTypeOK
  <2>2. CASE i \notin high
    <3>1. lowProcs' = lowProcs /\ low' = low
      BY <1>4, <1>5, <2>2 DEF LowerTask
    <3> QED
      BY <3>1, <1>3 DEF Gap, LowTasks
  <2> QED
    BY <2>1, <2>2
<1>6. CASE RaiseTask(i)
  <2>1. CASE i \in low
    <3>1. lowProcs' = lowProcs - 1 /\ low' = low \ {i}
      BY <1>6, <2>1 DEF RaiseTask
    <3>2. LowTasks' = LowTasks \ {i} /\ i \in LowTasks
      BY <3>1, <2>1, <1>1, <1>3 DEF LowTasks
    <3>3. Cardinality(LowTasks') = Cardinality(LowTasks) - 1
      BY <3>2, <1>1, QueuesFinite, FS_RemoveElement
    <3> QED
      BY <3>1, <3>3, <1>1, QueuesFinite DEF Gap, TableTypeOK
  <2>2. CASE i \notin low
    <3>1. lowProcs' = lowProcs /\ low' = low
      BY <1>6, <2>2 DEF RaiseTask
    <3> QED
      BY <3>1, <1>3 DEF Gap, LowTasks
  <2> QED
    BY <2>1, <2>2
<1> QED
  BY <1>5, <1>6

\* e leaves the counter behind the table by one more.
LEMMA CreateGap ==
    ASSUME TableInv, NEW p \in Pids, CreateTask(p)
    PROVE  Gap' = Gap + 1
<1>1. PICK i \in Slots \ Occupied :
          /\ procList' = [procList EXCEPT ![i] = [pid |-> p, priority |-> PRIOR_LOW]]
          /\ low' = low \cup {i}
          /\ lowProcs' = lowProcs
  BY DEF CreateTask
<1>2. TableTypeOK
  BY DEF TableInv
<1>3. [pid |-> p, priority |-> PRIOR_LOW] # NULL
  BY TableAssumption DEF Task
<1>4. Occupied' = Occupied \cup {i}
  BY <1>1, <1>2, <1>3 DEF Occupied, TableTypeOK
<1>5. LowTasks' = LowTasks \cup {i} /\ i \notin LowTasks
  <2>1. low \subseteq Slots /\ (low \ Occupied) \subseteq {0}
    BY DEF TableInv, TableTypeOK, QueuesMatch
  <2> QED
    BY <2>1, <1>1, <1>4 DEF LowTasks
<1>6. Cardinality(LowTasks') = Cardinality(LowTasks) + 1
  BY <1>5, <1>2, QueuesFinite, FS_AddElement
<1> QED
  BY <1>1, <1>2, <1>6, QueuesFinite DEF Gap, TableTypeOK

\* Only e makes a process of a pid, and no pid is ever given back.
LEMMA SameChildren ==
    ASSUME SchedInv, TableInv', [Next]_vars, ~ServeExec
    PROVE  \A p \in Pids : pstate'[p] = "none" <=> pstate[p] = "none"
<1>1. /\ pstate \in [Pids -> ProcStates]
      /\ \A p \in Pids : pstate[p] \in ProcStates
      /\ SchedulerTypeOK /\ TableTypeOK'
  BY DEF SchedInv, TableInv, SchedulerTypeOK
<1>2. ASSUME NEW q \in Pids, pstate' = [pstate EXCEPT ![q] = OnWait(@)]
      PROVE  \A p \in Pids : pstate'[p] = "none" <=> pstate[p] = "none"
  BY <1>1, <1>2, SignalFacts
<1>3. ASSUME NEW q \in Pids, Resume(Reaped(q))
      PROVE  \A p \in Pids : pstate'[p] = "none" <=> pstate[p] = "none"
  <2>1. /\ Reaped(q) \in [Pids -> ProcStates]
        /\ \A p \in Pids : Reaped(q)[p] = "none" <=> pstate[p] = "none"
    BY <1>1, SignalFacts DEF Reaped
  <2>2. \A p \in Pids : pstate'[p] = Reaped(q)[p] \/ pstate'[p] = OnCont(Reaped(q)[p])
    BY <1>1, <1>3, <2>1, ResumeFacts
  <2> QED
    BY <2>1, <2>2, SignalFacts
<1>4. ASSUME NEW P, Kill(P)
      PROVE  \A p \in Pids : pstate'[p] = "none" <=> pstate[p] = "none"
  BY <1>1, <1>4, SignalFacts DEF Kill
<1>5. CASE pstate' = pstate
  BY <1>5
<1>6. CASE WaitReady \/ \E p \in Pids : ReapIgnored(p) \/ ReapUnknown(p)
  BY <1>2, <1>6 DEF WaitReady, ReapIgnored, ReapUnknown, Reaped
<1>7. CASE Start
  BY <1>1, <1>5, <1>7, SignalFacts, ShellConstants DEF Start
<1>8. CASE ServeKill
  BY <1>4, <1>5, <1>8 DEF ServeKill
<1>9. CASE ServeQuit
  BY <1>4, <1>9 DEF ServeQuit
<1>10. CASE \E p \in Pids : ReapStopped(p)
  BY <1>3, <1>10 DEF ReapStopped
<1>11. CASE \E p \in Pids : ReapTask(p)
  BY <1>2, <1>3, <1>11 DEF ReapTask, Reaped
<1>12. CASE SigalrmHandler
  <2>1. CASE ~(procList[runningID] = NULL \/ pstate[procList[runningID].pid] = "gone")
    <3>1. pstate' = [pstate EXCEPT ![procList[runningID].pid] = OnStop(@)]
      BY <1>12, <2>1 DEF SigalrmHandler
    <3> QED
      BY <1>1, <3>1, SignalFacts
  <2> QED
    BY <1>5, <1>12, <2>1 DEF SigalrmHandler
<1>13. CASE \E p \in Pids : Carry(p) \/ Exit(p)
  <2>1. PICK p \in Pids : /\ pstate[p] # "none"
                         /\ \E t \in {"stopped", "zombie"} : pstate' = [pstate EXCEPT ![p] = t]
    BY <1>13 DEF Carry, BootStop, KernelStop, KernelKill, Exit, Active
  <2> QED
    BY <1>1, <2>1
<1>14. CASE \/ ReadRequest \/ ReadEOF \/ Reply \/ ServePrint \/ ServePriority \/ WaitNone
            \/ SigchldHandler \/ Tick \/ ShellGetsReply \/ UNCHANGED vars
            \/ \E r \in Requests : ShellAsks(r)
  BY <1>5, <1>14
     DEF ReadRequest, ReadEOF, Reply, ServePrint, ServePriority, WaitNone, SigchldHandler,
         Tick, ShellGetsReply, ShellAsks, kernel, vars
<1> QED
  BY <1>6, <1>7, <1>8, <1>9, <1>10, <1>11, <1>12, <1>13, <1>14
     DEF Next, Program, Serve, Reap

\* argc does not change.
LEMMA NprocKept == ASSUME [Next]_vars PROVE nproc' = nproc
<1> USE DEF main
<1>1. CASE WaitReady \/ Start \/ ReadRequest \/ ReadEOF \/ Reply \/ Serve \/ WaitNone
  BY <1>1 DEF WaitReady, Start, ReadRequest, ReadEOF, Reply, Serve, ServePrint, ServeKill,
              ServeExec, ServePriority, ServeQuit, WaitNone
<1>2. CASE \E p \in Pids : Reap(p) \/ Carry(p) \/ Exit(p)
  BY <1>2 DEF Reap, ReapIgnored, ReapStopped, ReapUnknown, ReapTask, Carry, BootStop,
              KernelStop, KernelKill, Exit
<1>3. CASE \/ SigalrmHandler \/ SigchldHandler \/ Tick \/ ShellGetsReply \/ UNCHANGED vars
           \/ \E r \in Requests : ShellAsks(r)
  BY <1>3 DEF SigalrmHandler, SigchldHandler, Tick, ShellGetsReply, ShellAsks, vars
<1> QED
  BY <1>1, <1>2, <1>3 DEF Next, Program

LEMMA StartedFinite == IsFiniteSet(Started) /\ Cardinality(Started) \in Nat
<1>1. IsFiniteSet(Pids)
  BY FS_Interval, TableAssumption DEF Pids
<1>2. Started \subseteq Pids
  BY DEF Started
<1> QED
  BY <1>1, <1>2, FS_Subset, FS_CardinalityType

LEMMA CountInit == Init => CountInv
<1> SUFFICES ASSUME Init PROVE CountInv
  OBVIOUS
<1>1. PICK n \in NProcs : /\ procList = [i \in Slots |-> IF i <= n
                                           THEN [pid |-> i, priority |-> PRIOR_LOW]
                                           ELSE NULL]
                         /\ low = 0 .. n /\ lowProcs = n
  BY DEF Init, InitTable
<1>2. n \in Nat /\ n < MAX_TASKS /\ n <= MaxPid /\ MAX_TASKS \in Nat /\ MaxPid \in Nat
  BY TableAssumption
<1>3. nproc = n /\ pstate = [p \in Pids |-> IF p <= n THEN "running" ELSE "none"]
  BY <1>1 DEF Init
<1>4. LowTasks = 0 .. n
  <2>1. \A i \in 0 .. n : [pid |-> i, priority |-> PRIOR_LOW] \in Task
    BY <1>2 DEF Task, Pids
  <2> QED
    BY <1>1, <1>2, <2>1, TableAssumption DEF LowTasks, Occupied, Slots
<1>5. Cardinality(LowTasks) = n + 1
  <2>1. Cardinality(0 .. n) = IF 0 > n THEN 0 ELSE n - 0 + 1
    BY <1>2, FS_Interval
  <2> QED
    BY <1>2, <1>4, <2>1
<1>6. Gap = 1
  BY <1>1, <1>2, <1>5 DEF Gap
<1>7. Started = {}
  BY <1>2, <1>3 DEF Started, Pids
<1>8. Cardinality(Started) = 0
  BY <1>7, FS_EmptySet
<1>9. \A p \in Pids : p <= nproc => pstate[p] # "none"
  BY <1>3
<1> QED
  BY <1>6, <1>8, <1>9 DEF CountInv

LEMMA CountStep ==
    ASSUME SchedInv, CountInv, [Next]_vars
    PROVE  CountInv'
<1>1. TableInv /\ TableInv' /\ nproc' = nproc
  BY StepUsesTable, TableStep, NprocKept DEF SchedInv
<1>2. Gap \in Int /\ Cardinality(Started) \in Nat
  BY <1>1, GapType, StartedFinite DEF TableInv
<1>3. CASE ServeExec
  <2>1. CASE UNCHANGED <<table, pstate>>
    BY <1>1, <2>1 DEF CountInv, Gap, LowTasks, Occupied, Started, table
  <2>2. CASE ~UNCHANGED <<table, pstate>>
    <3>1. PICK p \in Pids : /\ pstate[p] = "none" /\ CreateTask(p)
                           /\ pstate' = [pstate EXCEPT ![p] = "running"]
      BY <1>3, <2>2, ExecMoves
    <3>2. 0 \in Occupied /\ Gap' = Gap + 1
      BY <1>1, <1>3, <3>1, ExecMoves, CreateGap
    <3>3. pstate \in [Pids -> ProcStates] /\ ~(p <= nproc)
      BY <3>1 DEF SchedInv, SchedulerTypeOK, CountInv
    <3>4. \A q \in Pids : pstate'[q] # "none" <=> q = p \/ pstate[q] # "none"
      BY <3>1, <3>3
    <3>5. p > nproc
      <4>1. p \in Int /\ nproc \in Int
        BY TableAssumption DEF Pids, SchedInv, SchedulerTypeOK
      <4> QED
        BY <3>3, <4>1
    <3>6. Started' = Started \cup {p} /\ p \notin Started
      BY <1>1, <3>1, <3>4, <3>5 DEF Started
    <3>7. Cardinality(Started') = Cardinality(Started) + 1
      BY <3>6, StartedFinite, FS_AddElement
    <3>8. Gap' = 1 + Cardinality(Started')
      BY <1>2, <3>2, <3>7 DEF CountInv
    <3> QED
      BY <1>1, <3>4, <3>8 DEF CountInv
  <2> QED
    BY <2>1, <2>2
<1>4. CASE ~ServeExec
  <2>1. \A p \in Pids : pstate'[p] = "none" <=> pstate[p] = "none"
    BY <1>1, <1>4, SameChildren
  <2>2. Started' = Started
    BY <1>1, <2>1 DEF Started
  <2>3. CASE Quit
    <3>1. 0 \notin Occupied'
      BY <2>3, <1>1, ShellConstants DEF Quit, Occupied, TableInv, TableTypeOK
    <3> QED
      BY <1>1, <2>1, <3>1 DEF CountInv
  <2>4. CASE ~Quit
    <3>1. Gap' = Gap
      <4>1. CASE UNCHANGED table
        BY <4>1 DEF Gap, LowTasks, Occupied, table
      <4>2. CASE \E i \in Slots : RemoveTask(i) \/ LowerTask(i) \/ RaiseTask(i)
        BY <1>1, <4>2, RemoveGap, PriorityGap
      <4> QED
        BY <1>4, <2>4, <4>1, <4>2, TableMoves
    <3>2. 0 \in Occupied' => 0 \in Occupied
      BY <1>4, <2>4, TableMoves
         DEF RemoveTask, LowerTask, RaiseTask, table, Occupied, SchedInv, TableInv, TableTypeOK
    <3> QED
      BY <1>1, <2>1, <2>2, <3>1, <3>2 DEF CountInv
  <2> QED
    BY <2>3, <2>4
<1> QED
  BY <1>3, <1>4

\* Both counters say what they can, although they are changed in the SIGCHLD
\* handler and in the request loop: highProcs is exact, and lowProcs leaves out
\* the shell and one for every e, whatever has become of the task.
THEOREM CountersHold == Spec => []CountersRight
<1>1. Init => CountInv
  BY CountInit
<1>2. SchedInv /\ CountInv /\ [Next]_vars => CountInv'
  BY CountStep
<1>3. SchedInv /\ CountInv => CountersRight
  <2> SUFFICES ASSUME SchedInv, CountInv PROVE CountersRight
    OBVIOUS
  <2>1. HighCounted /\ LowNotOvercounted /\ TableTypeOK
    BY DEF SchedInv, TableInv
  <2>2. 0 \in Occupied => lowProcs = Cardinality(LowTasks) - 1 - Cardinality(Started)
    <3>1. lowProcs \in Int /\ Cardinality(LowTasks) \in Nat /\ Cardinality(Started) \in Nat
      BY <2>1, QueuesFinite, StartedFinite DEF TableTypeOK
    <3> QED
      BY <3>1 DEF CountInv, Gap
  <2> QED
    BY <2>1, <2>2 DEF CountersRight
<1> QED
  BY <1>1, <1>2, <1>3, SchedInvariant, PTL DEF Spec

\* What the tests of "k 0" and of q want to know.
CompanyKnown ==
    Started = {} /\ 0 \in Occupied /\ procList[0].priority = PRIOR_LOW =>
        /\ HasCompany <=> Occupied # {0}
        /\ (lowProcs > 0 \/ highProcs > 0) <=> Occupied # {0}

\* As long as e was not used and the shell has its low priority, both tests are
\* right: "k 0" is refused, and destroy_universe() called, exactly when there is
\* a task beside the shell.
THEOREM CompanyIsKnown == Spec => []CompanyKnown
<1>1. SchedInv /\ CountersRight => CompanyKnown
  <2> SUFFICES ASSUME SchedInv, CountersRight, Started = {}, 0 \in Occupied,
                      procList[0].priority = PRIOR_LOW
               PROVE  /\ HasCompany <=> Occupied # {0}
                      /\ (lowProcs > 0 \/ highProcs > 0) <=> Occupied # {0}
    BY DEF CompanyKnown
  <2>1. TableTypeOK /\ QueuesMatch
    BY DEF SchedInv, TableInv
  <2>2. /\ IsFiniteSet(HighTasks) /\ Cardinality(HighTasks) \in Nat
        /\ IsFiniteSet(LowTasks) /\ Cardinality(LowTasks) \in Nat
    BY <2>1, QueuesFinite
  <2>3. 0 \in LowTasks /\ Occupied = LowTasks \cup HighTasks
    BY <2>1 DEF QueuesMatch, LowTasks, HighTasks, Occupied, TableTypeOK, Task
  <2>4. IsFiniteSet(LowTasks \ {0}) /\ Cardinality(LowTasks \ {0}) = Cardinality(LowTasks) - 1
    BY <2>2, <2>3, FS_RemoveElement
  <2>5. /\ highProcs = Cardinality(HighTasks)
        /\ lowProcs = Cardinality(LowTasks \ {0})
    <3>1. Cardinality(Started) = 0
      BY FS_EmptySet
    <3> QED
      BY <2>2, <2>4, <3>1 DEF CountersRight, HighCounted
  <2>6. Cardinality(LowTasks \ {0}) \in Nat
    BY <2>4, FS_CardinalityType
  <2>7. /\ Cardinality(HighTasks) = 0 <=> HighTasks = {}
        /\ Cardinality(LowTasks \ {0}) = 0 <=> LowTasks \ {0} = {}
    BY <2>2, <2>4, FS_EmptySet
  <2>8. Occupied # {0} <=> HighTasks # {} \/ LowTasks \ {0} # {}
    <3>1. 0 \notin HighTasks
      BY <2>1 DEF QueuesMatch, HighTasks, PRIOR_LOW, PRIOR_HIGH
    <3> QED
      BY <2>3, <3>1
  <2>9. highProcs \in Nat /\ lowProcs \in Nat
    BY <2>2, <2>5, <2>6
  <2>10. Occupied # {0} <=> highProcs # 0 \/ lowProcs # 0
    BY <2>5, <2>7, <2>8
  <2> QED
    BY <2>9, <2>10 DEF HasCompany
<1> QED
  BY <1>1, SchedInvariant, CountersHold, PTL

\* Whatever lives is in the table: no child is left that nobody will resume.
THEOREM NothingLost == Spec => []NoOrphans
<1>1. SchedInv => NoOrphans
  BY DEF SchedInv, ChildInv
<1> QED
  BY <1>1, SchedInvariant, PTL

\* Whatever task is in the table is a child not yet collected, although entries
\* and deaths come from different contexts: kill() never reaches a stranger.
THEOREM TasksStayChildren == Spec => []TasksAreChildren
<1>1. SchedInv => TasksAreChildren
  BY DEF SchedInv, ChildInv
<1> QED
  BY <1>1, SchedInvariant, PTL

\* Nothing but the shell runs in the first quantum, so the reports consumed
\* before flag is set never include the death of a task of the table.
THEOREM HeldBackUntilAlarm == Spec => []TasksHeldBack
<1>1. SchedInv => TasksHeldBack
  BY DEF SchedInv, ChildInv
<1> QED
  BY <1>1, SchedInvariant, PTL
-----------------------------------------------------------------------------
\* The task that sfind() resumes is of low priority only if all are.
LEMMA ResumeHighFirst ==
    ASSUME NEW ps \in [Pids -> ProcStates], TableInv', Resume(ps),
           NEW p \in Pids, ps[p] \in Halted, pstate'[p] = "running"
    PROVE  \E i \in Occupied' :
               /\ procList'[i].pid = p
               /\ procList'[i].priority = PRIOR_LOW =>
                     \A k \in Occupied' : procList'[k].priority = PRIOR_LOW
<1>1. pstate' # ps
  BY DEF Halted
<1>2. PICK j \in sfind(runningID, Eligible(highProcs', high', low')) :
          /\ procList'[j] # NULL
          /\ pstate' = [ps EXCEPT ![procList'[j].pid] = OnCont(@)]
  BY <1>1 DEF Resume
<1>3. procList'[j].pid = p
  BY <1>2 DEF Halted
<1>4. /\ j \in Eligible(highProcs', high', low')
      /\ TableTypeOK' /\ QueuesMatch' /\ HighCounted'
  BY DEF sfind, TableInv
<1>5. j \in Occupied'
  BY <1>2, <1>4 DEF Eligible, TableTypeOK, Occupied
<1>6. CASE highProcs' > 0
  <2>1. procList'[j].priority = PRIOR_HIGH
    BY <1>4, <1>5, <1>6 DEF Eligible, QueuesMatch
  <2> QED
    BY <2>1, <1>3, <1>5 DEF PRIOR_LOW, PRIOR_HIGH
<1>7. CASE highProcs' = 0
  <2>1. IsFiniteSet(HighTasks')
    <3>1. IsFiniteSet(Slots)
      BY FS_Interval, TableAssumption DEF Slots
    <3>2. HighTasks' \subseteq Slots
      BY <1>4 DEF TableTypeOK, HighTasks
    <3> QED
      BY <3>1, <3>2, FS_Subset
  <2>2. HighTasks' = {}
    BY <2>1, <1>4, <1>7, FS_EmptySet DEF HighCounted
  <2>3. \A k \in Occupied' : k \notin high' /\ procList'[k] \in Task
    BY <2>2, <1>4 DEF HighTasks, TableTypeOK, Occupied
  <2>4. \A k \in Occupied' : procList'[k].priority = PRIOR_LOW
    BY <2>3, <1>4 DEF QueuesMatch, Task
  <2> QED
    BY <2>4, <1>3, <1>5
<1> QED
  BY <1>4, <1>6, <1>7 DEF Eligible, TableTypeOK

\* The choice by priority is right for every size of the table and any history:
\* the counter that sfind() consults never disagrees with the tasks there are.
THEOREM HighFirstHolds == Spec => HighFirst
<1> DEFINE Chosen(p) ==
        (mode = "chld" /\ pstate[p] \in Halted /\ pstate'[p] = "running") =>
            \E i \in Occupied' :
                /\ procList'[i].pid = p
                /\ procList'[i].priority = PRIOR_LOW =>
                      \A k \in Occupied' : procList'[k].priority = PRIOR_LOW
<1>1. SchedInv /\ SchedInv' /\ [Next]_vars => [\A p \in Pids : Chosen(p)]_vars
  <2> SUFFICES ASSUME SchedInv, SchedInv', Next, NEW p \in Pids,
                      mode = "chld", pstate[p] \in Halted, pstate'[p] = "running"
               PROVE  Chosen(p)
    OBVIOUS
  <2> DEFINE ps(q) == Reaped(q)
  <2>1. \A q \in Pids : pstate[q] \in Waitable =>
            /\ ps(q) \in [Pids -> ProcStates]
            /\ ps(q)[p] \in Halted
            /\ ps(q)[p] # "running"
    BY SignalFacts DEF Reaped, SchedInv, SchedulerTypeOK, OnWait, Waitable, Halted
  <2>2. PICK q \in Pids : pstate[q] \in Waitable /\ Resume(ps(q))
    <3>1. CASE WaitNone \/ WaitReady \/ Start
      BY <3>1 DEF WaitNone, WaitReady, Start, kernel, Halted
    <3>2. CASE \E k \in Pids : Carry(k) \/ Exit(k)
      BY <3>2 DEF Carry, BootStop, KernelStop, KernelKill, Exit, Halted, SchedInv, SchedulerTypeOK
    <3>3. CASE Tick \/ ShellGetsReply \/ \E r \in Requests : ShellAsks(r)
      BY <3>3 DEF Tick, ShellGetsReply, ShellAsks, kernel, Halted
    <3>4. CASE \E k \in Pids : Reap(k)
      BY <3>4, <2>1 DEF Reap, ReapIgnored, ReapUnknown, ReapStopped, ReapTask, Reported
    <3>5. CASE \/ ReadRequest \/ ReadEOF \/ Reply \/ Serve
               \/ SigalrmHandler \/ SigchldHandler
      BY <3>5 DEF ReadRequest, ReadEOF, Reply, Serve, ServePrint, ServeKill, ServeExec,
         ServePriority, ServeQuit, Serving, SigalrmHandler, SigchldHandler, Interruptible
    <3> QED
      BY <3>1, <3>2, <3>3, <3>4, <3>5 DEF Next, Program
  <2> HIDE DEF ps
  <2> QED
    BY <2>1, <2>2, ResumeHighFirst DEF SchedInv
<1> QED
  BY <1>1, SchedInvariant, PTL DEF Spec, HighFirst
-----------------------------------------------------------------------------
\* The kernel is prompt, and nobody starts tasks from the shell.
Prompt == Timely /\ \A r \in Requests : r.no # "EXEC_TASK"

InTurn(s) == s \in Active \/ s = "stopped"

\* A request that is about to be served is one the shell can ask.
Asked == chan = "request" \/ pc = "got" => request \in Requests

\* Until main() continues the shell, every child only gets to its own stop.
BeforeStart ==
    pc = "wait" =>
        /\ mode # "chld"
        /\ mode = "main" =>
              /\ ~flag /\ runningID = 0 /\ ~sigalrm
              /\ pstate[Shell] \in Live
              /\ \A p \in Pids : pstate[p] \in Active => p \in booting

\* From then on a task that executes, or whose stop has not been looked at yet,
\* is the one in runningID: so there is at most one stop for the handler to see,
\* and it hands on one turn.  Stops of the first quantum are looked at before
\* the first alarm, when they change nothing.
OneTurn ==
    /\ ~flag => \A p \in Pids : pstate[p] # "stopping"
    /\ mode \in {"main", "chld"} /\ pc # "wait" =>
          /\ booting = {}
          /\ \A p \in Pids : pstate[p] \in Active \/ (flag /\ pstate[p] = "stopped") =>
                procList[runningID] # NULL /\ procList[runningID].pid = p
          /\ ~flag => \/ \A p \in Pids : pstate[p] # "stopped"
                      \/ ~sigalrm /\ (sigchld \/ mode = "chld")

TurnInv == Asked /\ BeforeStart /\ OneTurn

\* A turn is given to one task, and to the one that runningID names.
LEMMA ResumeOne ==
    ASSUME NEW ps \in [Pids -> ProcStates], TableTypeOK', SchedulerTypeOK, mode = "chld",
           Resume(ps), \A p \in Pids : ~InTurn(ps[p])
    PROVE  mode' # "main" /\ (mode' = "chld" =>
               \A p \in Pids : InTurn(pstate'[p]) =>
                   procList'[runningID'] # NULL /\ procList'[runningID'].pid = p)
<1> SUFFICES ASSUME mode' \in {"main", "chld"}
             PROVE  mode' # "main" /\ \A p \in Pids : InTurn(pstate'[p]) =>
                        procList'[runningID'] # NULL /\ procList'[runningID'].pid = p
  OBVIOUS
<1>1. PICK j \in Slots :
          /\ runningID' = j /\ procList'[j] # NULL /\ mode' = mode
          /\ pstate' = [ps EXCEPT ![procList'[j].pid] = OnCont(@)]
  <2>1. sfind(runningID, Eligible(highProcs', high', low')) \subseteq Slots
    BY DEF sfind, Eligible, TableTypeOK
  <2> QED
    BY <2>1 DEF Resume
<1>2. \A p \in Pids : p # procList'[j].pid => pstate'[p] = ps[p]
  BY <1>1
<1> QED
  BY <1>1, <1>2

LEMMA TurnInit == Init => TurnInv
<1> SUFFICES ASSUME Init PROVE TurnInv
  OBVIOUS
<1>1. /\ pc = "wait" /\ mode = "main" /\ chan = "idle" /\ ~flag /\ runningID = 0 /\ ~sigalrm
      /\ booting = {p \in Pids : p <= nproc}
      /\ pstate = [p \in Pids |-> IF p <= nproc THEN "running" ELSE "none"]
  BY DEF Init
<1>2. nproc \in Nat
  BY TableAssumption DEF Init, InitTable
<1>3. pstate[Shell] \in Live /\ \A p \in Pids : pstate[p] # "stopping"
                                          /\ (pstate[p] \in Active => p \in booting)
  BY <1>1, <1>2, ShellConstants DEF Live, Active, Shell
<1> QED
  BY <1>1, <1>3 DEF TurnInv, Asked, BeforeStart, OneTurn

\* Steps of main, the shell and the timer that touch neither table nor processes.
LEMMA TurnCalm ==
    ASSUME SchedInv, TurnInv, Prompt,
           \/ ReadRequest \/ ReadEOF \/ Reply \/ ServePrint \/ WaitNone
           \/ SigchldHandler \/ Tick \/ ShellGetsReply \/ UNCHANGED vars
           \/ \E r \in Requests : ShellAsks(r)
    PROVE  TurnInv'
<1> USE DEF TurnInv, Asked, BeforeStart, OneTurn
<1>1. CASE ReadRequest \/ ReadEOF \/ Reply \/ ServePrint
  <2>1. UNCHANGED <<table, runningID, flag, mode, kernel>> /\ pc # "wait" /\ pc' # "wait"
    BY <1>1 DEF ReadRequest, ReadEOF, Reply, ServePrint, Serving, Served
  <2>2. Asked'
    BY <1>1 DEF ReadRequest, ReadEOF, Reply, ServePrint, Serving, Served, pipes,
                SchedInv, ShellInv
  <2> QED
    BY <2>1, <2>2 DEF table, kernel
<1>2. CASE WaitNone
  BY <1>2 DEF WaitNone, table, kernel, pipes, Waitable
<1>3. CASE SigchldHandler
  BY <1>3 DEF SigchldHandler, Interruptible, table, pipes
<1>4. CASE Tick
  BY <1>4 DEF Tick, Quiet, Prompt, table, main, pipes
<1>5. CASE ShellGetsReply \/ UNCHANGED vars
  BY <1>5 DEF ShellGetsReply, table, main, kernel, pipes, vars
<1>6. CASE \E r \in Requests : ShellAsks(r)
  BY <1>6 DEF ShellAsks, table, main, kernel
<1> QED
  BY <1>1, <1>2, <1>3, <1>4, <1>5, <1>6

LEMMA TurnBegins ==
    ASSUME SchedInv, TurnInv, Prompt, WaitReady \/ Start
    PROVE  TurnInv'
<1> USE DEF TurnInv, Asked, BeforeStart, OneTurn
<1>t. pstate \in [Pids -> ProcStates] /\ Shell \in Pids
  BY ShellConstants DEF SchedInv, SchedulerTypeOK
<1>1. CASE WaitReady
  <2>1. PICK q \in Pids :
            /\ pstate[q] \in Waitable
            /\ pstate' = [pstate EXCEPT ![q] = OnWait(@)]
            /\ IF pstate[q] = "stopped" THEN mode' = mode ELSE mode' = "fail"
    BY <1>1 DEF WaitReady
  <2>2. /\ pc = "wait" /\ mode = "main"
        /\ UNCHANGED <<table, runningID, flag, pc, nproc, booting, sigchld, sigalrm, timer, pipes>>
    BY <1>1 DEF WaitReady
  <2>3. /\ \A p \in Pids : pstate'[p] = IF p = q THEN OnWait(pstate[p]) ELSE pstate[p]
        /\ \A p \in Pids : /\ pstate[p] \in Live => pstate'[p] \in Live
                           /\ pstate'[p] \in Active => pstate[p] \in Active
                           /\ pstate'[p] = "stopping" => pstate[p] = "stopping"
    BY <1>t, <2>1 DEF OnWait, Live, Active, Halted, ProcStates
  <2> QED
    BY <1>t, <2>1, <2>2, <2>3 DEF table, pipes
<1>2. CASE Start
  <2>1. /\ pc = "wait" /\ mode = "main" /\ booting = {}
        /\ UNCHANGED <<table, runningID, flag, booting, sigalrm, pipes>>
    BY <1>2 DEF Start, Prompt
  <2>2. CASE nproc = 0
    BY <1>2, <2>1, <2>2 DEF Start, table, pipes
  <2>3. CASE nproc # 0
    <3>1. /\ pc' = "read" /\ mode' = mode
          /\ pstate' = [pstate EXCEPT ![Shell] = OnCont(@)]
          /\ sigchld' = (pstate[Shell] \in Halted)
      BY <1>2, <2>3 DEF Start
    <3>2. pstate[Shell] \in Halted /\ \A p \in Pids : pstate[p] \notin Active
      BY <1>t, <2>1 DEF Live, Active, Halted
    <3>3. 0 \in Occupied /\ procList[0].pid = Shell
      BY <2>1 DEF SchedInv, ShellInv
    <3>4. /\ \A p \in Pids \ {Shell} : pstate'[p] = pstate[p]
          /\ pstate'[Shell] = "running"
      BY <1>t, <3>1, <3>2 DEF OnCont
    <3>5. \A p \in Pids : pstate'[p] # "stopping" /\ (pstate'[p] \in Active => p = Shell)
      BY <3>2, <3>4 DEF Active
    <3> QED
      BY <2>1, <3>1, <3>2, <3>3, <3>5 DEF table, pipes, Occupied
  <2> QED
    BY <2>2, <2>3
<1> QED
  BY <1>1, <1>2

LEMMA TurnSignals ==
    ASSUME SchedInv, TurnInv, Prompt,
           SigalrmHandler \/ \E p \in Pids : Carry(p) \/ Exit(p)
    PROVE  TurnInv'
<1> USE DEF TurnInv, Asked, BeforeStart, OneTurn
<1>t. pstate \in [Pids -> ProcStates] /\ Shell \in Pids
  BY ShellConstants DEF SchedInv, SchedulerTypeOK
<1>1. CASE SigalrmHandler
  <2>1. /\ mode = "main" /\ pc # "wait" /\ sigalrm /\ flag' = TRUE
        /\ UNCHANGED <<table, runningID, pc, booting, sigchld, pipes>>
    BY <1>1 DEF SigalrmHandler, Interruptible
  <2>2. CASE mode' = "fail"
    BY <2>1, <2>2 DEF table, pipes
  <2>3. CASE mode' # "fail"
    <3>1. pstate' = [pstate EXCEPT ![procList[runningID].pid] = OnStop(@)] /\ mode' = mode
      BY <1>1, <2>3 DEF SigalrmHandler
    <3>2. \A p \in Pids : /\ pstate'[p] \in Active => pstate[p] \in Active
                          /\ pstate'[p] = "stopped" => pstate[p] = "stopped"
      BY <1>t, <3>1 DEF OnStop, Active
    <3>3. \A p \in Pids : pstate'[p] = "stopped" => flag
      BY <2>1, <3>2
    <3> QED
      BY <2>1, <3>1, <3>2, <3>3 DEF table, pipes
  <2> QED
    BY <2>2, <2>3
<1>2. CASE \E p \in Pids : Carry(p) \/ Exit(p)
  <2>1. PICK q \in Pids : BootStop(q) \/ KernelStop(q) \/ KernelKill(q) \/ Exit(q)
    BY <1>2 DEF Carry
  <2>2. /\ UNCHANGED <<table, main, sigalrm, timer, pipes>>
        /\ sigchld' = (sigchld \/ pc # "wait")
        /\ booting' \in {booting, booting \ {q}}
        /\ pstate' = [pstate EXCEPT ![q] = pstate'[q]]
        /\ pstate'[q] \in {"stopped", "zombie"}
    BY <2>1, <1>t DEF BootStop, KernelStop, KernelKill, Exit, ChildSignals
  <2>3. \A p \in Pids : p # q => pstate'[p] = pstate[p]
    BY <1>t, <2>2
  <2>4. pstate'[q] = "stopped" => pstate[q] \in Active
    BY <2>1, <1>t DEF BootStop, KernelStop, KernelKill, Exit, Active
  <2>5. pc # "wait" /\ mode \in {"main", "chld"} /\ pstate'[q] = "stopped" => flag
    <3>1. CASE BootStop(q)
      BY <3>1 DEF BootStop
    <3>2. CASE KernelStop(q)
      BY <3>2 DEF KernelStop
    <3> QED
      BY <1>t, <2>1, <3>1, <3>2 DEF KernelKill, Exit
  <2>6. pc = "wait" /\ mode = "main" =>
            pstate'[Shell] \in Live /\ \A p \in Pids : pstate'[p] \in Active => p \in booting'
    <3> SUFFICES ASSUME pc = "wait", mode = "main"
                 PROVE  pstate'[Shell] \in Live
                        /\ \A p \in Pids : pstate'[p] \in Active => p \in booting'
      OBVIOUS
    <3>1. ~Exit(q)
      BY DEF Exit
    <3>2. pstate'[q] \notin Active
      BY <2>2 DEF Active
    <3>3. q = Shell => pstate'[q] = "stopped"
      BY <1>t, <2>1, <3>1 DEF BootStop, KernelStop, KernelKill, Live, Active, Halted
    <3> QED
      BY <1>t, <2>2, <2>3, <3>2, <3>3 DEF Live, Halted
  <2> QED
    BY <2>2, <2>3, <2>4, <2>5, <2>6 DEF table, main, pipes, Active
<1> QED
  BY <1>1, <1>2

LEMMA TurnServes ==
    ASSUME SchedInv, TurnInv, Prompt, ServeKill \/ ServeExec \/ ServePriority \/ ServeQuit
    PROVE  TurnInv'
<1> USE DEF TurnInv, Asked, BeforeStart, OneTurn
<1>t. pstate \in [Pids -> ProcStates] /\ procList \in [Slots -> Task \cup {NULL}]
      /\ runningID \in Slots /\ Shell \in Pids /\ pc = "got" /\ mode = "main"
  BY ShellConstants
     DEF SchedInv, SchedulerTypeOK, TableInv, TableTypeOK, ServeKill, ServeExec, ServePriority,
         ServeQuit, Serving
<1>a. ~ServeExec
  BY <1>t DEF ServeExec, Serving, Prompt
<1>u. /\ UNCHANGED <<runningID, flag, booting, sigchld, sigalrm, timer, pipes>>
      /\ (pc' = "reply" /\ mode' = mode) \/ mode' \in Ended
  BY <1>a DEF ServeKill, ServePriority, ServeQuit, Served, Ends, kernel, Ended
<1>b. CASE mode' \in Ended
  <2>1. pc' = pc /\ pstate' = pstate
    BY <1>a, <1>b, <1>t DEF ServeKill, ServePriority, ServeQuit, Served, Ends, kernel, Ended
  <2> QED
    BY <1>b, <1>u, <1>t, <2>1 DEF Ended, pipes
<1>c. ASSUME pc' = "reply" /\ mode' = mode,
             \A p \in Pids : InTurn(pstate'[p]) => pstate'[p] = pstate[p],
             \A p \in Pids :
                 InTurn(pstate'[p]) /\ procList[runningID] # NULL /\ procList[runningID].pid = p =>
                     procList'[runningID] # NULL /\ procList'[runningID].pid = p
      PROVE  TurnInv'
  BY <1>c, <1>u, <1>t DEF InTurn, pipes, Active
<1>d. CASE pc' = "reply" /\ mode' = mode
  <2>1. CASE ServePriority
    <3>1. pstate' = pstate
      BY <2>1 DEF ServePriority, kernel
    <3>2. \/ procList' = procList
          \/ procList' = [procList EXCEPT ![request.arg].priority = PRIOR_LOW]
          \/ procList' = [procList EXCEPT ![request.arg].priority = PRIOR_HIGH]
      BY <2>1 DEF ServePriority, LowerTask, RaiseTask, table, Ends
    <3>3. \A i \in Slots : procList[i] # NULL => procList[i] \in Task
      BY <1>t
    <3>4. procList[runningID] # NULL =>
              procList'[runningID] # NULL /\ procList'[runningID].pid = procList[runningID].pid
      BY <1>t, <3>2, <3>3, TableAssumption DEF Task
    <3> QED
      BY <1>c, <1>d, <3>1, <3>4
  <2>2. CASE ServeKill
    <3>1. CASE UNCHANGED <<table, pstate>>
      BY <1>c, <1>d, <3>1 DEF table
    <3>2. CASE ~UNCHANGED <<table, pstate>>
      <4>1. request.arg \in Occupied /\ RemoveTask(request.arg)
            /\ Kill({procList[request.arg].pid})
        BY <2>2, <3>2 DEF ServeKill, Ends
      <4>2. procList[request.arg].pid \in Pids /\ request.arg \in Slots
        BY <4>1, PidsOfTable DEF SchedInv
      <4>3. /\ \A p \in Pids : InTurn(pstate'[p]) => pstate'[p] = pstate[p]
            /\ \A p \in Pids : InTurn(pstate'[p]) => p # procList[request.arg].pid
        BY <1>t, <4>1, <4>2 DEF Kill, OnKill, InTurn, Live, Active, Halted
      <4>4. \A i \in Slots : i # request.arg => procList'[i] = procList[i]
        BY <1>t, <4>1 DEF RemoveTask
      <4> QED
        BY <1>c, <1>d, <1>t, <4>3, <4>4
    <3> QED
      BY <3>1, <3>2
  <2>3. CASE ServeQuit
    <3> DEFINE gone == {procList[i].pid : i \in {k \in Occupied : procList'[k] = NULL}}
    <3>1. Quit /\ Kill(gone)
      BY <2>3 DEF ServeQuit
    <3>2. \A p \in Pids : InTurn(pstate'[p]) => p \notin gone /\ pstate'[p] = pstate[p]
      BY <1>t, <3>1 DEF Kill, OnKill, InTurn, Live, Active, Halted
    <3>3. \A i \in Slots : procList'[i] = NULL \/ procList'[i] = procList[i]
      BY <1>t, <3>1 DEF Quit
    <3>4. procList[runningID] # NULL /\ procList[runningID].pid \notin gone =>
              procList'[runningID] # NULL
      BY <1>t DEF Occupied
    <3> QED
      BY <1>c, <1>d, <1>t, <3>2, <3>3, <3>4
  <2> QED
    BY <1>a, <2>1, <2>2, <2>3
<1> QED
  BY <1>b, <1>d, <1>u

LEMMA TurnReaps ==
    ASSUME SchedInv, SchedInv', TurnInv, Prompt, \E p \in Pids : Reap(p)
    PROVE  TurnInv'
<1> USE DEF TurnInv, Asked, BeforeStart, OneTurn
<1>t. pstate \in [Pids -> ProcStates] /\ procList \in [Slots -> Task \cup {NULL}]
      /\ runningID \in Slots /\ SchedulerTypeOK /\ TableTypeOK'
  BY DEF SchedInv, SchedulerTypeOK, TableInv, TableTypeOK
<1>1. PICK q \in Pids : ReapIgnored(q) \/ ReapStopped(q) \/ ReapUnknown(q) \/ ReapTask(q)
  BY DEF Reap
<1>2. /\ mode = "chld" /\ pstate[q] \in Waitable /\ pc # "wait"
      /\ UNCHANGED <<flag, pc, booting, sigalrm, pipes>>
  <2>1. mode = "chld" /\ pstate[q] \in Waitable
        /\ UNCHANGED <<flag, pc, booting, sigalrm, pipes>>
    BY <1>1 DEF ReapIgnored, ReapStopped, ReapUnknown, ReapTask, Reported, main
  <2> QED
    BY <2>1
<1> DEFINE ps == Reaped(q)
<1>3. /\ ps \in [Pids -> ProcStates]
      /\ \A p \in Pids : p # q => ps[p] = pstate[p]
      /\ ~InTurn(ps[q])
      /\ \A p \in Pids : ps[p] # "stopping" \/ pstate[p] = "stopping"
  BY <1>t, <1>2, SignalFacts DEF Reaped, OnWait, Waitable, InTurn, Active
<1> HIDE DEF ps
<1>4. CASE ReapIgnored(q) \/ ReapUnknown(q)
  <2>1. pstate' = ps /\ UNCHANGED <<table, runningID, sigchld>> /\ mode' \in {"main", "chld"}
        /\ (~flag => mode' = mode)
    BY <1>2, <1>4 DEF ReapIgnored, ReapUnknown, main, ps
  <2> QED
    BY <1>2, <1>3, <2>1 DEF InTurn, table, pipes
<1>5. ASSUME Resume(ps), flag, \A p \in Pids : ~InTurn(ps[p])
      PROVE  TurnInv'
  <2>1. mode' # "main" /\ (mode' = "chld" =>
            \A p \in Pids : InTurn(pstate'[p]) =>
                procList'[runningID'] # NULL /\ procList'[runningID'].pid = p)
    BY <1>t, <1>2, <1>3, <1>5, ResumeOne
  <2> QED
    BY <1>2, <1>5, <2>1 DEF InTurn, pipes
<1>6. CASE ReapStopped(q)
  <2>1. flag /\ pstate[q] = "stopped" /\ Resume(ps)
    BY <1>6 DEF ReapStopped, ps
  <2>2. \A p \in Pids : ~InTurn(ps[p])
    BY <1>2, <1>3, <2>1 DEF InTurn
  <2> QED
    BY <1>5, <2>1, <2>2
<1>7. CASE ReapTask(q)
  <2>1. PICK j \in SlotsOf(q) :
            /\ RemoveTask(j)
            /\ IF procList'[0] = NULL /\ lowProcs' = 0 /\ highProcs' = 0
               THEN mode' = "exit0" /\ pstate' = ps /\ UNCHANGED <<runningID, sigchld>>
               ELSE IF j = runningID
                    THEN Resume(ps)
                    ELSE pstate' = ps /\ UNCHANGED <<mode, runningID, sigchld>>
    BY <1>7 DEF ReapTask, ps
  <2>2. flag /\ pstate[q] = "zombie"
    BY <1>7 DEF ReapTask
  <2>3. j \in Slots /\ procList[j] # NULL /\ procList[j].pid = q
        /\ \A i \in Slots : i # j => procList'[i] = procList[i]
    BY <1>t, <2>1 DEF RemoveTask, SlotsOf, Occupied
  <2>4. CASE mode' = "exit0"
    BY <1>2, <2>2, <2>4 DEF pipes
  <2>5. CASE j = runningID /\ Resume(ps)
    <3>1. \A p \in Pids : ~InTurn(ps[p])
      BY <1>2, <1>3, <2>2, <2>3, <2>5 DEF InTurn
    <3> QED
      BY <1>5, <2>2, <2>5, <3>1
  <2>6. CASE j # runningID /\ pstate' = ps /\ UNCHANGED <<mode, runningID, sigchld>>
    BY <1>t, <1>2, <1>3, <2>2, <2>3, <2>6 DEF InTurn, pipes
  <2> QED
    BY <2>1, <2>4, <2>5, <2>6
<1> QED
  BY <1>1, <1>4, <1>6, <1>7

\* With a prompt kernel, and as long as the shell starts no tasks, no two tasks
\* execute at a time: whatever is killed, raised, lowered or dies, the turn is
\* handed on once for every stop and for every death of the task whose turn it is.
THEOREM TurnsExclusive ==
    ASSUME Prompt PROVE Spec => []OnlyCurrentRuns
<1>1. Init => TurnInv
  BY TurnInit
<1>2. SchedInv /\ SchedInv' /\ TurnInv /\ [Next]_vars => TurnInv'
  BY TurnCalm, TurnBegins, TurnSignals, TurnServes, TurnReaps DEF Next, Program, Serve
<1>3. TurnInv => OnlyCurrentRuns
  BY DEF TurnInv, BeforeStart, OneTurn, OnlyCurrentRuns, Up
<1> QED
  BY <1>1, <1>2, <1>3, SchedInvariant, PTL DEF Spec
=============================================================================
