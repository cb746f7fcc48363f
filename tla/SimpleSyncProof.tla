--------------------------- MODULE SimpleSyncProof ---------------------------
(***************************************************************************)
(* Proofs about SimpleSync, for every number of iterations: the result of  *)
(* the two synchronised builds, the bound on the counter that holds even   *)
(* for the build with the race, and the refinement of SimpleSyncAtomic.    *)
(***************************************************************************)
EXTENDS SimpleSyncAtomic, TLAPS

Inside == {"load", "store", "unlock"}

\* Who has the mutex, and where a thread can be at all.
Places ==
    /\ \A t \in Threads :
          /\ build = "mutex" => (pc[t] \in Inside <=> mutex = t)
          /\ build # "mutex" => mutex = "free"
          /\ build = "atomic" => pc[t] \notin Inside
    /\ mode \in {"create1", "create2"} => pc["decrease"] = "none"
    /\ mode = "create1" => pc["increase"] = "none"
    /\ \A t \in Threads :
          /\ pc[t] \in {"load", "store"} => i[t] < N
          /\ pc[t] = "done" => i[t] = N
    /\ mode \in {"join2", "end"} => pc["increase"] = "done"
    /\ mode = "end" => pc["decrease"] = "done"

\* What a thread has loaded is still what the counter holds, or at least within
\* the bounds that the counter keeps.
Loaded ==
    \A t \in Threads : pc[t] = "store" =>
        /\ build = "mutex" => reg[t] = val
        /\ 0 - i["decrease"] <= reg[t] /\ reg[t] <= i["increase"]

Counted == build # "plain" => val = i["increase"] - i["decrease"]

IInv == TypeOK /\ Places /\ Loaded /\ Counted /\ NoOverflow

LEMMA InitIInv == Init => IInv
  BY SimpleSyncAssumption
     DEF Init, IInv, TypeOK, Places, Loaded, Counted, NoOverflow, Threads, Inside

LEMMA NextIInv == IInv /\ [Next]_vars => IInv'
<1> SUFFICES ASSUME IInv, [Next]_vars PROVE IInv'
  OBVIOUS
<1> USE SimpleSyncAssumption
        DEF IInv, TypeOK, Places, Loaded, Counted, NoOverflow, Threads, Inside, Step, Runs
<1>1. CASE Create
  BY <1>1 DEF Create, Started
<1>2. CASE Join
  BY <1>2 DEF Join
<1>3. ASSUME NEW t \in Threads, Lock(t) PROVE IInv'
  BY <1>3 DEF Lock
<1>4. ASSUME NEW t \in Threads, Load(t) PROVE IInv'
  BY <1>4 DEF Load
<1>5. ASSUME NEW t \in Threads, Store(t) PROVE IInv'
  BY <1>5 DEF Store
<1>6. ASSUME NEW t \in Threads, Unlock(t) PROVE IInv'
  BY <1>6 DEF Unlock
<1>7. ASSUME NEW t \in Threads, FetchAndAdd(t) PROVE IInv'
  BY <1>7 DEF FetchAndAdd
<1>8. ASSUME NEW t \in Threads, Return(t) PROVE IInv'
  BY <1>8 DEF Return
<1>9. CASE UNCHANGED vars
  BY <1>9 DEF vars
<1> QED
  BY <1>1, <1>2, <1>3, <1>4, <1>5, <1>6, <1>7, <1>8, <1>9 DEF Next, Main, Thread

LEMMA AlwaysIInv == Spec => []IInv
  BY InitIInv, NextIInv, PTL DEF Spec

\* The types, among them that no thread makes more than N updates.
THEOREM SyncTypes == Spec => []TypeOK
<1>1. IInv => TypeOK
  BY DEF IInv
<1> QED
  BY <1>1, AlwaysIInv, PTL

\* The two threads are never both between lock and unlock.
THEOREM MutualExclusionHolds == Spec => []MutualExclusion
<1>1. IInv => MutualExclusion
  BY DEF IInv, Places, MutualExclusion, Threads, Inside
<1> QED
  BY <1>1, AlwaysIInv, PTL

\* Even with lost updates the counter stays between the updates made so far.
THEOREM CounterBounded == Spec => []NoOverflow
<1>1. IInv => NoOverflow
  BY DEF IInv
<1> QED
  BY <1>1, AlwaysIInv, PTL

\* The synchronised builds end with the counter at 0, for every N.
THEOREM EndsOk == Spec => []OkAtEnd
<1>1. IInv => OkAtEnd
  BY SimpleSyncAssumption
     DEF IInv, TypeOK, Places, Counted, OkAtEnd, ok, Threads
<1> QED
  BY <1>1, AlwaysIInv, PTL
-----------------------------------------------------------------------------
LEMMA InitAtomic == Init => Atomic!Init
  BY DEF Init, Atomic!Init, Threads, Atomic!Threads

LEMMA NextAtomic ==
    IInv /\ [Next]_vars => [build # "plain" => [Atomic!Next]_(Atomic!vars)]_vars
<1> SUFFICES ASSUME IInv, Next, build # "plain" PROVE [Atomic!Next]_(Atomic!vars)
  BY DEF vars
<1> USE SimpleSyncAssumption DEF IInv, TypeOK, Places, Threads, Inside, Runs
<1>1. CASE Create
  <2>1. Atomic!Create
    BY <1>1 DEF Create, Started, Atomic!Create, Atomic!Started
  <2> QED
    BY <2>1 DEF Atomic!Next, Atomic!Main
<1>2. CASE Join
  <2>1. Atomic!Join
    BY <1>2 DEF Join, Atomic!Join
  <2> QED
    BY <2>1 DEF Atomic!Next, Atomic!Main
<1>3. ASSUME NEW t \in Threads, Lock(t) \/ Load(t) \/ Unlock(t)
      PROVE UNCHANGED Atomic!vars
  BY <1>3 DEF Lock, Load, Unlock, Atomic!vars
<1>4. ASSUME NEW t \in Threads, Store(t) PROVE Atomic!FetchAndAdd(t)
  BY <1>4 DEF Store, Loaded, Step, Atomic!FetchAndAdd, Atomic!Runs, Atomic!Step
<1>5. ASSUME NEW t \in Threads, FetchAndAdd(t) PROVE Atomic!FetchAndAdd(t)
  BY <1>5 DEF FetchAndAdd, Step, Atomic!FetchAndAdd, Atomic!Runs, Atomic!Step
<1>6. ASSUME NEW t \in Threads, Return(t) PROVE Atomic!Return(t)
  BY <1>6 DEF Return, Atomic!Return, Atomic!Runs
<1> QED
  BY <1>1, <1>2, <1>3, <1>4, <1>5, <1>6
     DEF Next, Main, Thread, Atomic!Next, Atomic!Thread, Atomic!Threads

\* The build with the mutex implements the build with atomic operations.
THEOREM MutexImplementsAtomic == Spec => ImplementsAtomic
<1>1. Init => Atomic!Init
  BY InitAtomic
<1>2. IInv /\ [Next]_vars => [build # "plain" => [Atomic!Next]_(Atomic!vars)]_vars
  BY NextAtomic
<1> QED
  BY <1>1, <1>2, AlwaysIInv, PTL DEF Spec, ImplementsAtomic
=============================================================================
