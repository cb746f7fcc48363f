----------------------------- MODULE SimpleSync -----------------------------
(***************************************************************************)
(* lab3/solutions/simplesync/simplesync.c: two threads change one counter, *)
(* N times each, one upwards and one downwards.                            *)
(*                                                                         *)
(*   mutex    the build with SYNC_MUTEX                                    *)
(*   atomic   the build with SYNC_ATOMIC                                   *)
(*   plain    the build of sync/simplesync_v1.c with SYNC_ATOMIC, which    *)
(*            still has the increments of the exercise as handed out       *)
(***************************************************************************)
EXTENDS Integers

CONSTANTS N,        \* iterations of a thread
          Builds    \* the builds to look at

ASSUME SimpleSyncAssumption == N \in Nat /\ Builds \subseteq {"mutex", "atomic", "plain"}

VARIABLES
    build,
    mode,      \* main: create1, create2, join1, join2; then end or fail (exit(1))
    pc,        \* thread -> none, loop, load, store, unlock or done
    i,         \* thread -> updates it has made
    reg,       \* thread -> what it loaded
    mutex,     \* the thread that holds it, or "free"
    val

vars == <<build, mode, pc, i, reg, mutex, val>>

Threads == {"increase", "decrease"}
Step(t) == IF t = "increase" THEN 1 ELSE -1

Init ==
    /\ build \in Builds
    /\ mode = "create1"
    /\ pc = [t \in Threads |-> "none"]
    /\ i = [t \in Threads |-> 0]
    /\ reg = [t \in Threads |-> 0]
    /\ mutex = "free"
    /\ val = 0
-----------------------------------------------------------------------------
\* The threads.  They die with main().

Runs(t, p) == mode \notin {"end", "fail"} /\ pc[t] = p

\* Mutant of Lock: nobody is kept out.
Lock_Entered(t) ==
    /\ build = "mutex" /\ Runs(t, "loop") /\ i[t] < N
    /\ mutex' = t
    /\ pc' = [pc EXCEPT ![t] = "load"]
    /\ UNCHANGED <<build, mode, i, reg, val>>

Lock(t) ==
    /\ build = "mutex" /\ Runs(t, "loop") /\ i[t] < N
    /\ mutex = "free" /\ mutex' = t
    /\ pc' = [pc EXCEPT ![t] = "load"]
    /\ UNCHANGED <<build, mode, i, reg, val>>

\* ++(*ip) and --(*ip): a load and a store.  No lock precedes them in the plain
\* build.
Load(t) ==
    /\ \/ Runs(t, "load")
       \/ build = "plain" /\ Runs(t, "loop") /\ i[t] < N
    /\ reg' = [reg EXCEPT ![t] = val]
    /\ pc' = [pc EXCEPT ![t] = "store"]
    /\ UNCHANGED <<build, mode, i, mutex, val>>

\* Mutant of Store: two steps at a time.
Store_Twice(t) ==
    /\ Runs(t, "store")
    /\ val' = reg[t] + 2 * Step(t)
    /\ i' = [i EXCEPT ![t] = @ + 1]
    /\ pc' = [pc EXCEPT ![t] = IF build = "mutex" THEN "unlock" ELSE "loop"]
    /\ UNCHANGED <<build, mode, reg, mutex>>

Store(t) ==
    /\ Runs(t, "store")
    /\ val' = reg[t] + Step(t)
    /\ i' = [i EXCEPT ![t] = @ + 1]
    /\ pc' = [pc EXCEPT ![t] = IF build = "mutex" THEN "unlock" ELSE "loop"]
    /\ UNCHANGED <<build, mode, reg, mutex>>

\* Mutant of Unlock: the mutex is kept.
Unlock_Forgotten(t) ==
    /\ Runs(t, "unlock")
    /\ pc' = [pc EXCEPT ![t] = "loop"]
    /\ UNCHANGED <<build, mode, i, reg, mutex, val>>

Unlock(t) ==
    /\ Runs(t, "unlock")
    /\ mutex' = "free"
    /\ pc' = [pc EXCEPT ![t] = "loop"]
    /\ UNCHANGED <<build, mode, i, reg, val>>

\* __sync_fetch_and_add() and __sync_fetch_and_sub().
FetchAndAdd(t) ==
    /\ build = "atomic" /\ Runs(t, "loop") /\ i[t] < N
    /\ val' = val + Step(t)
    /\ i' = [i EXCEPT ![t] = @ + 1]
    /\ UNCHANGED <<build, mode, pc, reg, mutex>>

Return(t) ==
    /\ Runs(t, "loop") /\ i[t] = N
    /\ pc' = [pc EXCEPT ![t] = "done"]
    /\ UNCHANGED <<build, mode, i, reg, mutex, val>>
-----------------------------------------------------------------------------
\* main().

Started(t, next) ==
    /\ \/ mode' = next /\ pc' = [pc EXCEPT ![t] = "loop"]
       \/ mode' = "fail" /\ pc' = pc        \* pthread_create() fails
    /\ UNCHANGED <<build, i, reg, mutex, val>>

Create == \/ mode = "create1" /\ Started("increase", "create2")
          \/ mode = "create2" /\ Started("decrease", "join1")

\* Mutant of Join: main() looks at the counter after the first join.
Join_First ==
    /\ mode = "join1" /\ pc["increase"] = "done" /\ mode' = "end"
    /\ UNCHANGED <<build, pc, i, reg, mutex, val>>

Join ==
    /\ \/ mode = "join1" /\ pc["increase"] = "done" /\ mode' = "join2"
       \/ mode = "join2" /\ pc["decrease"] = "done" /\ mode' = "end"
    /\ UNCHANGED <<build, pc, i, reg, mutex, val>>

\* What main() prints and returns once it has ended.
ok == val = 0
-----------------------------------------------------------------------------
Main == Create \/ Join
Thread(t) == Lock(t) \/ Load(t) \/ Store(t) \/ Unlock(t) \/ FetchAndAdd(t) \/ Return(t)

Next == Main \/ \E t \in Threads : Thread(t)

Spec == Init /\ [][Next]_vars

\* Both threads are scheduled.  Nothing is assumed of who gets the mutex: the
\* other thread locks it N times at most.
FairSpec == Spec /\ WF_vars(Main) /\ \A t \in Threads : WF_vars(Thread(t))
-----------------------------------------------------------------------------
TypeOK ==
    /\ build \in Builds
    /\ mode \in {"create1", "create2", "join1", "join2", "end", "fail"}
    /\ pc \in [Threads -> {"none", "loop", "load", "store", "unlock", "done"}]
    /\ i \in [Threads -> 0 .. N]
    /\ reg \in [Threads -> Int]
    /\ mutex \in Threads \cup {"free"}
    /\ val \in Int

\* increase_fn() and decrease_fn() with the mutex: never both between lock and
\* unlock, so a load is never followed by the other thread's store.
MutualExclusion ==
    build = "mutex" => ~ \A t \in Threads : pc[t] \in {"load", "store", "unlock"}

\* Whatever is lost by the race of the plain build, the counter never leaves
\* what the updates made so far allow: with N below INT_MAX it cannot overflow.
NoOverflow == 0 - i["decrease"] <= val /\ val <= i["increase"]

\* main() prints OK in both builds of simplesync.c.
OkAtEnd == mode = "end" /\ build # "plain" => ok

\* Neither main() nor a thread waits for ever.
Terminates == <>(mode \in {"end", "fail"})
=============================================================================
