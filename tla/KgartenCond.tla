---------------------------- MODULE KgartenCond ----------------------------
(***************************************************************************)
(* lab3/solutions/kindergarten/kgarten-2.c: the kindergarten with two      *)
(* condition variables.  Children that find no room wait on cond1, teachers*)
(* that may not leave on cond2; whoever changes the counters passes on the *)
(* wakeups it thinks are due, with signal where one is enough.             *)
(*                                                                         *)
(* A critical section, from pthread_mutex_lock() or the return of          *)
(* pthread_cond_wait() to pthread_mutex_unlock() or the next wait, is one  *)
(* action.  A woken thread has left the condition's queue and has yet to   *)
(* get the mutex: others may get it first and change what it will find.    *)
(***************************************************************************)
EXTENDS Integers, FiniteSets

CONSTANTS Children, Teachers, ratio

Threads == Children \cup Teachers

ASSUME KgartenCondAssumption ==
    /\ ratio \in Nat \ {0}
    /\ IsFiniteSet(Children) /\ IsFiniteSet(Teachers)
    /\ Children \cap Teachers = {}

VARIABLES vt, vc,   \* kg->vt, kg->vc
          at,       \* thread -> out, in, wait or woken (in pthread_cond_wait();
                    \*   a child waits outside, a teacher inside)
          failed    \* verify() has found too few teachers and exited

vars == <<vt, vc, at, failed>>

Init ==
    /\ vt = 0 /\ vc = 0
    /\ at = [t \in Threads |-> "out"]
    /\ failed = FALSE

\* What the tests of the code say, of counters c and t.
Room(c, t)     == c < t * ratio          \* a child may enter
MayLeave(c, t) == c <= (t - 1) * ratio   \* a teacher may exit

Waiting(G) == {t \in G : at[t] = "wait"}

\* The sets of threads that pthread_cond_signal() can wake, if called at all.
Signal(due, G) ==
    IF due /\ Waiting(G) # {} THEN {{t} : t \in Waiting(G)} ELSE {{}}

Broadcast(due, G) == IF due THEN Waiting(G) ELSE {}

\* Thread u goes on to s, and the threads of W are woken.
Moves(u, s, W) ==
    at' = [t \in Threads |-> IF t = u THEN s ELSE IF t \in W THEN "woken" ELSE at[t]]

Verify == failed' = (vc' > vt' * ratio)
-----------------------------------------------------------------------------
\* child_enter()
ChildBlocks(c) ==
    /\ ~failed /\ at[c] \in {"out", "woken"}
    /\ ~Room(vc, vt)
    /\ Moves(c, "wait", {})
    /\ UNCHANGED <<vt, vc, failed>>

\* Mutant of ChildEnters: if in place of while around pthread_cond_wait().
ChildEnters_IfNotWhile(c) ==
    /\ ~failed /\ at[c] \in {"out", "woken"}
    /\ at[c] = "woken" \/ Room(vc, vt)
    /\ vc' = vc + 1
    /\ UNCHANGED vt
    /\ Verify
    /\ \E W \in Signal(Room(vc', vt), Children) : Moves(c, "in", W)

ChildEnters(c) ==
    /\ ~failed /\ at[c] \in {"out", "woken"}
    /\ Room(vc, vt)
    /\ vc' = vc + 1
    /\ UNCHANGED vt
    /\ Verify
    /\ \E W \in Signal(Room(vc', vt), Children) : Moves(c, "in", W)

\* Mutant of ChildExits: the teachers are not told.
ChildExits_OnlyCond1(c) ==
    /\ ~failed /\ at[c] = "in"
    /\ vc' = vc - 1
    /\ UNCHANGED vt
    /\ Verify
    /\ \E W \in Signal(Room(vc', vt), Children) : Moves(c, "out", W)

\* Mutant of ChildExits: the children are not told.
ChildExits_OnlyCond2(c) ==
    /\ ~failed /\ at[c] = "in"
    /\ vc' = vc - 1
    /\ UNCHANGED vt
    /\ Verify
    /\ Moves(c, "out", Broadcast(MayLeave(vc', vt), Teachers))

\* child_exit(): every teacher that may leave now, and one child.
ChildExits(c) ==
    /\ ~failed /\ at[c] = "in"
    /\ vc' = vc - 1
    /\ UNCHANGED vt
    /\ Verify
    /\ \E W \in Signal(Room(vc', vt), Children) :
           Moves(c, "out", W \cup Broadcast(MayLeave(vc', vt), Teachers))

\* Mutant of TeacherEnters: the children are not told.
TeacherEnters_OnlyCond2(t) ==
    /\ ~failed /\ at[t] = "out"
    /\ vt' = vt + 1
    /\ UNCHANGED vc
    /\ Verify
    /\ \E W \in Signal(MayLeave(vc, vt'), Teachers) : Moves(t, "in", W)

\* teacher_enter(): room for several children, and perhaps for a teacher to go.
TeacherEnters(t) ==
    /\ ~failed /\ at[t] = "out"
    /\ vt' = vt + 1
    /\ UNCHANGED vc
    /\ Verify
    /\ \E W \in Signal(MayLeave(vc, vt'), Teachers) :
           Moves(t, "in", W \cup Broadcast(TRUE, Children))

\* teacher_exit()
TeacherBlocks(t) ==
    /\ ~failed /\ at[t] \in {"in", "woken"}
    /\ ~MayLeave(vc, vt)
    /\ Moves(t, "wait", {})
    /\ UNCHANGED <<vt, vc, failed>>

TeacherExits(t) ==
    /\ ~failed /\ at[t] \in {"in", "woken"}
    /\ MayLeave(vc, vt)
    /\ vt' = vt - 1
    /\ UNCHANGED vc
    /\ Verify
    /\ \E W \in Signal(MayLeave(vc, vt'), Teachers) : Moves(t, "out", W)

\* pthread_cond_wait() may return for no reason.
SpuriousWakeup(t) ==
    /\ ~failed /\ at[t] = "wait"
    /\ Moves(t, "woken", {})
    /\ UNCHANGED <<vt, vc, failed>>

Child(c)   == ChildBlocks(c) \/ ChildEnters(c) \/ ChildExits(c)
Teacher(t) == TeacherEnters(t) \/ TeacherBlocks(t) \/ TeacherExits(t)

Next == \/ \E c \in Children : Child(c)
        \/ \E t \in Teachers : Teacher(t)
        \/ \E t \in Threads : SpuriousWakeup(t)

Spec == Init /\ [][Next]_vars

\* A thread that does not wait gets the mutex some time.
FairSpec == /\ Spec
            /\ \A c \in Children : WF_vars(Child(c))
            /\ \A t \in Teachers : WF_vars(Teacher(t))
-----------------------------------------------------------------------------
\* The threads between *_enter() and *_exit(): a teacher waits inside.
Inside == {t \in Threads : at[t] = "in"} \cup {t \in Teachers : at[t] \in {"wait", "woken"}}

TypeOK ==
    /\ vt \in Nat /\ vc \in Nat
    /\ at \in [Threads -> {"out", "in", "wait", "woken"}]
    /\ failed \in BOOLEAN

\* The condition variables do what the busy loops of kgarten.c do: the same
\* threads may pass at the same moments, and verify() finds the same.
Busy == INSTANCE Kgarten WITH inside <- Inside, Versions <- {FALSE}, earlier <- FALSE, due <- {}
ImplementsBusy == Busy!Spec

\* As in Kgarten, of the threads themselves.
RatioKept == Busy!RatioKept

\* No wakeup of a child is lost: children that sleep while there is room have one
\* of their number on the way, who will pass the wakeup on.
NoChildForgotten ==
    (Waiting(Children) # {} /\ Room(vc, vt)) => \E c \in Children : at[c] = "woken"

\* No wakeup of a teacher is lost, by the same relay on cond2.
NoTeacherForgotten ==
    (Waiting(Teachers) # {} /\ MayLeave(vc, vt)) => \E t \in Teachers : at[t] = "woken"

\* If there is room from some moment on for good, no child sleeps for ever:
\* signals to one child at a time are enough, except when a teacher gets in.
NoChildSleepsOn ==
    <>[]Room(vc, vt) => \A c \in Children : []<>(at[c] # "wait")
=============================================================================
