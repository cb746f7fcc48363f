------------------------------ MODULE Kgarten ------------------------------
(***************************************************************************)
(* lab3/solutions/kindergarten/kgarten.c: threads that are children or     *)
(* teachers go in and out of a room in which there may be at most `ratio'  *)
(* children per teacher.  A thread that may not pass yet releases the      *)
(* mutex and tries again: nothing changes, so this is the promise that the *)
(* version with condition variables (KgartenCond) has to keep.             *)
(*                                                                         *)
(* Every access to vt and vc happens with the mutex held, so an action is  *)
(* one critical section, verify() included.  In the earlier solution,      *)
(* lab3/lab3/solutions/kgarten/kgarten.c, a thread takes the mutex once    *)
(* more to verify what it has found by then.                               *)
(***************************************************************************)
EXTENDS Integers, FiniteSets

CONSTANTS Children, Teachers,   \* the threads: i < chldcnt, and the others
          ratio,                \* c_t_ratio
          Versions              \* the values of `earlier' to look at

Threads == Children \cup Teachers

ASSUME KgartenAssumption ==
    /\ ratio \in Nat \ {0}
    /\ IsFiniteSet(Children) /\ IsFiniteSet(Teachers)
    /\ Children \cap Teachers = {}
    /\ Versions \subseteq BOOLEAN

VARIABLES earlier,   \* it is the earlier solution
          vt, vc,    \* kg->vt, kg->vc
          inside,    \* the threads between their *_enter() and their *_exit()
          due,       \* the threads that still have to verify what they did
          failed     \* verify() has found too few teachers and exited

kvars == <<earlier, vt, vc, inside, due, failed>>

Init ==
    /\ earlier \in Versions
    /\ vt = 0 /\ vc = 0
    /\ inside = {} /\ due = {}
    /\ failed = FALSE

\* verify(), which exits, with the counters the operation leaves, or a critical
\* section later.
Verify(x) ==
    /\ UNCHANGED earlier
    /\ IF earlier THEN due' = due \cup {x} /\ failed' = failed
                  ELSE due' = due /\ failed' = (vc' > vt' * ratio)

\* Mutant of ChildEnters: one child too many.
ChildEnters_LessOrEqual(c) ==
    /\ ~failed /\ c \notin inside /\ c \notin due
    /\ vc <= vt * ratio
    /\ vc' = vc + 1
    /\ inside' = inside \cup {c}
    /\ UNCHANGED vt
    /\ Verify(c)

ChildEnters(c) ==
    /\ ~failed /\ c \notin inside /\ c \notin due
    /\ vc < vt * ratio
    /\ vc' = vc + 1
    /\ inside' = inside \cup {c}
    /\ UNCHANGED vt
    /\ Verify(c)

ChildExits(c) ==
    /\ ~failed /\ c \in inside /\ c \notin due
    /\ vc' = vc - 1
    /\ inside' = inside \ {c}
    /\ UNCHANGED vt
    /\ Verify(c)

TeacherEnters(t) ==
    /\ ~failed /\ t \notin inside /\ t \notin due
    /\ vt' = vt + 1
    /\ inside' = inside \cup {t}
    /\ UNCHANGED vc
    /\ Verify(t)

\* Mutant of TeacherExits: the test forgets that this teacher is leaving.
TeacherExits_CountsItself(t) ==
    /\ ~failed /\ t \in inside /\ t \notin due
    /\ vc <= vt * ratio
    /\ vt' = vt - 1
    /\ inside' = inside \ {t}
    /\ UNCHANGED vc
    /\ Verify(t)

TeacherExits(t) ==
    /\ ~failed /\ t \in inside /\ t \notin due
    /\ vc <= (vt - 1) * ratio
    /\ vt' = vt - 1
    /\ inside' = inside \ {t}
    /\ UNCHANGED vc
    /\ Verify(t)

VerifyLater(x) ==
    /\ ~failed /\ x \in due
    /\ failed' = (vc > vt * ratio)
    /\ due' = due \ {x}
    /\ UNCHANGED <<earlier, vt, vc, inside>>

Next == \/ \E c \in Children : ChildEnters(c) \/ ChildExits(c)
        \/ \E t \in Teachers : TeacherEnters(t) \/ TeacherExits(t)
        \/ \E x \in Threads : VerifyLater(x)

Spec == Init /\ [][Next]_kvars
-----------------------------------------------------------------------------
TypeOK ==
    /\ vt \in Nat /\ vc \in Nat
    /\ inside \subseteq Threads /\ due \subseteq Threads
    /\ earlier \in Versions
    /\ failed \in BOOLEAN

\* There are never more children in the room than its teachers may look after:
\* of the threads themselves, not of the counters that verify() looks at.
RatioKept ==
    Cardinality(inside \cap Children) <= ratio * Cardinality(inside \cap Teachers)

\* verify() never finds anything: not in the critical section of an operation,
\* and not later, when others have come and gone.
VerifyNeverFails == ~failed
=============================================================================
