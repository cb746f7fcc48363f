-------------------------- MODULE KgartenCondProof --------------------------
(***************************************************************************)
(* KgartenCond implements Kgarten and loses no wakeup, for any number of   *)
(* threads and any ratio.                                                  *)
(***************************************************************************)
EXTENDS KgartenCond, TLAPS

\* The theorems about Kgarten, for the threads that are inside here.
BusyProof == INSTANCE KgartenProof WITH inside <- Inside, Versions <- {FALSE}, earlier <- FALSE, due <- {}

\* The two promises about wakeups are inductive together with the types alone:
\* a test that was false can only become true in an operation that signals.
CondInv ==
    /\ vt \in Int /\ vc \in Int
    /\ at \in [Threads -> {"out", "in", "wait", "woken"}]
    /\ failed \in BOOLEAN
    /\ NoChildForgotten
    /\ NoTeacherForgotten

\* Whoever is signalled was asleep, and a due signal finds a sleeper.
LEMMA SignalWakes ==
    ASSUME NEW due, NEW G, NEW W \in Signal(due, G)
    PROVE  /\ W \subseteq Waiting(G)
           /\ (due /\ Waiting(G) # {}) => \E u \in Waiting(G) : u \in W
  BY DEF Signal

\* A broadcast wakes nobody, or all of them.
LEMMA BroadcastWakes ==
    ASSUME NEW due, NEW G
    PROVE  /\ Broadcast(due, G) \subseteq Waiting(G)
           /\ due => Broadcast(due, G) = Waiting(G)
  BY DEF Broadcast

\* The tests as the counters move: only a child that leaves or a teacher that
\* comes can make one of them true.
LEMMA TestsMove ==
    ASSUME NEW c \in Int, NEW t \in Int
    PROVE  /\ Room(c, t - 1) => Room(c, t)
           /\ MayLeave(c + 1, t) => MayLeave(c, t)
<1>1. ratio \in Nat
  BY KgartenCondAssumption
<1>2. (t - 1) * ratio = t * ratio - ratio /\ t * ratio \in Int
  BY <1>1
<1> QED
  BY <1>1, <1>2 DEF Room, MayLeave

\* Nobody waits and nothing is lost in an empty room.
LEMMA CondInit == Init => CondInv
<1> SUFFICES ASSUME Init PROVE CondInv
  OBVIOUS
<1>1. at \in [Threads -> {"out", "in", "wait", "woken"}] /\ \A t \in Threads : at[t] = "out"
  BY DEF Init
<1>2. Waiting(Children) = {} /\ Waiting(Teachers) = {}
  BY <1>1 DEF Waiting, Threads
<1>3. NoChildForgotten /\ NoTeacherForgotten
  BY <1>2 DEF NoChildForgotten, NoTeacherForgotten
<1>4. vt \in Int /\ vc \in Int
  BY DEF Init
<1>5. failed \in BOOLEAN
  BY DEF Init
<1> QED
  BY <1>1, <1>3, <1>4, <1>5 DEF CondInv

\* Every critical section of a child keeps the promises.
LEMMA ChildKeeps ==
    ASSUME CondInv, NEW c \in Children, Child(c)
    PROVE  CondInv'
<1>1. /\ c \in Threads /\ Children \subseteq Threads /\ Teachers \subseteq Threads
      /\ \A t \in Teachers : t # c
  BY KgartenCondAssumption DEF Threads
<1>2. CASE ChildBlocks(c)
  <2>1. Moves(c, "wait", {}) /\ vt' = vt /\ vc' = vc /\ failed' = failed /\ ~Room(vc, vt)
    BY <1>2 DEF ChildBlocks
  <2>2. /\ at' \in [Threads -> {"out", "in", "wait", "woken"}]
        /\ \A t \in Teachers : at'[t] = at[t]
    BY <1>1, <2>1 DEF Moves, CondInv
  <2> QED
    BY <2>1, <2>2 DEF CondInv, NoChildForgotten, NoTeacherForgotten, Waiting, Room, MayLeave
<1>3. CASE ChildEnters(c)
  <2>1. PICK W \in Signal(Room(vc', vt), Children) : Moves(c, "in", W)
    BY <1>3 DEF ChildEnters
  <2>2. /\ vt' = vt /\ vc' = vc + 1 /\ failed' \in BOOLEAN
        /\ at[c] # "wait"
    BY <1>3 DEF ChildEnters, Verify
  <2>3. W \subseteq Waiting(Children)
    BY SignalWakes
  <2>4. /\ at' \in [Threads -> {"out", "in", "wait", "woken"}]
        /\ \A t \in Threads :
               at'[t] = IF t = c THEN "in" ELSE IF t \in W THEN "woken" ELSE at[t]
    BY <2>1 DEF Moves, CondInv
  <2>5. NoChildForgotten'
    <3> SUFFICES ASSUME NEW w \in Children, at'[w] = "wait", Room(vc', vt')
                 PROVE  \E u \in Children : at'[u] = "woken"
      BY DEF NoChildForgotten, Waiting, Room
    <3>1. w \in Waiting(Children) /\ Room(vc', vt)
      BY <1>1, <2>2, <2>4 DEF Waiting
    <3>2. PICK u \in Waiting(Children) : u \in W
      BY <3>1, SignalWakes
    <3> QED
      BY <1>1, <2>2, <2>4, <3>2 DEF Waiting
  <2>6. NoTeacherForgotten'
    <3>1. \A t \in Teachers : at'[t] = at[t]
      BY <1>1, <2>3, <2>4, KgartenCondAssumption DEF Waiting
    <3>2. MayLeave(vc', vt') => MayLeave(vc, vt)
      BY <2>2, TestsMove DEF CondInv
    <3> QED
      BY <3>1, <3>2 DEF CondInv, NoTeacherForgotten, Waiting, MayLeave
  <2> QED
    BY <2>2, <2>4, <2>5, <2>6 DEF CondInv
<1>4. CASE ChildExits(c)
  <2> DEFINE B == Broadcast(MayLeave(vc', vt), Teachers)
  <2>1. PICK W \in Signal(Room(vc', vt), Children) : Moves(c, "out", W \cup B)
    BY <1>4 DEF ChildExits
  <2>2. /\ vt' = vt /\ vc' = vc - 1 /\ failed' \in BOOLEAN
        /\ at[c] # "wait"
    BY <1>4 DEF ChildExits, Verify
  <2>3. B \subseteq Waiting(Teachers) /\ (MayLeave(vc', vt) => B = Waiting(Teachers))
    BY BroadcastWakes
  <2> HIDE DEF B
  <2>4. /\ at' \in [Threads -> {"out", "in", "wait", "woken"}]
        /\ \A t \in Threads :
               at'[t] = IF t = c THEN "out" ELSE IF t \in W \cup B THEN "woken" ELSE at[t]
    BY <2>1 DEF Moves, CondInv
  <2>5. NoChildForgotten'
    <3> SUFFICES ASSUME NEW w \in Children, at'[w] = "wait", Room(vc', vt')
                 PROVE  \E u \in Children : at'[u] = "woken"
      BY DEF NoChildForgotten, Waiting, Room
    <3>1. w \in Waiting(Children) /\ Room(vc', vt)
      BY <1>1, <2>2, <2>4 DEF Waiting
    <3>2. PICK u \in Waiting(Children) : u \in W
      BY <3>1, SignalWakes
    <3> QED
      BY <1>1, <2>2, <2>4, <3>2 DEF Waiting
  <2>6. NoTeacherForgotten'
    <3> SUFFICES ASSUME NEW w \in Teachers, at'[w] = "wait", MayLeave(vc', vt')
                 PROVE  FALSE
      BY DEF NoTeacherForgotten, Waiting, MayLeave
    <3> QED
      BY <1>1, <2>2, <2>3, <2>4 DEF Waiting
  <2> QED
    BY <2>2, <2>4, <2>5, <2>6 DEF CondInv
<1> QED
  BY <1>2, <1>3, <1>4 DEF Child

\* Every critical section of a teacher keeps the promises.
LEMMA TeacherKeeps ==
    ASSUME CondInv, NEW t \in Teachers, Teacher(t)
    PROVE  CondInv'
<1>1. /\ t \in Threads /\ Children \subseteq Threads /\ Teachers \subseteq Threads
      /\ \A c \in Children : c # t
  BY KgartenCondAssumption DEF Threads
<1>2. CASE TeacherBlocks(t)
  <2>1. /\ Moves(t, "wait", {}) /\ vt' = vt /\ vc' = vc /\ failed' = failed
        /\ ~MayLeave(vc, vt)
    BY <1>2 DEF TeacherBlocks
  <2>2. /\ at' \in [Threads -> {"out", "in", "wait", "woken"}]
        /\ \A c \in Children : at'[c] = at[c]
    BY <1>1, <2>1 DEF Moves, CondInv
  <2> QED
    BY <2>1, <2>2 DEF CondInv, NoChildForgotten, NoTeacherForgotten, Waiting, Room, MayLeave
<1>3. CASE TeacherEnters(t)
  <2> DEFINE B == Broadcast(TRUE, Children)
  <2>1. PICK W \in Signal(MayLeave(vc, vt'), Teachers) : Moves(t, "in", W \cup B)
    BY <1>3 DEF TeacherEnters
  <2>2. /\ vt' = vt + 1 /\ vc' = vc /\ failed' \in BOOLEAN
        /\ at[t] # "wait"
    BY <1>3 DEF TeacherEnters, Verify
  <2>3. B = Waiting(Children)
    BY BroadcastWakes
  <2> HIDE DEF B
  <2>4. /\ at' \in [Threads -> {"out", "in", "wait", "woken"}]
        /\ \A x \in Threads :
               at'[x] = IF x = t THEN "in" ELSE IF x \in W \cup B THEN "woken" ELSE at[x]
    BY <2>1 DEF Moves, CondInv
  <2>5. NoChildForgotten'
    <3> SUFFICES ASSUME NEW w \in Children, at'[w] = "wait"
                 PROVE  FALSE
      BY DEF NoChildForgotten, Waiting
    <3> QED
      BY <1>1, <2>3, <2>4 DEF Waiting
  <2>6. NoTeacherForgotten'
    <3> SUFFICES ASSUME NEW w \in Teachers, at'[w] = "wait", MayLeave(vc', vt')
                 PROVE  \E u \in Teachers : at'[u] = "woken"
      BY DEF NoTeacherForgotten, Waiting, MayLeave
    <3>1. w \in Waiting(Teachers) /\ MayLeave(vc, vt')
      BY <1>1, <2>2, <2>4 DEF Waiting
    <3>2. PICK u \in Waiting(Teachers) : u \in W
      BY <3>1, SignalWakes
    <3> QED
      BY <1>1, <2>2, <2>4, <3>2 DEF Waiting
  <2> QED
    BY <2>2, <2>4, <2>5, <2>6 DEF CondInv
<1>4. CASE TeacherExits(t)
  <2>1. PICK W \in Signal(MayLeave(vc, vt'), Teachers) : Moves(t, "out", W)
    BY <1>4 DEF TeacherExits
  <2>2. /\ vt' = vt - 1 /\ vc' = vc /\ failed' \in BOOLEAN
        /\ at[t] # "wait"
    BY <1>4 DEF TeacherExits, Verify
  <2>3. W \subseteq Waiting(Teachers)
    BY SignalWakes
  <2>4. /\ at' \in [Threads -> {"out", "in", "wait", "woken"}]
        /\ \A x \in Threads :
               at'[x] = IF x = t THEN "out" ELSE IF x \in W THEN "woken" ELSE at[x]
    BY <2>1 DEF Moves, CondInv
  <2>5. NoChildForgotten'
    <3>1. \A c \in Children : at'[c] = at[c]
      BY <1>1, <2>3, <2>4, KgartenCondAssumption DEF Waiting
    <3>2. Room(vc', vt') => Room(vc, vt)
      BY <2>2, TestsMove DEF CondInv
    <3> QED
      BY <3>1, <3>2 DEF CondInv, NoChildForgotten, Waiting, Room
  <2>6. NoTeacherForgotten'
    <3> SUFFICES ASSUME NEW w \in Teachers, at'[w] = "wait", MayLeave(vc', vt')
                 PROVE  \E u \in Teachers : at'[u] = "woken"
      BY DEF NoTeacherForgotten, Waiting, MayLeave
    <3>1. w \in Waiting(Teachers) /\ MayLeave(vc, vt')
      BY <1>1, <2>2, <2>4 DEF Waiting
    <3>2. PICK u \in Waiting(Teachers) : u \in W
      BY <3>1, SignalWakes
    <3> QED
      BY <1>1, <2>2, <2>4, <3>2 DEF Waiting
  <2> QED
    BY <2>2, <2>4, <2>5, <2>6 DEF CondInv
<1> QED
  BY <1>2, <1>3, <1>4 DEF Teacher

\* A spurious wakeup keeps the promises: one thread more is on its way.
LEMMA SpuriousKeeps ==
    ASSUME CondInv, NEW t \in Threads, SpuriousWakeup(t)
    PROVE  CondInv'
<1>1. /\ at' \in [Threads -> {"out", "in", "wait", "woken"}]
      /\ \A x \in Threads : at'[x] = IF x = t THEN "woken" ELSE at[x]
  BY DEF Moves, SpuriousWakeup, CondInv
<1>2. vt' = vt /\ vc' = vc /\ failed' = failed
  BY DEF SpuriousWakeup
<1>3. NoChildForgotten'
  BY <1>1, <1>2 DEF CondInv, NoChildForgotten, Waiting, Room, Threads
<1>4. NoTeacherForgotten'
  BY <1>1, <1>2 DEF CondInv, NoTeacherForgotten, Waiting, MayLeave, Threads
<1> QED
  BY <1>1, <1>2, <1>3, <1>4 DEF CondInv

\* kgarten-2.c: no wakeup is lost in any behaviour.
THEOREM CondInvariant == Spec => []CondInv
<1>1. CondInv /\ [Next]_vars => CondInv'
  <2> SUFFICES ASSUME CondInv, [Next]_vars PROVE CondInv'
    OBVIOUS
  <2>1. CASE Next
    BY <2>1, ChildKeeps, TeacherKeeps, SpuriousKeeps DEF Next
  <2>2. CASE UNCHANGED vars
    BY <2>2 DEF vars, CondInv, NoChildForgotten, NoTeacherForgotten, Waiting, Room, MayLeave
  <2> QED
    BY <2>1, <2>2
<1> QED
  BY <1>1, CondInit, PTL DEF Spec

\* Children that sleep while there is room have one of their number on the way.
THEOREM ChildrenRemembered == Spec => []NoChildForgotten
<1>1. CondInv => NoChildForgotten
  BY DEF CondInv
<1> QED
  BY <1>1, CondInvariant, PTL

\* Teachers that sleep while one may leave have one of their number on the way.
THEOREM TeachersRemembered == Spec => []NoTeacherForgotten
<1>1. CondInv => NoTeacherForgotten
  BY DEF CondInv
<1> QED
  BY <1>1, CondInvariant, PTL

\* A thread that moves on to s and wakes some that sleep: who is inside then.
LEMMA InsideAfter ==
    ASSUME CondInv, NEW u \in Threads, NEW s \in {"out", "in", "wait", "woken"},
           NEW W \in SUBSET Waiting(Threads), Moves(u, s, W)
    PROVE  Inside' = IF s = "in" \/ (u \in Teachers /\ s # "out")
                     THEN Inside \cup {u} ELSE Inside \ {u}
<1>1. \A x \in Threads : at'[x] = IF x = u THEN s ELSE IF x \in W THEN "woken" ELSE at[x]
  BY DEF Moves
<1>2. \A x \in Threads : x \in Inside <=> (at[x] = "in" \/ (x \in Teachers /\ at[x] # "out"))
  BY DEF Inside, CondInv
<1>3. \A x \in Threads : x \in Inside' <=> (at'[x] = "in" \/ (x \in Teachers /\ at'[x] # "out"))
  <2>1. \A x \in Threads : at'[x] \in {"out", "in", "wait", "woken"}
    BY <1>1 DEF CondInv
  <2> QED
    BY <2>1 DEF Inside
<1>4. Inside \subseteq Threads /\ Inside' \subseteq Threads
  BY DEF Inside, Threads
<1>5. \A x \in W : at[x] = "wait"
  BY DEF Waiting
<1>6. \A x \in Threads \ {u} : x \in Inside' <=> x \in Inside
  BY <1>1, <1>2, <1>3, <1>5
<1> QED
  BY <1>1, <1>3, <1>4, <1>6

\* Every step is a step of the busy waiting, or changes nothing that it sees: a
\* thread that blocks or wakes up is one that tried in vain.
LEMMA StepImplements ==
    ASSUME CondInv, [Next]_vars
    PROVE  [Busy!Next]_(Busy!kvars)
<1>1. /\ Children \subseteq Threads /\ Teachers \subseteq Threads
      /\ \A c \in Children : c \notin Teachers
      /\ Waiting(Children) \subseteq Waiting(Threads)
      /\ Waiting(Teachers) \subseteq Waiting(Threads)
  BY KgartenCondAssumption DEF Threads, Waiting
<1>2. \A x \in Threads : x \in Inside <=> (at[x] = "in" \/ (x \in Teachers /\ at[x] # "out"))
  BY DEF Inside, CondInv
<1>3. ASSUME NEW c \in Children, ChildBlocks(c) PROVE UNCHANGED Busy!kvars
  <2>1. Inside' = Inside \ {c} /\ c \notin Inside
    BY <1>1, <1>2, <1>3, InsideAfter DEF ChildBlocks
  <2> QED
    BY <1>3, <2>1 DEF ChildBlocks, Busy!kvars
<1>4. ASSUME NEW c \in Children, ChildEnters(c) PROVE Busy!ChildEnters(c)
  <2>1. PICK W \in Signal(Room(vc', vt), Children) : Moves(c, "in", W)
    BY <1>4 DEF ChildEnters
  <2>2. Inside' = Inside \cup {c} /\ c \notin Inside
    BY <1>1, <1>2, <1>4, <2>1, SignalWakes, InsideAfter DEF ChildEnters
  <2> QED
    BY <1>4, <2>2 DEF ChildEnters, Room, Verify, Busy!ChildEnters, Busy!Verify
<1>5. ASSUME NEW c \in Children, ChildExits(c) PROVE Busy!ChildExits(c)
  <2>1. PICK W \in Signal(Room(vc', vt), Children) :
               Moves(c, "out", W \cup Broadcast(MayLeave(vc', vt), Teachers))
    BY <1>5 DEF ChildExits
  <2>2. W \cup Broadcast(MayLeave(vc', vt), Teachers) \in SUBSET Waiting(Threads)
    BY <1>1, SignalWakes, BroadcastWakes
  <2>3. Inside' = Inside \ {c} /\ c \in Inside
    BY <1>1, <1>2, <1>5, <2>1, <2>2, InsideAfter DEF ChildExits
  <2> QED
    BY <1>5, <2>3 DEF ChildExits, Verify, Busy!ChildExits, Busy!Verify
<1>6. ASSUME NEW t \in Teachers, TeacherEnters(t) PROVE Busy!TeacherEnters(t)
  <2>1. PICK W \in Signal(MayLeave(vc, vt'), Teachers) :
               Moves(t, "in", W \cup Broadcast(TRUE, Children))
    BY <1>6 DEF TeacherEnters
  <2>2. W \cup Broadcast(TRUE, Children) \in SUBSET Waiting(Threads)
    BY <1>1, SignalWakes, BroadcastWakes
  <2>3. Inside' = Inside \cup {t}
    BY <1>1, <2>1, <2>2, InsideAfter
  <2>4. t \notin Inside
    BY <1>1, <1>2, <1>6 DEF TeacherEnters
  <2> QED
    BY <1>6, <2>3, <2>4 DEF TeacherEnters, Verify, Busy!TeacherEnters, Busy!Verify
<1>7. ASSUME NEW t \in Teachers, TeacherBlocks(t) PROVE UNCHANGED Busy!kvars
  <2>1. Inside' = Inside \cup {t} /\ t \in Inside
    BY <1>1, <1>2, <1>7, InsideAfter DEF TeacherBlocks
  <2> QED
    BY <1>7, <2>1 DEF TeacherBlocks, Busy!kvars
<1>8. ASSUME NEW t \in Teachers, TeacherExits(t) PROVE Busy!TeacherExits(t)
  <2>1. PICK W \in Signal(MayLeave(vc, vt'), Teachers) : Moves(t, "out", W)
    BY <1>8 DEF TeacherExits
  <2>2. Inside' = Inside \ {t} /\ t \in Inside
    BY <1>1, <1>2, <1>8, <2>1, SignalWakes, InsideAfter DEF TeacherExits
  <2> QED
    BY <1>8, <2>2 DEF TeacherExits, MayLeave, Verify, Busy!TeacherExits, Busy!Verify
<1>9. ASSUME NEW t \in Threads, SpuriousWakeup(t) PROVE UNCHANGED Busy!kvars
  <2>1. Inside' = IF t \in Teachers THEN Inside \cup {t} ELSE Inside \ {t}
    BY <1>9, InsideAfter DEF SpuriousWakeup
  <2>2. t \in Inside <=> t \in Teachers
    BY <1>2, <1>9 DEF SpuriousWakeup
  <2> QED
    BY <1>9, <2>1, <2>2 DEF SpuriousWakeup, Busy!kvars
<1>10. CASE UNCHANGED vars
  BY <1>10 DEF vars, Inside, Busy!kvars
<1> QED
  BY <1>3, <1>4, <1>5, <1>6, <1>7, <1>8, <1>9, <1>10 DEF Next, Child, Teacher, Busy!Next

\* kgarten-2.c implements kgarten.c: the condition variables let the same threads
\* pass at the same moments as the busy loops.
THEOREM CondImplementsBusy == Spec => ImplementsBusy
<1>1. Init => Busy!Init
  BY DEF Init, Inside, Threads, Busy!Init
<1>2. CondInv /\ [Next]_vars => [Busy!Next]_(Busy!kvars)
  BY StepImplements
<1> QED
  BY <1>1, <1>2, CondInvariant, PTL DEF Spec, ImplementsBusy, Busy!Spec

\* What is proved of the busy waiting is a fact about the threads inside here:
\* BusyProof is the same instance as Busy, with the theorems.
LEMMA BusyTheoremsApply ==
    /\ Spec => BusyProof!Spec
    /\ BusyProof!Spec => []BusyProof!RatioKept
    /\ BusyProof!Spec => []BusyProof!TypeOK
<1>1. Busy!Spec => BusyProof!Spec
  <2>1. Busy!Init => BusyProof!Init
    BY DEF Busy!Init, BusyProof!Init
  <2>2. [Busy!Next]_(Busy!kvars) => [BusyProof!Next]_(BusyProof!kvars)
    BY DEF Busy!Next, Busy!ChildEnters, Busy!ChildExits, Busy!TeacherEnters,
           Busy!TeacherExits, Busy!Verify, Busy!kvars,
           BusyProof!Next, BusyProof!ChildEnters, BusyProof!ChildExits,
           BusyProof!TeacherEnters, BusyProof!TeacherExits, BusyProof!Verify,
           Busy!VerifyLater, BusyProof!VerifyLater, Busy!Threads, BusyProof!Threads,
           BusyProof!kvars
  <2> QED
    BY <2>1, <2>2, PTL DEF Busy!Spec, BusyProof!Spec
<1>2. BusyProof!KgartenAssumption
  BY KgartenCondAssumption DEF BusyProof!KgartenAssumption, BusyProof!IsFiniteSet, IsFiniteSet
<1>3. BusyProof!Spec => []BusyProof!RatioKept
  BY <1>2, BusyProof!RatioHolds, PTL
<1>4. BusyProof!Spec => []BusyProof!TypeOK
  BY <1>2, BusyProof!KgartenTypes, PTL
<1> QED
  BY <1>1, <1>3, <1>4, CondImplementsBusy, PTL DEF ImplementsBusy

\* The ratio of the kindergarten holds here because it holds there.
THEOREM CondRatioHolds == Spec => []RatioKept
<1>1. BusyProof!RatioKept => RatioKept
  BY DEF RatioKept, Busy!RatioKept, BusyProof!RatioKept, Busy!Cardinality, BusyProof!Cardinality
<1> QED
  BY <1>1, BusyTheoremsApply, PTL

\* Neither counter goes below zero, and every thread is somewhere.
THEOREM CondTypes == Spec => []TypeOK
<1>1. CondInv /\ BusyProof!TypeOK => TypeOK
  BY DEF CondInv, TypeOK, BusyProof!TypeOK
<1> QED
  BY <1>1, BusyTheoremsApply, CondInvariant, PTL
=============================================================================
