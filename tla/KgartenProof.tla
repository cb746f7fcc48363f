---------------------------- MODULE KgartenProof ----------------------------
(***************************************************************************)
(* The invariants of Kgarten, for any number of threads and any ratio.     *)
(***************************************************************************)
EXTENDS Kgarten, FiniteSetTheorems, TLAPS

ChildrenIn == inside \cap Children
TeachersIn == inside \cap Teachers

\* Each counter is the number of threads it stands for: the tests of the code,
\* which look at the counters, are then tests on the threads.  verify() can
\* only stay silent because every operation keeps the ratio of the counters.
KgartenInv ==
    /\ inside \subseteq Threads
    /\ vc = Cardinality(ChildrenIn)
    /\ vt = Cardinality(TeachersIn)
    /\ vc <= vt * ratio
    /\ failed \in BOOLEAN /\ ~failed
    /\ due \subseteq Threads /\ earlier \in Versions

\* The counters are natural numbers, because the sets they count are finite.
LEMMA CountersAreNat ==
    ASSUME KgartenInv
    PROVE  /\ IsFiniteSet(ChildrenIn) /\ IsFiniteSet(TeachersIn)
           /\ vc \in Nat /\ vt \in Nat
<1>1. IsFiniteSet(ChildrenIn) /\ IsFiniteSet(TeachersIn)
  <2>1. ChildrenIn \subseteq Children /\ TeachersIn \subseteq Teachers
    BY DEF ChildrenIn, TeachersIn
  <2> QED
    BY <2>1, FS_Subset, KgartenAssumption
<1> QED
  BY <1>1, FS_CardinalityType DEF KgartenInv

\* One teacher more or less is ratio children more or less.
LEMMA OneTeacherMore ==
    ASSUME NEW t \in Nat
    PROVE  /\ (t + 1) * ratio = t * ratio + ratio
           /\ (t - 1) * ratio = t * ratio - ratio
           /\ t * ratio \in Nat
  BY KgartenAssumption

\* An empty room satisfies the invariant.
LEMMA KgartenInit == Init => KgartenInv
<1> SUFFICES ASSUME Init PROVE KgartenInv
  OBVIOUS
<1>1. ChildrenIn = {} /\ TeachersIn = {}
  BY DEF Init, ChildrenIn, TeachersIn
<1>2. vc <= vt * ratio
  BY KgartenAssumption DEF Init
<1> QED
  BY <1>1, <1>2, FS_EmptySet DEF Init, KgartenInv

\* verify() is silent about counters that keep the ratio.
LEMMA VerifySilentThen ==
    ASSUME NEW x, Verify(x), ~failed, failed \in BOOLEAN, ~(vc' > vt' * ratio)
    PROVE  failed' \in BOOLEAN /\ ~failed'
<1>1. (vc' > vt' * ratio) = FALSE
  OBVIOUS
<1>2. failed' = failed \/ failed' = (vc' > vt' * ratio)
  BY DEF Verify
<1> QED
  BY <1>1, <1>2

\* Every critical section of a child keeps the invariant.
LEMMA ChildStep ==
    ASSUME KgartenInv, NEW c \in Children, ChildEnters(c) \/ ChildExits(c)
    PROVE  KgartenInv'
<1>0. /\ vc \in Nat /\ vt \in Nat /\ vt * ratio \in Nat
      /\ IsFiniteSet(ChildrenIn) /\ IsFiniteSet(TeachersIn)
  BY CountersAreNat, OneTeacherMore
<1>1. TeachersIn' = TeachersIn /\ c \in Threads
  BY KgartenAssumption DEF ChildEnters, ChildExits, TeachersIn, Threads
<1>2. CASE ChildEnters(c)
  <2>1. ChildrenIn' = ChildrenIn \cup {c} /\ c \notin ChildrenIn
    BY <1>2 DEF ChildEnters, ChildrenIn
  <2>2. Cardinality(ChildrenIn') = Cardinality(ChildrenIn) + 1
    BY <1>0, <2>1, FS_AddElement
  <2>3. vc' = vc + 1 /\ vt' = vt /\ vc + 1 <= vt * ratio
    BY <1>0, <1>2 DEF ChildEnters
  <2>4. failed' \in BOOLEAN /\ ~failed'
    <3>1. ~(vc' > vt' * ratio)
      BY <1>0, <2>3
    <3> QED
      BY <1>2, <3>1, VerifySilentThen DEF ChildEnters, KgartenInv
  <2> QED
    BY <1>0, <1>1, <1>2, <2>2, <2>3, <2>4 DEF ChildEnters, Verify, KgartenInv
<1>3. CASE ChildExits(c)
  <2>1. ChildrenIn' = ChildrenIn \ {c} /\ c \in ChildrenIn
    BY <1>3 DEF ChildExits, ChildrenIn
  <2>2. Cardinality(ChildrenIn') = Cardinality(ChildrenIn) - 1
    BY <1>0, <2>1, FS_RemoveElement
  <2>3. vc' = vc - 1 /\ vt' = vt /\ vc - 1 <= vt * ratio
    BY <1>0, <1>3 DEF ChildExits, KgartenInv
  <2>4. failed' \in BOOLEAN /\ ~failed'
    <3>1. ~(vc' > vt' * ratio)
      BY <1>0, <2>3
    <3> QED
      BY <1>3, <3>1, VerifySilentThen DEF ChildExits, KgartenInv
  <2> QED
    BY <1>0, <1>1, <1>3, <2>2, <2>3, <2>4 DEF ChildExits, Verify, KgartenInv
<1> QED
  BY <1>2, <1>3

\* Every critical section of a teacher keeps the invariant.
LEMMA TeacherStep ==
    ASSUME KgartenInv, NEW t \in Teachers, TeacherEnters(t) \/ TeacherExits(t)
    PROVE  KgartenInv'
<1>0. /\ vc \in Nat /\ vt \in Nat /\ vt * ratio \in Nat
      /\ IsFiniteSet(ChildrenIn) /\ IsFiniteSet(TeachersIn)
  BY CountersAreNat, OneTeacherMore
<1>1. ChildrenIn' = ChildrenIn /\ t \in Threads
  BY KgartenAssumption DEF TeacherEnters, TeacherExits, ChildrenIn, Threads
<1>2. CASE TeacherEnters(t)
  <2>1. TeachersIn' = TeachersIn \cup {t} /\ t \notin TeachersIn
    BY <1>2 DEF TeacherEnters, TeachersIn
  <2>2. Cardinality(TeachersIn') = Cardinality(TeachersIn) + 1
    BY <1>0, <2>1, FS_AddElement
  <2>3. vt' = vt + 1 /\ vc' = vc /\ vc <= vt' * ratio /\ vt' * ratio \in Int
    <3>1. vt' = vt + 1 /\ vc' = vc /\ vc <= vt * ratio
      BY <1>2 DEF TeacherEnters, KgartenInv
    <3>2. (vt + 1) * ratio = vt * ratio + ratio /\ ratio \in Nat
      BY <1>0, OneTeacherMore, KgartenAssumption
    <3> QED
      BY <1>0, <3>1, <3>2
  <2>4. failed' \in BOOLEAN /\ ~failed'
    <3>1. ~(vc' > vt' * ratio)
      BY <1>0, <2>3
    <3> QED
      BY <1>2, <3>1, VerifySilentThen DEF TeacherEnters, KgartenInv
  <2> QED
    BY <1>0, <1>1, <1>2, <2>2, <2>3, <2>4 DEF TeacherEnters, Verify, KgartenInv
<1>3. CASE TeacherExits(t)
  <2>1. TeachersIn' = TeachersIn \ {t} /\ t \in TeachersIn
    BY <1>3 DEF TeacherExits, TeachersIn
  <2>2. Cardinality(TeachersIn') = Cardinality(TeachersIn) - 1
    BY <1>0, <2>1, FS_RemoveElement
  <2>3. vt' = vt - 1 /\ vc' = vc /\ vc <= vt' * ratio /\ vt' * ratio \in Int
    <3>1. vt' = vt - 1 /\ vc' = vc /\ vc <= (vt - 1) * ratio
      BY <1>3 DEF TeacherExits
    <3>2. (vt - 1) * ratio = vt * ratio - ratio /\ ratio \in Nat
      BY <1>0, OneTeacherMore, KgartenAssumption
    <3> QED
      BY <1>0, <3>1, <3>2
  <2>4. failed' \in BOOLEAN /\ ~failed'
    <3>1. ~(vc' > vt' * ratio)
      BY <1>0, <2>3
    <3> QED
      BY <1>3, <3>1, VerifySilentThen DEF TeacherExits, KgartenInv
  <2> QED
    BY <1>0, <1>1, <1>3, <2>2, <2>3, <2>4 DEF TeacherExits, Verify, KgartenInv
<1> QED
  BY <1>2, <1>3

\* Neither does a thread that verifies later find more children than that.
LEMMA LaterStep ==
    ASSUME KgartenInv, NEW x \in Threads, VerifyLater(x)
    PROVE  KgartenInv'
<1>1. vc \in Nat /\ vt * ratio \in Nat
  BY CountersAreNat, OneTeacherMore
<1>2. (vc > vt * ratio) = FALSE
  BY <1>1 DEF KgartenInv
<1>3. failed' = FALSE
  BY <1>2 DEF VerifyLater
<1>4. ChildrenIn' = ChildrenIn /\ TeachersIn' = TeachersIn
  BY DEF VerifyLater, ChildrenIn, TeachersIn
<1> QED
  BY <1>3, <1>4 DEF VerifyLater, KgartenInv

\* kgarten.c: the counters count the threads and keep the ratio, always.
THEOREM KgartenInvariant == Spec => []KgartenInv
<1>1. KgartenInv /\ [Next]_kvars => KgartenInv'
  <2> SUFFICES ASSUME KgartenInv, [Next]_kvars PROVE KgartenInv'
    OBVIOUS
  <2>1. CASE Next
    BY <2>1, ChildStep, TeacherStep, LaterStep DEF Next
  <2>2. CASE UNCHANGED kvars
    BY <2>2 DEF kvars, KgartenInv, ChildrenIn, TeachersIn
  <2> QED
    BY <2>1, <2>2
<1> QED
  BY <1>1, KgartenInit, PTL DEF Spec

\* The counters never go below zero.
THEOREM KgartenTypes == Spec => []TypeOK
<1>1. KgartenInv => TypeOK
  BY CountersAreNat DEF KgartenInv, TypeOK
<1> QED
  BY <1>1, KgartenInvariant, PTL

\* There are never more children in the room than its teachers may look after,
\* whatever the threads do and however many there are.
THEOREM RatioHolds == Spec => []RatioKept
<1>1. KgartenInv => RatioKept
  <2> SUFFICES ASSUME KgartenInv PROVE RatioKept
    OBVIOUS
  <2>1. vt * ratio = ratio * vt
    BY CountersAreNat, KgartenAssumption
  <2> QED
    BY <2>1 DEF KgartenInv, RatioKept, ChildrenIn, TeachersIn
<1> QED
  BY <1>1, KgartenInvariant, PTL

\* verify() never ends the program.
THEOREM VerifySilent == Spec => []VerifyNeverFails
<1>1. KgartenInv => VerifyNeverFails
  BY DEF KgartenInv, VerifyNeverFails
<1> QED
  BY <1>1, KgartenInvariant, PTL
=============================================================================
