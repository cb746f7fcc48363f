--------------------------- MODULE TreeFileProof ---------------------------
(***************************************************************************)
(* Proofs about TreeFile, for any files and sizes: what is accepted is a   *)
(* tree, and what describes a tree is accepted.                            *)
(***************************************************************************)
EXTENDS TreeFile, SequenceTheorems, WellFoundedInduction, TLAPS

\* Induction over the natural numbers, for a set that contains 0 and with every
\* number the next one.
LEMMA SetInduction ==
    ASSUME NEW S, 0 \in S, \A n \in Nat : n \in S => n + 1 \in S
    PROVE  \A n \in Nat : n \in S
<1> DEFINE T == Nat \ S
           R == {ss \in Nat \X Nat : ss[1] < ss[2]}
<1> SUFFICES ASSUME T # {} PROVE FALSE
  OBVIOUS
<1>1. IsWellFoundedOn(R, Nat)
  BY NatLessThanWellFounded DEF OpToRel
<1>2. T \subseteq Nat
  OBVIOUS
<1>3. \A m, n \in Nat : m < n => <<m, n>> \in R
  OBVIOUS
<1> HIDE DEF T, R
<1>4. PICK n \in T : \A m \in T : ~(<<m, n>> \in R)
  BY <1>1, <1>2, WFMin
<1>5. n \in Nat /\ n \notin S /\ n # 0
  BY <1>4 DEF T
<1>6. n - 1 \in Nat /\ n - 1 < n /\ (n - 1) + 1 = n
  BY <1>5
<1>7. n - 1 \in T
  BY <1>5, <1>6 DEF T
<1> QED
  BY <1>2, <1>3, <1>4, <1>5, <1>6, <1>7
-----------------------------------------------------------------------------
\* The recursions of the model have solutions, and what they say holds of them.

LEMMA ChildrenEndEquation ==
    ASSUME NEW ns, NEW a, NEW i, Len(ns[i].kids) \in Nat
    PROVE  /\ ChildrenEnd(ns, a, i)[0] = i + 1
           /\ \A j \in 1 .. Len(ns[i].kids) :
                 ChildrenEnd(ns, a, i)[j] = a[ChildrenEnd(ns, a, i)[j - 1]]
<1> DEFINE L == Len(ns[i].kids)
           Body(f, j) == IF j = 0 THEN i + 1 ELSE a[f[j - 1]]
           S == {j \in Nat : \E f : f = [x \in 0 .. j |-> Body(f, x)]}
<1>1. 0 \in S
  <2> DEFINE f == [x \in 0 .. 0 |-> i + 1]
  <2>1. f = [x \in 0 .. 0 |-> Body(f, x)]
    OBVIOUS
  <2> HIDE DEF f
  <2> QED
    BY <2>1
<1>2. ASSUME NEW j \in Nat, j \in S PROVE j + 1 \in S
  <2>1. PICK f : f = [x \in 0 .. j |-> Body(f, x)]
    BY <1>2
  <2> DEFINE g == [x \in 0 .. j + 1 |-> IF x = j + 1 THEN Body(f, x) ELSE f[x]]
  <2>2. \A x \in 0 .. j : g[x] = f[x] /\ f[x] = Body(f, x)
    BY <2>1
  <2>3. g[j + 1] = Body(f, j + 1)
    OBVIOUS
  <2>4. \A x \in 0 .. j + 1 : x = j + 1 \/ x \in 0 .. j
    OBVIOUS
  <2>5. \A x \in 0 .. j + 1 : x # 0 => x - 1 \in 0 .. j
    OBVIOUS
  <2>6. g = [x \in 0 .. j + 1 |-> g[x]]
    OBVIOUS
  <2> HIDE DEF g
  <2>7. \A x \in 0 .. j + 1 : Body(g, x) = Body(f, x)
    BY <2>2, <2>5
  <2> HIDE DEF Body
  <2>8. \A x \in 0 .. j + 1 : g[x] = Body(g, x)
    BY <2>2, <2>3, <2>4, <2>7
  <2>9. g = [x \in 0 .. j + 1 |-> Body(g, x)]
    BY <2>6, <2>8
  <2> QED
    BY <2>9
<1>3. L \in S
  <2>1. L \in Nat
    OBVIOUS
  <2> HIDE DEF S, L
  <2> QED
    BY <1>1, <1>2, <2>1, SetInduction
<1>4. \E f : f = [x \in 0 .. L |-> Body(f, x)]
  BY <1>3
<1>5. ChildrenEnd(ns, a, i) = CHOOSE f : f = [x \in 0 .. L |-> Body(f, x)]
  BY DEF ChildrenEnd
<1> DEFINE u == ChildrenEnd(ns, a, i)
<1> HIDE DEF u
<1>6. u = [x \in 0 .. L |-> Body(u, x)]
  BY <1>4, <1>5 DEF u
<1>7. \A x \in 0 .. L : u[x] = Body(u, x)
  BY <1>6
<1>8. u[0] = Body(u, 0) /\ \A j \in 1 .. L : u[j] = Body(u, j) /\ j # 0
  BY <1>7
<1> QED
  BY <1>8 DEF u

LEMMA NodeFacts ==
    ASSUME NEW ns \in Seq(Node)
    PROVE  /\ Len(ns) \in Nat /\ DOMAIN ns = 1 .. Len(ns)
           /\ \A i \in 1 .. Len(ns) : /\ ns[i] \in Node /\ ns[i].name \in Seq(STRING)
                                      /\ ns[i].kids \in Seq(Seq(STRING))
                                      /\ Len(ns[i].kids) \in Nat
<1>1. Len(ns) \in Nat /\ DOMAIN ns = 1 .. Len(ns) /\ \A i \in 1 .. Len(ns) : ns[i] \in Node
  BY LenProperties, ElementOfSeq
<1>2. \A i \in 1 .. Len(ns) : ns[i].name \in Seq(STRING) /\ ns[i].kids \in Seq(Seq(STRING))
  BY <1>1 DEF Node
<1> QED
  BY <1>1, <1>2, LenProperties

\* Where children end depends on where later nodes end, and is later too.
LEMMA ChildrenEndDepends ==
    ASSUME NEW ns \in Seq(Node), NEW i \in 1 .. Len(ns), NEW f, NEW g,
           \A x \in i + 1 .. Len(ns) + 2 : f[x] \in x .. Len(ns) + 2 /\ f[x] = g[x]
    PROVE  \A j \in 0 .. Len(ns[i].kids) : /\ ChildrenEnd(ns, f, i)[j] = ChildrenEnd(ns, g, i)[j]
                                           /\ ChildrenEnd(ns, f, i)[j] \in i + 1 .. Len(ns) + 2
<1> DEFINE n == Len(ns[i].kids)
           F == ChildrenEnd(ns, f, i)
           G == ChildrenEnd(ns, g, i)
           S == {j \in Nat : j <= n => F[j] = G[j] /\ F[j] \in i + 1 .. Len(ns) + 2}
<1>1. n \in Nat /\ Len(ns) \in Nat
  BY NodeFacts
<1>2. /\ F[0] = i + 1 /\ \A j \in 1 .. n : F[j] = f[F[j - 1]]
      /\ G[0] = i + 1 /\ \A j \in 1 .. n : G[j] = g[G[j - 1]]
  BY <1>1, ChildrenEndEquation
<1> HIDE DEF F, G, n
<1>3. 0 \in S
  BY <1>1, <1>2
<1>4. ASSUME NEW j \in Nat, j \in S PROVE j + 1 \in S
  <2> SUFFICES ASSUME j + 1 <= n PROVE F[j + 1] = G[j + 1] /\ F[j + 1] \in i + 1 .. Len(ns) + 2
    OBVIOUS
  <2>1. j + 1 \in 1 .. n /\ (j + 1) - 1 = j /\ j <= n
    BY <1>1
  <2>2. F[j] = G[j] /\ F[j] \in i + 1 .. Len(ns) + 2
    BY <1>4, <2>1
  <2>3. F[j + 1] = f[F[j]] /\ G[j + 1] = g[F[j]]
    BY <1>2, <2>1, <2>2
  <2>4. f[F[j]] \in F[j] .. Len(ns) + 2 /\ f[F[j]] = g[F[j]]
    BY <2>2
  <2> QED
    BY <1>1, <2>2, <2>3, <2>4
<1> HIDE DEF S
<1>5. \A j \in Nat : j \in S
  BY <1>3, <1>4, SetInduction
<1> QED
  BY <1>1, <1>5 DEF S, F, G, n

LEMMA AfterEquation ==
    ASSUME NEW ns \in Seq(Node)
    PROVE  /\ \A i \in 1 .. Len(ns) + 2 :
                 /\ After(ns)[i] = IF i > Len(ns) THEN Len(ns) + 2
                                   ELSE ChildrenEnd(ns, After(ns), i)[Len(ns[i].kids)]
                 /\ After(ns)[i] \in i .. Len(ns) + 2
           /\ \A i \in 1 .. Len(ns) : \A j \in 0 .. Len(ns[i].kids) :
                 ChildrenEnd(ns, After(ns), i)[j] \in i + 1 .. Len(ns) + 2
<1> DEFINE L == Len(ns)
           Body(f, i) == IF i > L THEN L + 2 ELSE ChildrenEnd(ns, f, i)[Len(ns[i].kids)]
           Dom(d) == {i \in 1 .. L + 2 : i + d >= L + 2}
           S == {d \in Nat : \E f : /\ f = [i \in Dom(d) |-> Body(f, i)]
                                    /\ \A i \in Dom(d) : f[i] \in i .. L + 2}
<1>0. L \in Nat /\ \A i \in 1 .. L : Len(ns[i].kids) \in Nat
  BY NodeFacts
\* One node further down.
<1>d. ASSUME NEW d \in Nat, NEW i \in Dom(d + 1), NEW f, NEW g,
             \A x \in Dom(d) : f[x] \in x .. L + 2 /\ f[x] = g[x]
      PROVE  Body(f, i) = Body(g, i) /\ Body(f, i) \in i .. L + 2
  <2>1. i \in 1 .. L + 2 /\ \A x \in i + 1 .. L + 2 : x \in Dom(d)
    BY <1>0
  <2> HIDE DEF Dom
  <2>2. CASE i > L
    BY <1>0, <2>1, <2>2
  <2>3. CASE i <= L
    <3>1. i \in 1 .. L
      BY <1>0, <2>1, <2>3
    <3>2. Len(ns[i].kids) \in 0 .. Len(ns[i].kids) /\ ~(i > L)
      BY <1>0, <2>3, <3>1
    <3>3. /\ ChildrenEnd(ns, f, i)[Len(ns[i].kids)] = ChildrenEnd(ns, g, i)[Len(ns[i].kids)]
          /\ ChildrenEnd(ns, f, i)[Len(ns[i].kids)] \in i + 1 .. L + 2
      BY <1>d, <2>1, <3>1, <3>2, ChildrenEndDepends
    <3>4. i + 1 .. L + 2 \subseteq i .. L + 2
      BY <1>0, <3>1
    <3> QED
      BY <3>2, <3>3, <3>4
  <2> QED
    BY <1>0, <2>1, <2>2, <2>3
<1>1. 0 \in S
  <2>1. \A i \in Dom(0) : i = L + 2
    BY <1>0
  <2> DEFINE f == [i \in Dom(0) |-> L + 2]
  <2>2. f = [i \in Dom(0) |-> Body(f, i)]
    BY <1>0, <2>1
  <2>3. \A i \in Dom(0) : f[i] \in i .. L + 2
    BY <1>0, <2>1
  <2> HIDE DEF f
  <2> QED
    BY <2>2, <2>3
<1>2. ASSUME NEW d \in Nat, d \in S PROVE d + 1 \in S
  <2>1. PICK f : /\ f = [i \in Dom(d) |-> Body(f, i)]
                 /\ \A i \in Dom(d) : f[i] \in i .. L + 2
    BY <1>2
  <2> DEFINE g == [i \in Dom(d + 1) |-> IF i \in Dom(d) THEN f[i] ELSE Body(f, i)]
  <2>2. Dom(d) \subseteq Dom(d + 1)
    BY <1>0
  <2> HIDE DEF Dom, Body
  <2>3. \A i \in Dom(d + 1) : g[i] = Body(f, i)
    BY <2>1
  <2>4. \A i \in Dom(d) : g[i] = f[i]
    BY <2>2
  <2>5. g = [i \in Dom(d + 1) |-> g[i]]
    OBVIOUS
  <2> HIDE DEF g
  <2>6. \A i \in Dom(d + 1) : Body(f, i) = Body(g, i) /\ Body(f, i) \in i .. L + 2
    BY <1>d, <2>1, <2>4
  <2>7. g = [i \in Dom(d + 1) |-> Body(g, i)]
    BY <2>3, <2>5, <2>6
  <2>8. \A i \in Dom(d + 1) : g[i] \in i .. L + 2
    BY <2>3, <2>6
  <2> QED
    BY <2>7, <2>8
<1>3. L + 1 \in Nat /\ Dom(L + 1) = 1 .. L + 2
  BY <1>0
<1>4. \E f : f = [i \in 1 .. L + 2 |-> Body(f, i)]
  <2>1. L + 1 \in S
    <3> HIDE DEF S, Dom, Body
    <3> QED
      BY <1>1, <1>2, <1>3, SetInduction
  <2> HIDE DEF Dom
  <2> QED
    BY <1>3, <2>1
<1>5. After(ns) = CHOOSE f : f = [i \in 1 .. L + 2 |-> Body(f, i)]
  BY DEF After, Beyond
<1> DEFINE u == After(ns)
<1> HIDE DEF u
<1>6. u = [i \in 1 .. L + 2 |-> Body(u, i)]
  BY <1>4, <1>5 DEF u
<1>7. \A i \in 1 .. L + 2 : u[i] = Body(u, i)
  BY <1>6
<1>8. \A i \in 1 .. L + 2 : u[i] \in i .. L + 2
  <2> DEFINE T == {d \in Nat : \A i \in Dom(d) : u[i] \in i .. L + 2}
  <2>1. 0 \in T
    <3>1. \A i \in Dom(0) : i = L + 2 /\ Body(u, i) = L + 2 /\ i \in 1 .. L + 2
      BY <1>0
    <3> QED
      BY <1>0, <1>7, <3>1
  <2>2. ASSUME NEW d \in Nat, d \in T PROVE d + 1 \in T
    <3>1. \A i \in Dom(d + 1) : i \in 1 .. L + 2
      OBVIOUS
    <3> HIDE DEF Dom, Body
    <3>2. \A i \in Dom(d + 1) : Body(u, i) \in i .. L + 2
      BY <1>d, <2>2
    <3> QED
      BY <1>7, <3>1, <3>2
  <2>3. L + 1 \in T
    <3> HIDE DEF T, Dom, Body
    <3> QED
      BY <1>3, <2>1, <2>2, SetInduction
  <2> HIDE DEF Dom
  <2> QED
    BY <1>3, <2>3
<1>9. ASSUME NEW i \in 1 .. L, NEW j \in 0 .. Len(ns[i].kids)
      PROVE  ChildrenEnd(ns, u, i)[j] \in i + 1 .. L + 2
  <2>1. \A x \in i + 1 .. L + 2 : u[x] \in x .. L + 2
    BY <1>0, <1>8
  <2> QED
    BY <2>1, ChildrenEndDepends
<1> QED
  BY <1>7, <1>8, <1>9 DEF u
-----------------------------------------------------------------------------
\* s is u without its first d elements.
Dropped(s, d, u) == Len(s) = Len(u) - d /\ \A x \in 1 .. Len(s) : s[x] = u[x + d]

LEMMA DroppedAgain ==
    ASSUME NEW X, NEW s \in Seq(X), NEW t \in Seq(X), NEW u \in Seq(X), NEW d \in Nat,
           Dropped(t, d, u), Dropped(s, 1, t)
    PROVE  Dropped(s, d + 1, u)
<1>1. Len(s) \in Nat /\ Len(t) \in Nat /\ Len(u) \in Nat
  BY LenProperties
<1>2. Len(s) = Len(t) - 1 /\ Len(t) = Len(u) - d
  BY DEF Dropped
<1>3. ASSUME NEW x \in 1 .. Len(s) PROVE s[x] = u[x + (d + 1)]
  <2>1. s[x] = t[x + 1] /\ x + 1 \in 1 .. Len(t) /\ (x + 1) + d = x + (d + 1)
    BY <1>1, <1>2 DEF Dropped
  <2> QED
    BY <2>1 DEF Dropped
<1> QED
  BY <1>1, <1>2, <1>3 DEF Dropped

\* What is left of two sequences behind the first one.
LEMMA DroppedFirst ==
    ASSUME NEW X, NEW s \in Seq(X), NEW t \in Seq(X), NEW u \in Seq(X), u # <<>>,
           Dropped(s, Len(t), t \o Tail(u))
    PROVE  Dropped(s, 1, u)
<1>1. /\ Len(s) \in Nat /\ Len(t) \in Nat /\ Len(u) \in Nat /\ Len(u) # 0
      /\ Tail(u) \in Seq(X) /\ Len(Tail(u)) = Len(u) - 1
      /\ \A x \in 1 .. Len(u) - 1 : Tail(u)[x] = u[x + 1]
  BY LenProperties, EmptySeq, HeadTailProperties
<1>2. /\ Len(t \o Tail(u)) = Len(t) + (Len(u) - 1)
      /\ \A x \in 1 .. Len(u) - 1 : (t \o Tail(u))[Len(t) + x] = u[x + 1]
  <2> DEFINE v == Tail(u)
  <2>1. v \in Seq(X) /\ Len(v) = Len(u) - 1 /\ \A x \in 1 .. Len(u) - 1 : v[x] = u[x + 1]
    BY <1>1
  <2> HIDE DEF v
  <2>2. Len(t \o v) = Len(t) + Len(v)
    BY ConcatProperties
  <2>3. \A x \in 1 .. Len(v) : (t \o v)[Len(t) + x] = v[x]
    BY <1>1, ConcatProperties
  <2> QED
    BY <2>1, <2>2, <2>3 DEF v
<1>3. Len(s) = Len(u) - 1
  BY <1>1, <1>2 DEF Dropped
<1>4. ASSUME NEW x \in 1 .. Len(s) PROVE s[x] = u[x + 1]
  <2>1. s[x] = (t \o Tail(u))[x + Len(t)] /\ x + Len(t) = Len(t) + x
    BY <1>1 DEF Dropped
  <2> QED
    BY <1>1, <1>2, <1>3, <2>1
<1> QED
  BY <1>3, <1>4 DEF Dropped
-----------------------------------------------------------------------------
\* The names that are expected after m nodes, the root counted as expected from
\* the start: what the reader and a depth-first walk have in common.
Stacks(ns) ==
    LET stack[m \in 0 .. Len(ns)] ==
            IF m = 0 THEN <<ns[1].name>> ELSE ns[m].kids \o Tail(stack[m - 1])
    IN  stack

\* The nodes come in the order in which they are expected.
InOrder(ns) ==
    \A m \in 1 .. Len(ns) : Stacks(ns)[m - 1] # <<>> /\ Head(Stacks(ns)[m - 1]) = ns[m].name

Names == Seq(STRING)

LEMMA StacksEquation ==
    ASSUME NEW ns \in Seq(Node)
    PROVE  /\ Stacks(ns)[0] = <<ns[1].name>>
           /\ \A m \in 1 .. Len(ns) : Stacks(ns)[m] = ns[m].kids \o Tail(Stacks(ns)[m - 1])
<1> DEFINE L == Len(ns)
           first == <<ns[1].name>>
           Put(m, s) == ns[m].kids \o Tail(s)
           Body(f, m) == IF m = 0 THEN first ELSE Put(m, f[m - 1])
           S == {j \in Nat : \E f : f = [x \in 0 .. j |-> Body(f, x)]}
<1>0. L \in Nat
  BY NodeFacts
<1>5. Stacks(ns) = CHOOSE f : f = [x \in 0 .. L |-> Body(f, x)]
  BY DEF Stacks
<1> HIDE DEF first, Put
<1>1. 0 \in S
  <2> DEFINE f == [x \in 0 .. 0 |-> first]
  <2>1. f = [x \in 0 .. 0 |-> Body(f, x)]
    OBVIOUS
  <2> HIDE DEF f
  <2> QED
    BY <2>1
<1>2. ASSUME NEW j \in Nat, j \in S PROVE j + 1 \in S
  <2>1. PICK f : f = [x \in 0 .. j |-> Body(f, x)]
    BY <1>2
  <2> DEFINE g == [x \in 0 .. j + 1 |-> IF x = j + 1 THEN Body(f, x) ELSE f[x]]
  <2>2. \A x \in 0 .. j : g[x] = f[x] /\ f[x] = Body(f, x)
    BY <2>1
  <2>3. g[j + 1] = Body(f, j + 1)
    OBVIOUS
  <2>4. \A x \in 0 .. j + 1 : x = j + 1 \/ x \in 0 .. j
    OBVIOUS
  <2>5. \A x \in 0 .. j + 1 : x # 0 => x - 1 \in 0 .. j
    OBVIOUS
  <2>6. g = [x \in 0 .. j + 1 |-> g[x]]
    OBVIOUS
  <2> HIDE DEF g
  <2>7. \A x \in 0 .. j + 1 : Body(g, x) = Body(f, x)
    BY <2>2, <2>5
  <2> HIDE DEF Body
  <2>8. \A x \in 0 .. j + 1 : g[x] = Body(g, x)
    BY <2>2, <2>3, <2>4, <2>7
  <2>9. g = [x \in 0 .. j + 1 |-> Body(g, x)]
    BY <2>6, <2>8
  <2> QED
    BY <2>9
<1>3. L \in S
  <2> HIDE DEF S
  <2> QED
    BY <1>0, <1>1, <1>2, SetInduction
<1>4. \E f : f = [x \in 0 .. L |-> Body(f, x)]
  BY <1>3
<1> DEFINE u == Stacks(ns)
<1> HIDE DEF u
<1>6. u = [x \in 0 .. L |-> Body(u, x)]
  BY <1>4, <1>5 DEF u
<1>7. \A x \in 0 .. L : u[x] = Body(u, x)
  BY <1>6
<1>8. u[0] = Body(u, 0) /\ \A j \in 1 .. L : u[j] = Body(u, j) /\ j # 0
  BY <1>0, <1>7
<1> QED
  BY <1>8 DEF u, first, Put

LEMMA StacksTyped ==
    ASSUME NEW ns \in Seq(Node), ns # <<>>, InOrder(ns)
    PROVE  \A m \in 0 .. Len(ns) : Stacks(ns)[m] \in Seq(Names)
<1> DEFINE L == Len(ns)
           st == Stacks(ns)
           S == {m \in Nat : m <= L => st[m] \in Seq(Names)}
<1>0. L \in Nat /\ L # 0 /\ 1 \in 1 .. L
  BY NodeFacts, EmptySeq
<1>1. /\ st[0] = <<ns[1].name>>
      /\ \A m \in 1 .. L : st[m] = ns[m].kids \o Tail(st[m - 1]) /\ st[m - 1] # <<>>
      /\ \A m \in 1 .. L : ns[m].name \in Names /\ ns[m].kids \in Seq(Names)
  BY StacksEquation, NodeFacts DEF InOrder, Names
<1> HIDE DEF L, st
<1>2. 0 \in S
  <2>1. \A x \in Names : <<x>> \in Seq(Names)
    OBVIOUS
  <2> QED
    BY <1>0, <1>1, <2>1
<1>3. ASSUME NEW m \in Nat, m \in S PROVE m + 1 \in S
  <2> SUFFICES ASSUME m + 1 <= L PROVE st[m + 1] \in Seq(Names)
    OBVIOUS
  <2>1. m + 1 \in 1 .. L /\ (m + 1) - 1 = m /\ m <= L
    BY <1>0
  <2>2. st[m] \in Seq(Names) /\ st[m] # <<>>
    BY <1>1, <1>3, <2>1
  <2>3. Tail(st[m]) \in Seq(Names)
    BY <2>2, HeadTailProperties
  <2>4. ns[m + 1].kids \in Seq(Names) /\ st[m + 1] = ns[m + 1].kids \o Tail(st[m])
    BY <1>1, <2>1
  <2> QED
    BY <2>3, <2>4, ConcatProperties
<1> HIDE DEF S
<1>4. \A m \in Nat : m \in S
  BY <1>2, <1>3, SetInduction
<1> QED
  BY <1>0, <1>4 DEF S, L, st

\* The subtree of node i ends where all that was expected before i is expected
\* again, and node i is not.
SubtreeEnds(ns, i) ==
    /\ After(ns)[i] \in i + 1 .. Len(ns) + 1
    /\ Dropped(Stacks(ns)[After(ns)[i] - 1], 1, Stacks(ns)[i - 1])

LEMMA Between ==
    ASSUME NEW L \in Nat, NEW i \in 1 .. L, NEW x \in i + 1 .. L + 1
    PROVE  /\ x \in Nat /\ x - 1 \in 0 .. L
           /\ x - 1 # L => x \in i + 1 .. L
OBVIOUS

\* If that holds of all later nodes, every child of node i is the node that was
\* expected, and it holds of node i.
LEMMA ChildByChild ==
    ASSUME NEW ns \in Seq(Node), ns # <<>>, InOrder(ns), Stacks(ns)[Len(ns)] = <<>>,
           NEW i \in 1 .. Len(ns), \A x \in i + 1 .. Len(ns) : SubtreeEnds(ns, x)
    PROVE  /\ SubtreeEnds(ns, i)
           /\ \A j \in 1 .. Len(ns[i].kids) : ns[ChildAt(ns, i, j)].name = ns[i].kids[j]
<1> DEFINE L == Len(ns)
           n == Len(ns[i].kids)
           st == Stacks(ns)
           e == ChildrenEnd(ns, After(ns), i)
           T == {j \in Nat : j <= n => /\ e[j] \in i + 1 .. L + 1
                                       /\ Dropped(st[e[j] - 1], j, st[i])}
<1>1. /\ L \in Nat /\ n \in Nat /\ i \in 1 .. L /\ i - 1 \in 0 .. L /\ i \in 0 .. L
      /\ ns[i].kids \in Seq(Names)
  BY NodeFacts DEF Names
<1>2. \A m \in 0 .. L : st[m] \in Seq(Names) /\ Len(st[m]) \in Nat
  BY StacksTyped, LenProperties
<1>3. st[i] = ns[i].kids \o Tail(st[i - 1]) /\ st[i - 1] # <<>>
  BY StacksEquation DEF InOrder
<1>4. /\ e[0] = i + 1 /\ e[n] = After(ns)[i]
      /\ \A j \in 1 .. n : e[j] = After(ns)[e[j - 1]]
  <2>1. e[0] = i + 1 /\ \A j \in 1 .. n : e[j] = After(ns)[e[j - 1]]
    BY <1>1, ChildrenEndEquation
  <2>2. i \in 1 .. L + 2 /\ ~(i > L)
    BY <1>1
  <2> QED
    BY <2>1, <2>2, AfterEquation
<1>5. Len(st[i]) >= n /\ \A j \in 1 .. n : st[i][j] = ns[i].kids[j]
  <2> DEFINE t == Tail(st[i - 1])
  <2>1. t \in Seq(Names)
    BY <1>1, <1>2, <1>3, HeadTailProperties
  <2> HIDE DEF t
  <2>2. Len(t) \in Nat
    BY <2>1, LenProperties
  <2>3. /\ Len(ns[i].kids \o t) = n + Len(t)
        /\ \A j \in 1 .. n + Len(t) : (ns[i].kids \o t)[j] =
               IF j <= n THEN ns[i].kids[j] ELSE t[j - n]
    BY <1>1, <2>1, ConcatProperties
  <2>4. st[i] = ns[i].kids \o t
    BY <1>3 DEF t
  <2>5. n \in Nat
    BY <1>1
  <2> DEFINE u == ns[i].kids \o t
  <2>6. Len(u) = n + Len(t) /\ \A j \in 1 .. n + Len(t) : j <= n => u[j] = ns[i].kids[j]
    BY <2>3
  <2>7. st[i] = u
    BY <2>4
  <2> HIDE DEF n, u, st
  <2>8. Len(u) >= n
    BY <2>2, <2>5, <2>6
  <2>9. \A j \in 1 .. n : j \in 1 .. n + Len(t) /\ j <= n
    BY <2>2, <2>5
  <2> QED
    BY <2>6, <2>7, <2>8, <2>9
<1> HIDE DEF L, n, st, e
\* A child that is still to come is the next node.
<1>6. ASSUME NEW j \in Nat, j \in T, j + 1 <= n
      PROVE  /\ e[j] \in i + 1 .. L /\ st[e[j] - 1] # <<>>
             /\ ns[e[j]].name = ns[i].kids[j + 1]
  <2>1. e[j] \in i + 1 .. L + 1 /\ Dropped(st[e[j] - 1], j, st[i])
    BY <1>1, <1>6
  <2>2. e[j] - 1 \in 0 .. L /\ e[j] \in Nat /\ (e[j] - 1 # L => e[j] \in i + 1 .. L)
    BY <1>1, <2>1, Between
  <2>3. Len(st[e[j] - 1]) \in Nat /\ Len(st[e[j] - 1]) = Len(st[i]) - j
    BY <1>2, <2>1, <2>2 DEF Dropped
  <2>4. Len(st[e[j] - 1]) >= 1
    <3>1. \A x, y \in Nat : x >= n /\ y = x - j => y >= 1
      BY <1>1, <1>6
    <3>2. Len(st[i]) \in Nat
      BY <1>1, <1>2
    <3> QED
      BY <1>5, <2>3, <3>1, <3>2
  <2>5. st[e[j] - 1] # <<>>
    BY <2>4, EmptySeq
  <2>6. e[j] \in i + 1 .. L
    BY <2>2, <2>5 DEF L, st
  <2>7. st[e[j] - 1][1] = ns[i].kids[j + 1]
    <3>1. 1 + j = j + 1 /\ j + 1 \in 1 .. n
      BY <1>1, <1>6
    <3>2. 1 \in 1 .. Len(st[e[j] - 1])
      BY <2>3, <2>4
    <3>3. st[e[j] - 1][1] = st[i][1 + j]
      BY <2>1, <3>2 DEF Dropped
    <3> QED
      BY <1>5, <3>1, <3>3
  <2>8. ns[e[j]].name = Head(st[e[j] - 1])
    <3>1. e[j] \in 1 .. L
      BY <1>1, <2>6
    <3> QED
      BY <3>1 DEF InOrder, L, st
  <2>9. Head(st[e[j] - 1]) = st[e[j] - 1][1]
    BY <1>2, <2>2, <2>5
  <2> QED
    BY <2>5, <2>6, <2>7, <2>8, <2>9
<1>7. 0 \in T
  <2>1. e[0] \in i + 1 .. L + 1 /\ e[0] - 1 = i
    BY <1>1, <1>4
  <2>2. Dropped(st[i], 0, st[i])
    BY <1>1, <1>2 DEF Dropped
  <2> QED
    BY <2>1, <2>2
<1>8. ASSUME NEW j \in Nat, j \in T PROVE j + 1 \in T
  <2> SUFFICES ASSUME j + 1 <= n
               PROVE  e[j + 1] \in i + 1 .. L + 1 /\ Dropped(st[e[j + 1] - 1], j + 1, st[i])
    OBVIOUS
  <2>1. e[j] \in i + 1 .. L
    BY <1>6, <1>8
  <2>2. Dropped(st[e[j] - 1], j, st[i])
    BY <1>1, <1>8
  <2>3. e[j + 1] = After(ns)[e[j]]
    <3>1. j + 1 \in 1 .. n /\ (j + 1) - 1 = j
      BY <1>1
    <3> QED
      BY <1>4, <3>1
  <2>4. e[j + 1] \in e[j] + 1 .. L + 1 /\ Dropped(st[e[j + 1] - 1], 1, st[e[j] - 1])
    BY <2>1, <2>3 DEF SubtreeEnds, L, st
  <2>5. e[j] - 1 \in 0 .. L /\ e[j + 1] - 1 \in 0 .. L /\ e[j + 1] \in i + 1 .. L + 1
    <3>1. e[j] \in 1 .. L /\ e[j] \in i + 1 .. L + 1
      BY <1>1, <2>1
    <3>2. \A x \in e[j] + 1 .. L + 1 : x \in i + 1 .. L + 1
      BY <1>1, <2>1
    <3> QED
      BY <1>1, <2>4, <3>1, <3>2, Between
  <2>6. Dropped(st[e[j + 1] - 1], j + 1, st[i])
    BY <1>1, <1>2, <2>2, <2>4, <2>5, DroppedAgain
  <2> QED
    BY <2>5, <2>6
<1>9. \A j \in Nat : j \in T
  <2> HIDE DEF T
  <2> QED
    BY <1>7, <1>8, SetInduction
<1>10. SubtreeEnds(ns, i)
  <2>1. e[n] \in i + 1 .. L + 1 /\ Dropped(st[e[n] - 1], n, st[i])
    BY <1>1, <1>9
  <2>2. e[n] - 1 \in 0 .. L
    BY <1>1, <2>1
  <2>3. Dropped(st[e[n] - 1], 1, st[i - 1])
    BY <1>1, <1>2, <1>3, <2>1, <2>2, DroppedFirst DEF n
  <2> QED
    BY <1>4, <2>1, <2>3 DEF SubtreeEnds, L, st
<1>11. ASSUME NEW j \in 1 .. n PROVE ns[e[j - 1]].name = ns[i].kids[j]
  <2>1. j - 1 \in Nat /\ (j - 1) + 1 = j /\ j <= n
    BY <1>1
  <2> QED
    BY <1>6, <1>9, <2>1
<1> QED
  BY <1>10, <1>11 DEF ChildAt, e, n

\* Nodes in the order in which they are expected, with nothing expected at the
\* end and not before, are a tree.
LEMMA InOrderIsTree ==
    ASSUME NEW ns \in Seq(Node), ns # <<>>, InOrder(ns), Stacks(ns)[Len(ns)] = <<>>
    PROVE  IsTreeInOrder(ns)
<1> DEFINE L == Len(ns)
           S == {d \in Nat : \A i \in 1 .. L : i + d > L => SubtreeEnds(ns, i)}
<1>1. L \in Nat /\ L # 0
  BY NodeFacts, EmptySeq
<1>2. 0 \in S
  BY <1>1
<1>3. ASSUME NEW d \in Nat, d \in S PROVE d + 1 \in S
  <2> SUFFICES ASSUME NEW i \in 1 .. L, i + (d + 1) > L PROVE SubtreeEnds(ns, i)
    OBVIOUS
  <2>1. \A x \in i + 1 .. L : x \in 1 .. L /\ x + d > L
    BY <1>1
  <2>2. \A x \in i + 1 .. L : SubtreeEnds(ns, x)
    BY <1>3, <2>1
  <2> QED
    BY <2>2, ChildByChild
<1>4. \A i \in 1 .. L : SubtreeEnds(ns, i)
  <2>1. L \in S
    <3> HIDE DEF S
    <3> QED
      BY <1>1, <1>2, <1>3, SetInduction
  <2> QED
    BY <1>1, <2>1
<1>5. \A i \in 1 .. L : \A j \in 1 .. Len(ns[i].kids) : ns[ChildAt(ns, i, j)].name = ns[i].kids[j]
  <2> SUFFICES ASSUME NEW i \in 1 .. L
               PROVE  \A j \in 1 .. Len(ns[i].kids) : ns[ChildAt(ns, i, j)].name = ns[i].kids[j]
    OBVIOUS
  <2>1. \A x \in i + 1 .. L : SubtreeEnds(ns, x)
    BY <1>1, <1>4
  <2> QED
    BY <2>1, ChildByChild
<1>6. After(ns)[1] = L + 1
  <2> DEFINE a == After(ns)[1]
  <2>1. 1 \in 1 .. L
    BY <1>1
  <2>2. a \in 2 .. L + 1 /\ Dropped(Stacks(ns)[a - 1], 1, Stacks(ns)[0])
    BY <1>4, <2>1 DEF SubtreeEnds
  <2> HIDE DEF a
  <2>3. a - 1 \in 0 .. L
    BY <1>1, <2>2
  <2>4. Len(Stacks(ns)[0]) = 1
    <3>1. \A x : Len(<<x>>) = 1
      OBVIOUS
    <3> QED
      BY <3>1, StacksEquation
  <2>5. Len(Stacks(ns)[a - 1]) = 0
    BY <2>2, <2>4 DEF Dropped
  <2>6. Stacks(ns)[a - 1] = <<>>
    BY <2>3, <2>5, StacksTyped, EmptySeq
  <2>7. CASE a # L + 1
    <3>1. a \in 1 .. L
      BY <1>1, <2>2, <2>7
    <3> QED
      BY <2>6, <3>1 DEF InOrder
  <2> QED
    BY <2>7 DEF a
<1> QED
  BY <1>5, <1>6 DEF IsTreeInOrder
-----------------------------------------------------------------------------
\* The reader.

LEMMA LineFacts ==
    ASSUME file \in Files
    PROVE  /\ Last \in Nat
           /\ \A l \in 1 .. Last : file.lines[l] \in Names /\ Line(l) \in Names
<1>1. file.lines \in Seq(Names)
  BY TreeFileAssumption DEF Names
<1>2. Last \in Nat /\ \A l \in 1 .. Last : file.lines[l] \in Names
  BY <1>1, LenProperties, ElementOfSeq DEF Last
<1>3. ASSUME NEW l \in 1 .. Last PROVE Line(l) \in Names
  <2>1. file.lines[l] \in Seq(STRING)
    BY <1>2 DEF Names
  <2>2. Len(file.lines[l]) \in Nat /\ \A x \in 1 .. Len(file.lines[l]) - 1 : file.lines[l][x] \in STRING
    BY <2>1, LenProperties
  <2>3. SubSeq(file.lines[l], 1, Len(file.lines[l]) - 1) \in Seq(STRING)
    BY <2>2, SubSeqProperties
  <2> QED
    BY <2>1, <2>3 DEF Line, Names
<1> QED
  BY <1>2, <1>3

LEMMA StoredFits ==
    ASSUME NEW line \in Names
    PROVE  /\ Stored(line) \in Names /\ Len(Stored(line)) < NODE_NAME_SIZE
           /\ Len(line) < NODE_NAME_SIZE => Stored(line) = line
<1>1. line \in Seq(STRING) /\ Len(line) \in Nat /\ NODE_NAME_SIZE \in Nat \ {0}
  BY LenProperties, TreeFileAssumption DEF Names
<1>2. \A x \in 1 .. Len(line) : line[x] \in STRING
  BY <1>1, LenProperties
<1>3. CASE Len(line) < NODE_NAME_SIZE
  <2>1. SubSeq(line, 1, Len(line)) = line
    BY <1>1
  <2> QED
    BY <1>3, <2>1 DEF Stored
<1>4. CASE ~(Len(line) < NODE_NAME_SIZE)
  <2> DEFINE m == NODE_NAME_SIZE - 1
  <2>1. Stored(line) = SubSeq(line, 1, m)
    BY <1>4 DEF Stored
  <2>2. m \in Nat /\ m < NODE_NAME_SIZE /\ \A x \in 1 .. m : line[x] \in STRING
    BY <1>1, <1>2, <1>4
  <2> HIDE DEF m
  <2>3. SubSeq(line, 1, m) \in Seq(STRING) /\ Len(SubSeq(line, 1, m)) = IF 1 <= m THEN m - 1 + 1 ELSE 0
    BY <2>2, SubSeqProperties
  <2>4. Len(SubSeq(line, 1, m)) = m
    BY <2>2, <2>3
  <2> QED
    BY <1>4, <2>1, <2>2, <2>3, <2>4 DEF Names
<1> QED
  BY <1>3, <1>4

\* A name that is stored is only equal to a line that fits.
LEMMA SameStored ==
    ASSUME NEW line \in Names, NEW name \in Names, Len(name) < NODE_NAME_SIZE, SameName(name, line)
    PROVE  Stored(line) = name
<1>1. line \in Seq(STRING) /\ Len(line) \in Nat /\ NODE_NAME_SIZE \in Nat \ {0}
  BY LenProperties, TreeFileAssumption DEF Names
<1>2. \A x \in 1 .. Len(line) : line[x] \in STRING
  BY <1>1, LenProperties
<1>3. CASE Len(line) < NODE_NAME_SIZE
  BY <1>3 DEF SameName, Stored
<1>4. CASE ~(Len(line) < NODE_NAME_SIZE)
  <2>1. \A x \in 1 .. NODE_NAME_SIZE : line[x] \in STRING
    BY <1>1, <1>2, <1>4
  <2>2. Len(SubSeq(line, 1, NODE_NAME_SIZE)) = NODE_NAME_SIZE
    BY <1>1, <2>1, SubSeqProperties
  <2> QED
    BY <1>1, <1>4, <2>2 DEF SameName
<1> QED
  BY <1>3, <1>4

LEMMA StacksAppend ==
    ASSUME NEW ns \in Seq(Node), NEW x \in Node, ns # <<>>
    PROVE  /\ \A m \in 0 .. Len(ns) : Stacks(Append(ns, x))[m] = Stacks(ns)[m]
           /\ Stacks(Append(ns, x))[Len(ns) + 1] = x.kids \o Tail(Stacks(ns)[Len(ns)])
<1> DEFINE L == Len(ns)
           more == Append(ns, x)
           S == {m \in Nat : m <= L => Stacks(more)[m] = Stacks(ns)[m]}
<1>1. /\ L \in Nat /\ L # 0 /\ more \in Seq(Node) /\ Len(more) = L + 1 /\ more[L + 1] = x
      /\ \A m \in 1 .. L : more[m] = ns[m]
  BY NodeFacts, EmptySeq, AppendProperties
<1>2. /\ Stacks(ns)[0] = <<ns[1].name>>
      /\ \A m \in 1 .. L : Stacks(ns)[m] = ns[m].kids \o Tail(Stacks(ns)[m - 1])
      /\ Stacks(more)[0] = <<more[1].name>>
      /\ \A m \in 1 .. L + 1 : Stacks(more)[m] = more[m].kids \o Tail(Stacks(more)[m - 1])
  <2> HIDE DEF more
  <2> QED
    BY <1>1, StacksEquation
<1> HIDE DEF more, L
<1>3. 0 \in S
  <2>1. 1 \in 1 .. L
    BY <1>1
  <2> QED
    BY <1>1, <1>2, <2>1
<1>4. ASSUME NEW m \in Nat, m \in S PROVE m + 1 \in S
  <2> SUFFICES ASSUME m + 1 <= L PROVE Stacks(more)[m + 1] = Stacks(ns)[m + 1]
    OBVIOUS
  <2>1. m + 1 \in 1 .. L /\ m + 1 \in 1 .. L + 1 /\ (m + 1) - 1 = m /\ m <= L
    BY <1>1
  <2>2. Stacks(more)[m] = Stacks(ns)[m]
    BY <1>4, <2>1
  <2>3. /\ Stacks(ns)[m + 1] = ns[m + 1].kids \o Tail(Stacks(ns)[m])
        /\ Stacks(more)[m + 1] = ns[m + 1].kids \o Tail(Stacks(more)[m])
    BY <1>1, <1>2, <2>1
  <2> QED
    BY <2>2, <2>3
<1>5. \A m \in 0 .. L : Stacks(more)[m] = Stacks(ns)[m]
  <2>1. \A m \in Nat : m \in S
    <3> HIDE DEF S
    <3> QED
      BY <1>3, <1>4, SetInduction
  <2> QED
    BY <1>1, <2>1
<1>6. Stacks(more)[L + 1] = x.kids \o Tail(Stacks(ns)[L])
  <2>1. L + 1 \in 1 .. L + 1 /\ (L + 1) - 1 = L /\ L \in 0 .. L
    BY <1>1
  <2>2. Stacks(more)[L + 1] = more[L + 1].kids \o Tail(Stacks(more)[L])
    BY <1>2, <2>1
  <2> QED
    BY <1>1, <1>5, <2>1, <2>2
<1> QED
  BY <1>5, <1>6 DEF more, L

\* A tree that has only its root so far.
LEMMA StacksOne ==
    ASSUME NEW x \in Node
    PROVE  Stacks(<<x>>)[0] = <<x.name>> /\ Stacks(<<x>>)[1] = x.kids
<1> DEFINE ns == <<x>>
<1>1. ns \in Seq(Node) /\ Len(ns) = 1 /\ ns[1] = x
  OBVIOUS
<1> HIDE DEF ns
<1>2. Stacks(ns)[0] = <<x.name>> /\ Stacks(ns)[1] = x.kids \o Tail(Stacks(ns)[0])
  <2>1. 1 \in 1 .. 1 /\ 1 - 1 = 0
    OBVIOUS
  <2> QED
    BY <1>1, <2>1, StacksEquation
<1>3. \A y : Tail(<<y>>) = <<>>
  OBVIOUS
<1>4. x.kids \in Seq(Names) /\ x.kids \o <<>> = x.kids
  BY ConcatEmptySeq DEF Node, Names
<1> QED
  BY <1>2, <1>3, <1>4 DEF ns

\* The node that is made of the block of n names at line i.
Kids(i, n)   == [j \in 1 .. n |-> Stored(Line(i + 1 + j))]
Parsed(i, n) == [name |-> Stored(Line(i)), kids |-> Kids(i, n)]

LEMMA FunctionIsSeq ==
    ASSUME NEW S, NEW n \in Nat, NEW f, f = [j \in 1 .. n |-> f[j]], \A j \in 1 .. n : f[j] \in S
    PROVE  f \in Seq(S) /\ Len(f) = n
OBVIOUS

LEMMA ParsedFacts ==
    ASSUME file \in Files, pos \in 0 .. Last, NEW i \in pos + 1 .. Last, NEW n \in 0 .. Last,
           IsBlock(i, n)
    PROVE  /\ Parsed(i, n) \in Node /\ Len(Parsed(i, n).name) < NODE_NAME_SIZE
           /\ Parsed(i, n).kids = Kids(i, n) /\ Kids(i, n) \in Seq(Names)
           /\ Len(Kids(i, n)) = n
           /\ \A j \in 1 .. n : Len(Kids(i, n)[j]) < NODE_NAME_SIZE
<1>1. Last \in Nat /\ i \in 1 .. Last /\ n \in Nat /\ pos \in Nat
  BY LineFacts
<1>2. Stored(Line(i)) \in Names /\ Len(Stored(Line(i))) < NODE_NAME_SIZE
  BY <1>1, LineFacts, StoredFits
<1>3. ASSUME NEW j \in 1 .. n
      PROVE  Stored(Line(i + 1 + j)) \in Names /\ Len(Stored(Line(i + 1 + j))) < NODE_NAME_SIZE
  <2> DEFINE l == i + 1 + j
  <2>1. l \in i + 2 .. i + 1 + n /\ l \in Nat /\ l >= 1
    BY <1>1
  <2>2. NonEmpty(l)
    BY <2>1 DEF IsBlock
  <2>3. l \in 1 .. Last
    BY <1>1, <2>1, <2>2 DEF NonEmpty
  <2> HIDE DEF l
  <2>4. Stored(Line(l)) \in Names /\ Len(Stored(Line(l))) < NODE_NAME_SIZE
    BY <2>3, LineFacts, StoredFits
  <2> QED
    BY <2>4 DEF l
<1>4. /\ Kids(i, n) \in Seq(Names) /\ Len(Kids(i, n)) = n
      /\ \A j \in 1 .. n : Kids(i, n)[j] = Stored(Line(i + 1 + j))
  <2> DEFINE f == Kids(i, n)
  <2>1. \A j \in 1 .. n : f[j] = Stored(Line(i + 1 + j))
    BY DEF Kids
  <2>2. f = [j \in 1 .. n |-> f[j]]
    BY DEF Kids
  <2> HIDE DEF f
  <2>3. \A j \in 1 .. n : f[j] \in Names
    BY <1>3, <2>1
  <2>4. f \in Seq(Names) /\ Len(f) = n
    BY <1>1, <2>2, <2>3, FunctionIsSeq
  <2> QED
    BY <2>1, <2>4 DEF f
<1> QED
  BY <1>2, <1>3, <1>4 DEF Parsed, Node, Names

LEMMA ParseStep ==
    ASSUME ParseNode
    PROVE  \E i \in pos + 1 .. Last : \E n \in 0 .. Last :
              /\ IsBlockStart(i) /\ IsBlock(i, n)
              /\ nodes' = Append(nodes, Parsed(i, n))
              /\ expected' = Remaining(Kids(i, n))
              /\ status' = IF Remaining(Kids(i, n)) = <<>> THEN "tree" ELSE "reading"
              /\ pos' = IF i + 2 + n > Last THEN Last ELSE i + 2 + n
              /\ file' = file /\ status = "reading"
BY DEF ParseNode, Parsed, Kids

\* What holds in every state: the nodes that were read are in order, and what is
\* expected is what a depth-first walk expects after them.
OrderInv ==
    /\ file \in Files
    /\ TypeOK
    /\ nodes # <<>> => InOrder(nodes) /\ expected = Stacks(nodes)[Len(nodes)]
    /\ nodes = <<>> => expected = <<>>
    /\ status = "reading" => (expected = <<>> <=> nodes = <<>>)
    /\ status = "tree" => nodes # <<>>

LEMMA ParseOrder == OrderInv /\ ParseNode => OrderInv'
<1> SUFFICES ASSUME OrderInv, ParseNode PROVE OrderInv'
  OBVIOUS
<1>1. PICK i \in pos + 1 .. Last, n \in 0 .. Last :
          /\ IsBlockStart(i) /\ IsBlock(i, n)
          /\ nodes' = Append(nodes, Parsed(i, n))
          /\ expected' = Remaining(Kids(i, n))
          /\ status' = IF Remaining(Kids(i, n)) = <<>> THEN "tree" ELSE "reading"
          /\ pos' = IF i + 2 + n > Last THEN Last ELSE i + 2 + n
          /\ file' = file /\ status = "reading"
  BY ParseStep
<1> DEFINE x == Parsed(i, n)
           kids == Kids(i, n)
<1>2. /\ file \in Files /\ TypeOK /\ Last \in Nat /\ pos \in 0 .. Last /\ i \in 1 .. Last /\ n \in Nat
      /\ expected \in Seq(Names) /\ nodes \in Seq(Node)
      /\ \A l \in 1 .. Len(nodes) : Len(nodes[l].name) < NODE_NAME_SIZE
      /\ \A l \in 1 .. Len(expected) : Len(expected[l]) < NODE_NAME_SIZE
  <2>1. file \in Files /\ TypeOK
    BY DEF OrderInv
  <2>2. Last \in Nat
    BY <2>1, LineFacts
  <2>3. pos \in 0 .. Last
    BY <2>1 DEF TypeOK
  <2>4. i \in 1 .. Last /\ n \in Nat
    BY <2>2, <2>3
  <2> QED
    BY <2>1, <2>2, <2>3, <2>4 DEF TypeOK, Names
<1>3. /\ x \in Node /\ Len(x.name) < NODE_NAME_SIZE /\ x.kids = kids /\ x.name = Stored(Line(i))
      /\ kids \in Seq(Names) /\ Len(kids) = n
      /\ \A j \in 1 .. n : Len(kids[j]) < NODE_NAME_SIZE
  BY <1>1, <1>2, ParsedFacts DEF Parsed
<1>4. /\ nodes' \in Seq(Node) /\ nodes' # <<>> /\ Len(nodes') = Len(nodes) + 1
      /\ \A l \in 1 .. Len(nodes) : nodes'[l] = nodes[l]
      /\ nodes'[Len(nodes) + 1] = x /\ Len(nodes) \in Nat
  BY <1>1, <1>2, <1>3, AppendProperties, LenProperties
<1>5. /\ Remaining(kids) \in Seq(Names)
      /\ \A l \in 1 .. Len(Remaining(kids)) : Len(Remaining(kids)[l]) < NODE_NAME_SIZE
  <2>1. CASE expected = <<>>
    BY <1>3, <2>1 DEF Remaining
  <2>2. CASE expected # <<>>
    <3> DEFINE t == Tail(expected)
    <3>1. /\ t \in Seq(Names) /\ Len(t) = Len(expected) - 1 /\ Len(expected) \in Nat
          /\ \A l \in 1 .. Len(t) : t[l] = expected[l + 1]
      BY <1>2, <2>2, HeadTailProperties, LenProperties
    <3>2. \A l \in 1 .. Len(t) : Len(t[l]) < NODE_NAME_SIZE
      BY <1>2, <3>1
    <3>3. Len(t) \in Nat
      BY <3>1, LenProperties
    <3> HIDE DEF t
    <3>4. /\ kids \o t \in Seq(Names) /\ Len(kids \o t) = n + Len(t)
          /\ \A l \in 1 .. n + Len(t) : (kids \o t)[l] = IF l <= n THEN kids[l] ELSE t[l - n]
      <4>1. kids \in Seq(Names) /\ t \in Seq(Names)
        BY <1>3, <3>1
      <4> HIDE DEF kids
      <4>2. /\ kids \o t \in Seq(Names) /\ Len(kids \o t) = Len(kids) + Len(t)
            /\ \A l \in 1 .. Len(kids) + Len(t) :
                   (kids \o t)[l] = IF l <= Len(kids) THEN kids[l] ELSE t[l - Len(kids)]
        BY <4>1, ConcatProperties
      <4>3. Len(kids) = n
        BY <1>3 DEF kids
      <4> QED
        BY <4>2, <4>3
    <3>5. ASSUME NEW l \in 1 .. n + Len(t) PROVE Len((kids \o t)[l]) < NODE_NAME_SIZE
      <4>1. CASE l <= n
        BY <1>2, <1>3, <3>3, <3>4, <4>1
      <4>2. CASE l > n
        <5>1. l - n \in 1 .. Len(t) /\ ~(l <= n)
          BY <1>2, <3>3, <4>2
        <5> QED
          BY <3>2, <3>4, <5>1
      <4>3. l <= n \/ l > n
        BY <1>2, <3>3
      <4> QED
        BY <4>1, <4>2, <4>3
    <3>6. Remaining(kids) = kids \o t
      BY <2>2 DEF Remaining, t
    <3> QED
      BY <3>4, <3>5, <3>6
  <2> QED
    BY <2>1, <2>2
<1>6. TypeOK'
  <2>1. Last' = Last
    BY <1>1 DEF Last
  <2>2. pos' \in 0 .. Last
    BY <1>1, <1>2
  <2>3. \A l \in 1 .. Len(nodes') : Len(nodes'[l].name) < NODE_NAME_SIZE
    <3> SUFFICES ASSUME NEW l \in 1 .. Len(nodes') PROVE Len(nodes'[l].name) < NODE_NAME_SIZE
      OBVIOUS
    <3>1. l \in 1 .. Len(nodes) \/ l = Len(nodes) + 1
      BY <1>4
    <3> QED
      BY <1>2, <1>3, <1>4, <3>1
  <2> QED
    BY <1>1, <1>4, <1>5, <2>1, <2>2, <2>3 DEF TypeOK, Names
<1>7. InOrder(nodes') /\ expected' = Stacks(nodes')[Len(nodes')]
  <2>1. CASE nodes = <<>>
    <3>1. nodes' = <<x>> /\ Len(nodes') = 1 /\ expected = <<>>
      BY <1>1, <1>4, <2>1, EmptySeq DEF OrderInv
    <3>2. expected' = kids
      BY <1>1, <3>1 DEF Remaining
    <3>3. Stacks(nodes')[0] = <<x.name>> /\ Stacks(nodes')[1] = kids
      BY <1>3, <3>1, StacksOne
    <3>4. \A y : Head(<<y>>) = y /\ <<y>> # <<>>
      OBVIOUS
    <3>5. \A m \in 1 .. 1 : m - 1 = 0 /\ m = 1
      OBVIOUS
    <3>6. nodes'[1] = x
      BY <3>1
    <3> QED
      BY <3>1, <3>2, <3>3, <3>4, <3>5, <3>6 DEF InOrder
  <2>2. CASE nodes # <<>>
    <3>1. InOrder(nodes) /\ expected = Stacks(nodes)[Len(nodes)] /\ expected # <<>>
      BY <1>1, <2>2 DEF OrderInv
    <3>2. /\ \A m \in 0 .. Len(nodes) : Stacks(nodes')[m] = Stacks(nodes)[m]
          /\ Stacks(nodes')[Len(nodes) + 1] = kids \o Tail(Stacks(nodes)[Len(nodes)])
      BY <1>1, <1>2, <1>3, <2>2, StacksAppend
    <3>3. Head(expected) = x.name
      <4>1. /\ Head(expected) = expected[1] /\ Head(expected) \in Names /\ 1 \in 1 .. Len(expected)
        BY <1>2, <3>1, HeadTailProperties, LenProperties, EmptySeq
      <4>2. Len(Head(expected)) < NODE_NAME_SIZE
        BY <1>2, <4>1
      <4>3. SameName(Head(expected), Line(i)) /\ Line(i) \in Names
        BY <1>1, <1>2, <3>1, LineFacts DEF IsBlock
      <4> QED
        BY <1>3, <4>1, <4>2, <4>3, SameStored
    <3>4. ASSUME NEW m \in 1 .. Len(nodes')
          PROVE  Stacks(nodes')[m - 1] # <<>> /\ Head(Stacks(nodes')[m - 1]) = nodes'[m].name
      <4>1. CASE m = Len(nodes) + 1
        <5>1. m - 1 = Len(nodes) /\ Len(nodes) \in 0 .. Len(nodes)
          BY <1>4, <4>1
        <5> QED
          BY <1>4, <3>1, <3>2, <3>3, <4>1, <5>1
      <4>2. CASE m \in 1 .. Len(nodes)
        <5>1. m - 1 \in 0 .. Len(nodes)
          BY <1>4, <4>2
        <5> QED
          BY <1>4, <3>1, <3>2, <4>2, <5>1 DEF InOrder
      <4> QED
        BY <1>4, <4>1, <4>2
    <3>5. expected' = Stacks(nodes')[Len(nodes')]
      BY <1>1, <1>4, <3>1, <3>2 DEF Remaining
    <3> QED
      BY <3>4, <3>5 DEF InOrder
  <2> QED
    BY <2>1, <2>2
<1> QED
  BY <1>1, <1>2, <1>4, <1>6, <1>7 DEF OrderInv

THEOREM OrderInvariant == Spec => []OrderInv
<1>1. Init => OrderInv
  <2> SUFFICES ASSUME Init PROVE OrderInv
    OBVIOUS
  <2>1. Last \in Nat
    BY LineFacts DEF Init
  <2> QED
    BY <2>1, EmptySeq DEF Init, OrderInv, TypeOK
<1>2. OrderInv /\ [Next]_vars => OrderInv'
  <2> SUFFICES ASSUME OrderInv, [Next]_vars PROVE OrderInv'
    OBVIOUS
  <2>1. CASE ParseNode
    BY <2>1, ParseOrder
  <2>2. CASE Reject
    BY <2>2 DEF Reject, OrderInv, TypeOK, Last
  <2>3. CASE EmptyFile
    BY <2>3 DEF EmptyFile, OrderInv, TypeOK, Last
  <2>4. CASE UNCHANGED vars
    BY <2>4 DEF vars, OrderInv, TypeOK, Last
  <2> QED
    BY <2>1, <2>2, <2>3, <2>4 DEF Next
<1> QED
  BY <1>1, <1>2, PTL DEF Spec

\* TypeOK: no name that the reader keeps is longer than the room it has.
THEOREM ReaderTypes == Spec => []TypeOK
<1>1. OrderInv => TypeOK
  BY DEF OrderInv
<1> QED
  BY <1>1, OrderInvariant, PTL

\* AcceptedIsTree: whatever is in the file, what get_tree_from_file() returns is a
\* tree whose nodes were found where the recursion expected them.
THEOREM AcceptedAreTrees == Spec => []AcceptedIsTree
<1>1. OrderInv => AcceptedIsTree
  <2> SUFFICES ASSUME OrderInv, status = "tree" PROVE IsTreeInOrder(nodes)
    BY DEF AcceptedIsTree
  <2>1. nodes \in Seq(Node) /\ nodes # <<>> /\ InOrder(nodes) /\ Stacks(nodes)[Len(nodes)] = <<>>
    BY DEF OrderInv, TypeOK
  <2> QED
    BY <2>1, InOrderIsTree
<1> QED
  BY <1>1, OrderInvariant, PTL
-----------------------------------------------------------------------------
\* The other way round: of a tree, the nodes come as a depth-first walk expects.

\* What is expected after m nodes begins with the next one.
Good(ns, m) == /\ Stacks(ns)[m] \in Seq(Names) /\ Stacks(ns)[m] # <<>>
               /\ Head(Stacks(ns)[m]) = ns[m + 1].name

\* A walk that comes to node i goes through its subtree, and then goes on with
\* what was expected after node i.
Walked(ns, i) ==
    Good(ns, i - 1) /\ After(ns)[i] <= Len(ns) + 1 =>
        /\ \A m \in i - 1 .. After(ns)[i] - 2 : Good(ns, m)
        /\ Stacks(ns)[After(ns)[i] - 1] \in Seq(Names)
        /\ Dropped(Stacks(ns)[After(ns)[i] - 1], 1, Stacks(ns)[i - 1])

\* In a subtree that ends within the nodes, so do those of the children.
LEMMA ChildrenWithin ==
    ASSUME NEW ns \in Seq(Node), NEW i \in 1 .. Len(ns), After(ns)[i] <= Len(ns) + 1
    PROVE  \A j \in 0 .. Len(ns[i].kids) :
              /\ ChildrenEnd(ns, After(ns), i)[j] \in i + 1 .. Len(ns) + 1
              /\ j # Len(ns[i].kids) => ChildrenEnd(ns, After(ns), i)[j] \in i + 1 .. Len(ns)
<1> DEFINE L == Len(ns)
           n == Len(ns[i].kids)
           a == After(ns)
           e == ChildrenEnd(ns, a, i)
           T == {d \in Nat : \A j \in 0 .. n : j + d >= n => e[j] <= L + 1}
<1>1. L \in Nat /\ n \in Nat /\ i \in 1 .. L /\ i \in 1 .. L + 2 /\ ~(i > L)
  BY NodeFacts
<1>2. /\ \A j \in 0 .. n : e[j] \in i + 1 .. L + 2
      /\ \A x \in 1 .. L + 2 : a[x] \in x .. L + 2
      /\ a[i] = e[n]
      /\ a[L + 1] = L + 2
  <2>1. L + 1 \in 1 .. L + 2 /\ L + 1 > L
    BY <1>1
  <2> QED
    BY <1>1, <2>1, AfterEquation
<1>3. \A j \in 1 .. n : e[j] = a[e[j - 1]]
  BY <1>1, ChildrenEndEquation
<1>4. e[n] <= L + 1
  BY <1>2
<1> HIDE DEF L, n, a, e
<1>5. 0 \in T
  BY <1>1, <1>4
<1>6. ASSUME NEW d \in Nat, d \in T PROVE d + 1 \in T
  <2> SUFFICES ASSUME NEW j \in 0 .. n, j + (d + 1) >= n PROVE e[j] <= L + 1
    OBVIOUS
  <2>1. CASE j = n
    BY <1>4, <2>1
  <2>2. CASE j # n
    <3>1. j + 1 \in 1 .. n /\ j + 1 \in 0 .. n /\ (j + 1) - 1 = j /\ (j + 1) + d >= n
      BY <1>1, <2>2
    <3>2. e[j + 1] <= L + 1 /\ e[j + 1] = a[e[j]]
      BY <1>3, <1>6, <3>1
    <3>3. e[j] \in 1 .. L + 2
      BY <1>1, <1>2
    <3>4. a[e[j]] \in e[j] .. L + 2
      BY <1>2, <3>3
    <3> QED
      BY <1>1, <3>2, <3>3, <3>4
  <2> QED
    BY <2>1, <2>2
<1>7. \A j \in 0 .. n : e[j] <= L + 1
  <2>1. n \in T
    <3> HIDE DEF T
    <3> QED
      BY <1>1, <1>5, <1>6, SetInduction
  <2> QED
    BY <1>1, <2>1
<1>8. ASSUME NEW j \in 0 .. n PROVE e[j] \in i + 1 .. L + 1
  BY <1>1, <1>2, <1>7
<1>9. ASSUME NEW j \in 0 .. n, j # n PROVE e[j] \in i + 1 .. L
  <2>1. j + 1 \in 1 .. n /\ j + 1 \in 0 .. n /\ (j + 1) - 1 = j
    BY <1>1, <1>9
  <2>2. e[j + 1] = a[e[j]] /\ e[j + 1] \in i + 1 .. L + 1
    BY <1>3, <1>8, <2>1
  <2>3. e[j] # L + 1
    BY <1>1, <1>2, <2>2
  <2> QED
    BY <1>1, <1>8, <2>3
<1> QED
  BY <1>8, <1>9 DEF L, n, a, e

LEMMA WalkChildByChild ==
    ASSUME NEW ns \in Seq(Node), NEW i \in 1 .. Len(ns),
           \A j \in 1 .. Len(ns[i].kids) : ns[ChildAt(ns, i, j)].name = ns[i].kids[j],
           \A x \in i + 1 .. Len(ns) : Walked(ns, x)
    PROVE  Walked(ns, i)
<1> SUFFICES ASSUME Good(ns, i - 1), After(ns)[i] <= Len(ns) + 1
             PROVE  /\ \A m \in i - 1 .. After(ns)[i] - 2 : Good(ns, m)
                    /\ Stacks(ns)[After(ns)[i] - 1] \in Seq(Names)
                    /\ Dropped(Stacks(ns)[After(ns)[i] - 1], 1, Stacks(ns)[i - 1])
  BY DEF Walked
<1> DEFINE L == Len(ns)
           n == Len(ns[i].kids)
           st == Stacks(ns)
           e == ChildrenEnd(ns, After(ns), i)
           T == {j \in Nat : j <= n => /\ \A m \in i - 1 .. e[j] - 2 : Good(ns, m)
                                       /\ st[e[j] - 1] \in Seq(Names)
                                       /\ Dropped(st[e[j] - 1], j, st[i])}
<1>1. /\ L \in Nat /\ n \in Nat /\ i \in 1 .. L /\ i \in Nat
      /\ ns[i].kids \in Seq(Names)
  BY NodeFacts DEF Names
<1>2. /\ \A j \in 0 .. n : e[j] \in i + 1 .. L + 1
      /\ \A j \in 0 .. n : j # n => e[j] \in i + 1 .. L
  BY ChildrenWithin
<1>3. /\ e[0] = i + 1 /\ e[n] = After(ns)[i]
      /\ \A j \in 1 .. n : e[j] = After(ns)[e[j - 1]]
  <2>1. e[0] = i + 1 /\ \A j \in 1 .. n : e[j] = After(ns)[e[j - 1]]
    BY <1>1, ChildrenEndEquation
  <2>2. i \in 1 .. L + 2 /\ ~(i > L)
    BY <1>1
  <2> QED
    BY <2>1, <2>2, AfterEquation
<1>4. /\ st[i] = ns[i].kids \o Tail(st[i - 1]) /\ st[i - 1] # <<>> /\ st[i - 1] \in Seq(Names)
      /\ st[i] \in Seq(Names) /\ Len(st[i]) \in Nat
      /\ Len(st[i]) >= n /\ \A j \in 1 .. n : st[i][j] = ns[i].kids[j]
  <2>1. st[i] = ns[i].kids \o Tail(st[i - 1]) /\ st[i - 1] # <<>> /\ st[i - 1] \in Seq(Names)
    BY StacksEquation DEF Good
  <2> DEFINE t == Tail(st[i - 1])
             u == ns[i].kids \o t
  <2>2. t \in Seq(Names)
    BY <2>1, HeadTailProperties
  <2>3. st[i] = u
    BY <2>1
  <2>4. ns[i].kids \in Seq(Names) /\ n \in Nat
    BY <1>1
  <2> HIDE DEF t
  <2>5. Len(t) \in Nat
    BY <2>2, LenProperties
  <2>6. /\ u \in Seq(Names) /\ Len(u) = n + Len(t)
        /\ \A j \in 1 .. n + Len(t) : u[j] = IF j <= n THEN ns[i].kids[j] ELSE t[j - n]
    BY <2>2, <2>4, ConcatProperties
  <2> HIDE DEF n, u, st
  <2>7. Len(u) >= n /\ Len(u) \in Nat
    BY <2>4, <2>5, <2>6
  <2>8. \A j \in 1 .. n : j \in 1 .. n + Len(t) /\ j <= n
    BY <2>4, <2>5
  <2> QED
    BY <2>1, <2>3, <2>6, <2>7, <2>8
<1>5. \A j \in 1 .. n : ns[e[j - 1]].name = ns[i].kids[j]
  BY DEF ChildAt
<1> HIDE DEF L, n, st, e
<1>6. 0 \in T
  <2>1. e[0] - 1 = i
    BY <1>1, <1>3
  <2>2. \A m \in i - 1 .. e[0] - 2 : m = i - 1
    BY <1>1, <1>3
  <2>3. Dropped(st[i], 0, st[i])
    BY <1>1, <1>4 DEF Dropped
  <2> QED
    BY <1>4, <2>1, <2>2, <2>3
<1>7. ASSUME NEW j \in Nat, j \in T PROVE j + 1 \in T
  <2> SUFFICES ASSUME j + 1 <= n
               PROVE  /\ \A m \in i - 1 .. e[j + 1] - 2 : Good(ns, m)
                      /\ st[e[j + 1] - 1] \in Seq(Names)
                      /\ Dropped(st[e[j + 1] - 1], j + 1, st[i])
    OBVIOUS
  <2>1. j \in 0 .. n /\ j # n /\ j + 1 \in 0 .. n /\ j + 1 \in 1 .. n /\ (j + 1) - 1 = j /\ j <= n
    BY <1>1
  <2>2. /\ e[j] \in i + 1 .. L /\ e[j + 1] \in i + 1 .. L + 1 /\ e[j + 1] = After(ns)[e[j]]
        /\ ns[e[j]].name = ns[i].kids[j + 1]
    BY <1>2, <1>3, <1>5, <2>1
  <2>3. /\ \A m \in i - 1 .. e[j] - 2 : Good(ns, m)
        /\ st[e[j] - 1] \in Seq(Names)
        /\ Dropped(st[e[j] - 1], j, st[i])
    BY <1>7, <2>1
  <2>4. Len(st[e[j] - 1]) \in Nat /\ Len(st[e[j] - 1]) = Len(st[i]) - j
    BY <2>3, LenProperties DEF Dropped
  <2>5. Len(st[e[j] - 1]) >= 1
    <3>1. \A x, y \in Nat : x >= n /\ y = x - j => y >= 1
      BY <1>1
    <3> QED
      BY <1>4, <2>4, <3>1
  <2>6. st[e[j] - 1] # <<>>
    BY <2>5, EmptySeq
  <2>7. Head(st[e[j] - 1]) = ns[i].kids[j + 1]
    <3>1. Head(st[e[j] - 1]) = st[e[j] - 1][1]
      BY <2>3, <2>6
    <3>2. st[e[j] - 1][1] = st[i][1 + j] /\ 1 + j = j + 1
      BY <2>3, <2>4, <2>5 DEF Dropped
    <3> QED
      BY <1>4, <2>1, <3>1, <3>2
  <2>8. Good(ns, e[j] - 1)
    <3>1. e[j] \in Nat /\ (e[j] - 1) + 1 = e[j]
      BY <1>1, <2>2
    <3> QED
      BY <2>2, <2>3, <2>6, <2>7, <3>1 DEF Good, st
  <2>9. /\ \A m \in e[j] - 1 .. e[j + 1] - 2 : Good(ns, m)
        /\ st[e[j + 1] - 1] \in Seq(Names)
        /\ Dropped(st[e[j + 1] - 1], 1, st[e[j] - 1])
    <3>1. Walked(ns, e[j])
      BY <2>2 DEF L
    <3>2. e[j + 1] <= Len(ns) + 1
      BY <1>1, <2>2 DEF L
    <3> QED
      BY <2>2, <2>8, <3>1, <3>2 DEF Walked, st
  <2>10. \A m \in i - 1 .. e[j + 1] - 2 : m \in i - 1 .. e[j] - 2 \/ m \in e[j] - 1 .. e[j + 1] - 2
    BY <1>1, <2>2
  <2>11. Dropped(st[e[j + 1] - 1], j + 1, st[i])
    BY <1>4, <2>3, <2>9, DroppedAgain
  <2> QED
    BY <2>3, <2>9, <2>10, <2>11
<1>8. n \in T
  <2> HIDE DEF T
  <2> QED
    BY <1>1, <1>6, <1>7, SetInduction
<1>9. /\ \A m \in i - 1 .. e[n] - 2 : Good(ns, m)
      /\ st[e[n] - 1] \in Seq(Names)
      /\ Dropped(st[e[n] - 1], n, st[i])
  BY <1>1, <1>8
<1>10. Dropped(st[e[n] - 1], 1, st[i - 1])
  BY <1>1, <1>4, <1>9, DroppedFirst DEF n
<1> QED
  BY <1>3, <1>9, <1>10 DEF st

LEMMA TreeIsInOrder ==
    ASSUME NEW ns \in Seq(Node), IsTreeInOrder(ns)
    PROVE  /\ InOrder(ns) /\ Stacks(ns)[Len(ns)] = <<>>
           /\ \A m \in 0 .. Len(ns) - 1 : Stacks(ns)[m] # <<>>
<1> DEFINE L == Len(ns)
           S == {d \in Nat : \A i \in 1 .. L : i + d > L => Walked(ns, i)}
<1>1. L \in Nat /\ L # 0 /\ 1 \in 1 .. L /\ After(ns)[1] = L + 1
  BY NodeFacts, EmptySeq DEF IsTreeInOrder
<1>2. 0 \in S
  BY <1>1
<1>3. ASSUME NEW d \in Nat, d \in S PROVE d + 1 \in S
  <2> SUFFICES ASSUME NEW i \in 1 .. L, i + (d + 1) > L PROVE Walked(ns, i)
    OBVIOUS
  <2>1. \A x \in i + 1 .. L : x \in 1 .. L /\ x + d > L
    BY <1>1
  <2>2. \A x \in i + 1 .. L : Walked(ns, x)
    BY <1>3, <2>1
  <2>3. \A j \in 1 .. Len(ns[i].kids) : ns[ChildAt(ns, i, j)].name = ns[i].kids[j]
    BY DEF IsTreeInOrder
  <2> QED
    BY <2>2, <2>3, WalkChildByChild
<1>4. Walked(ns, 1)
  <2>1. L \in S
    <3> HIDE DEF S
    <3> QED
      BY <1>1, <1>2, <1>3, SetInduction
  <2> QED
    BY <1>1, <2>1
<1>5. Stacks(ns)[0] \in Seq(Names) /\ Len(Stacks(ns)[0]) = 1 /\ Good(ns, 0)
  <2>1. \A x \in Names : <<x>> \in Seq(Names) /\ Len(<<x>>) = 1 /\ <<x>> # <<>> /\ Head(<<x>>) = x
    OBVIOUS
  <2>2. ns[1].name \in Names
    BY <1>1, NodeFacts DEF Names
  <2>3. Stacks(ns)[0] = <<ns[1].name>>
    BY StacksEquation
  <2>4. 0 + 1 = 1
    OBVIOUS
  <2> QED
    BY <2>1, <2>2, <2>3, <2>4 DEF Good
<1>6. /\ \A m \in 0 .. L - 1 : Good(ns, m)
      /\ Stacks(ns)[L] \in Seq(Names) /\ Dropped(Stacks(ns)[L], 1, Stacks(ns)[0])
  <2>1. 1 - 1 = 0 /\ (L + 1) - 2 = L - 1 /\ (L + 1) - 1 = L /\ L + 1 <= Len(ns) + 1
    BY <1>1
  <2>2. Good(ns, 1 - 1) /\ After(ns)[1] <= Len(ns) + 1
    BY <1>1, <1>5, <2>1
  <2>3. /\ \A m \in 1 - 1 .. After(ns)[1] - 2 : Good(ns, m)
        /\ Stacks(ns)[After(ns)[1] - 1] \in Seq(Names)
        /\ Dropped(Stacks(ns)[After(ns)[1] - 1], 1, Stacks(ns)[1 - 1])
    BY <1>4, <2>2 DEF Walked
  <2> HIDE DEF L
  <2> QED
    BY <1>1, <2>1, <2>3
<1>7. Stacks(ns)[L] = <<>>
  <2>1. Len(Stacks(ns)[L]) = 0
    BY <1>5, <1>6 DEF Dropped
  <2> QED
    BY <1>6, <2>1, EmptySeq
<1>8. ASSUME NEW m \in 1 .. L
      PROVE  Stacks(ns)[m - 1] # <<>> /\ Head(Stacks(ns)[m - 1]) = ns[m].name
  <2>1. m - 1 \in 0 .. L - 1 /\ (m - 1) + 1 = m
    BY <1>1
  <2> QED
    BY <1>6, <2>1 DEF Good
<1> QED
  BY <1>6, <1>7, <1>8 DEF InOrder, Good
-----------------------------------------------------------------------------
\* The text of a tree.

LEMMA LayoutEquation ==
    ASSUME NEW ns, NEW style, Len(ns) \in Nat
    PROVE  /\ Layout(ns, style)[0] = <<>>
           /\ \A m \in 1 .. Len(ns) :
                 Layout(ns, style)[m] = Layout(ns, style)[m - 1] \o Block(ns[m], style[m])
<1> DEFINE L == Len(ns)
           Put(m, s) == s \o Block(ns[m], style[m])
           Body(f, m) == IF m = 0 THEN <<>> ELSE Put(m, f[m - 1])
           S == {j \in Nat : \E f : f = [x \in 0 .. j |-> Body(f, x)]}
<1>1. Layout(ns, style) = CHOOSE f : f = [x \in 0 .. L |-> Body(f, x)]
  BY DEF Layout
<1> HIDE DEF Put
<1>2. 0 \in S
  <2> DEFINE f == [x \in 0 .. 0 |-> <<>>]
  <2>1. f = [x \in 0 .. 0 |-> Body(f, x)]
    OBVIOUS
  <2> HIDE DEF f
  <2> QED
    BY <2>1
<1>3. ASSUME NEW j \in Nat, j \in S PROVE j + 1 \in S
  <2>1. PICK f : f = [x \in 0 .. j |-> Body(f, x)]
    BY <1>3
  <2> DEFINE g == [x \in 0 .. j + 1 |-> IF x = j + 1 THEN Body(f, x) ELSE f[x]]
  <2>2. \A x \in 0 .. j : g[x] = f[x] /\ f[x] = Body(f, x)
    BY <2>1
  <2>3. g[j + 1] = Body(f, j + 1)
    OBVIOUS
  <2>4. \A x \in 0 .. j + 1 : x = j + 1 \/ x \in 0 .. j
    OBVIOUS
  <2>5. \A x \in 0 .. j + 1 : x # 0 => x - 1 \in 0 .. j
    OBVIOUS
  <2>6. g = [x \in 0 .. j + 1 |-> g[x]]
    OBVIOUS
  <2> HIDE DEF g
  <2>7. \A x \in 0 .. j + 1 : Body(g, x) = Body(f, x)
    BY <2>2, <2>5
  <2> HIDE DEF Body
  <2>8. \A x \in 0 .. j + 1 : g[x] = Body(g, x)
    BY <2>2, <2>3, <2>4, <2>7
  <2>9. g = [x \in 0 .. j + 1 |-> Body(g, x)]
    BY <2>6, <2>8
  <2> QED
    BY <2>9
<1>4. \E f : f = [x \in 0 .. L |-> Body(f, x)]
  <2>1. L \in S
    <3> HIDE DEF S
    <3> QED
      BY <1>2, <1>3, SetInduction
  <2> QED
    BY <2>1
<1> DEFINE u == Layout(ns, style)
<1> HIDE DEF u
<1>5. u = [x \in 0 .. L |-> Body(u, x)]
  BY <1>1, <1>4 DEF u
<1>6. \A x \in 0 .. L : u[x] = Body(u, x)
  BY <1>5
<1>7. u[0] = Body(u, 0) /\ \A j \in 1 .. L : u[j] = Body(u, j) /\ j # 0
  BY <1>6
<1> QED
  BY <1>7 DEF u, Put

\* The lines of a block.
LEMMA BlockLines ==
    ASSUME NEW node \in Node, NEW style \in Style
    PROVE  LET b == Len(style.before)
               n == Len(node.kids)
           IN  /\ b \in Nat /\ n \in Nat
               /\ Block(node, style) \in Seq(Names) /\ Len(Block(node, style)) = b + n + 3
               /\ \A x \in 1 .. b : Block(node, style)[x] = style.before[x]
               /\ Block(node, style)[b + 1] = node.name
               /\ Block(node, style)[b + 2] = style.number
               /\ \A j \in 1 .. n : Block(node, style)[b + 2 + j] = node.kids[j]
               /\ Block(node, style)[b + n + 3] = <<>>
<1> DEFINE before == style.before
           b == Len(before)
           kids == node.kids
           n == Len(kids)
           head == <<node.name, style.number>>
           empty == <<<<>>>>
           s2 == before \o head
           s3 == s2 \o kids
           s4 == s3 \o empty
<1>1. before \in Seq(Names) /\ kids \in Seq(Names) /\ node.name \in Names /\ style.number \in Names
  BY DEF Node, Style, Names
<1>2. head \in Seq(Names) /\ Len(head) = 2 /\ head[1] = node.name /\ head[2] = style.number
  BY <1>1
<1>3. <<>> \in Names /\ empty \in Seq(Names) /\ Len(empty) = 1 /\ empty[1] = <<>>
  <2>1. <<>> \in Names
    BY EmptySeq DEF Names
  <2>2. \A x \in Names : <<x>> \in Seq(Names) /\ Len(<<x>>) = 1 /\ <<x>>[1] = x
    OBVIOUS
  <2> QED
    BY <2>1, <2>2
<1>4. b \in Nat /\ n \in Nat
  BY <1>1, LenProperties
<1>5. Block(node, style) = s4
  BY DEF Block
<1>j. /\ s2 = before \o head /\ s3 = s2 \o kids /\ s4 = s3 \o empty
      /\ Len(before) = b /\ Len(kids) = n
  OBVIOUS
<1> HIDE DEF before, kids, head, empty, b, n, s2, s3, s4
<1>6. /\ s2 \in Seq(Names) /\ Len(s2) = b + 2
      /\ \A x \in 1 .. b + 2 : s2[x] = IF x <= b THEN before[x] ELSE head[x - b]
  <2>1. before \in Seq(Names) /\ head \in Seq(Names) /\ s2 = before \o head
    BY <1>1, <1>2, <1>j
  <2>2. Len(before) = b /\ Len(head) = 2
    BY <1>1, <1>2, <1>j
  <2>3. /\ s2 \in Seq(Names) /\ Len(s2) = Len(before) + Len(head)
        /\ \A x \in 1 .. Len(before) + Len(head) :
              s2[x] = IF x <= Len(before) THEN before[x] ELSE head[x - Len(before)]
    BY <2>1, ConcatProperties
  <2> QED
    BY <2>2, <2>3
<1>7. /\ s3 \in Seq(Names) /\ Len(s3) = b + 2 + n
      /\ \A x \in 1 .. b + 2 + n : s3[x] = IF x <= b + 2 THEN s2[x] ELSE kids[x - (b + 2)]
  <2>1. s2 \in Seq(Names) /\ kids \in Seq(Names) /\ s3 = s2 \o kids
    BY <1>1, <1>6, <1>j
  <2>2. Len(s2) = b + 2 /\ Len(kids) = n
    BY <1>1, <1>6, <1>j
  <2>3. /\ s3 \in Seq(Names) /\ Len(s3) = Len(s2) + Len(kids)
        /\ \A x \in 1 .. Len(s2) + Len(kids) :
              s3[x] = IF x <= Len(s2) THEN s2[x] ELSE kids[x - Len(s2)]
    BY <2>1, ConcatProperties
  <2> QED
    BY <2>2, <2>3
<1>8. /\ s4 \in Seq(Names) /\ Len(s4) = b + 2 + n + 1
      /\ \A x \in 1 .. b + 2 + n + 1 : s4[x] = IF x <= b + 2 + n THEN s3[x] ELSE empty[x - (b + 2 + n)]
  <2>1. s3 \in Seq(Names) /\ empty \in Seq(Names) /\ s4 = s3 \o empty
    BY <1>3, <1>7, <1>j
  <2>2. Len(s3) = b + 2 + n /\ Len(empty) = 1
    BY <1>3, <1>7, <1>j
  <2>3. /\ s4 \in Seq(Names) /\ Len(s4) = Len(s3) + Len(empty)
        /\ \A x \in 1 .. Len(s3) + Len(empty) :
              s4[x] = IF x <= Len(s3) THEN s3[x] ELSE empty[x - Len(s3)]
    BY <2>1, ConcatProperties
  <2> QED
    BY <2>2, <2>3
<1>9. Len(s4) = b + n + 3
  BY <1>4, <1>8
<1>10. \A x \in 1 .. b : s4[x] = before[x]
  <2> TAKE x \in 1 .. b
  <2>1. x \in 1 .. b + 2 /\ x \in 1 .. b + 2 + n /\ x \in 1 .. b + 2 + n + 1
        /\ x <= b /\ x <= b + 2 /\ x <= b + 2 + n
    BY <1>4
  <2> QED
    BY <1>6, <1>7, <1>8, <2>1
<1>11. s4[b + 1] = node.name /\ s4[b + 2] = style.number
  <2>1. \A x \in {1, 2} : /\ b + x \in 1 .. b + 2 /\ b + x \in 1 .. b + 2 + n /\ b + x \in 1 .. b + 2 + n + 1
                          /\ ~(b + x <= b) /\ b + x <= b + 2 /\ b + x <= b + 2 + n /\ (b + x) - b = x
    BY <1>4
  <2>2. \A x \in {1, 2} : s4[b + x] = head[x]
    BY <1>6, <1>7, <1>8, <2>1
  <2> QED
    BY <1>2, <2>2
<1>12. \A j \in 1 .. n : s4[b + 2 + j] = kids[j]
  <2> TAKE j \in 1 .. n
  <2>1. b + 2 + j \in 1 .. b + 2 + n /\ b + 2 + j \in 1 .. b + 2 + n + 1
        /\ ~(b + 2 + j <= b + 2) /\ b + 2 + j <= b + 2 + n /\ (b + 2 + j) - (b + 2) = j
    BY <1>4
  <2> QED
    BY <1>7, <1>8, <2>1
<1>13. s4[b + n + 3] = <<>>
  <2>1. b + n + 3 \in 1 .. b + 2 + n + 1 /\ ~(b + n + 3 <= b + 2 + n) /\ (b + n + 3) - (b + 2 + n) = 1
    BY <1>4
  <2> QED
    BY <1>3, <1>8, <2>1
<1> QED
  BY <1>4, <1>5, <1>8, <1>9, <1>10, <1>11, <1>12, <1>13 DEF b, n, before, kids

\* Block m of a text and what comes before it.
LEMMA TextLines ==
    ASSUME NEW ns \in Seq(Node), NEW style \in Seq(Style), Len(style) = Len(ns)
    PROVE  /\ \A m \in 0 .. Len(ns) : Layout(ns, style)[m] \in Seq(Names)
           /\ \A m \in 0 .. Len(ns) : Len(Layout(ns, style)[m]) \in Nat
           /\ Len(Layout(ns, style)[0]) = 0
           /\ \A m \in 1 .. Len(ns) :
                 LET p == Len(Layout(ns, style)[m - 1])
                     B == Block(ns[m], style[m])
                 IN  /\ Len(Layout(ns, style)[m]) = p + Len(B)
                     /\ p + Len(B) <= Len(Layout(ns, style)[Len(ns)])
                     /\ \A x \in 1 .. Len(B) : Layout(ns, style)[Len(ns)][p + x] = B[x]
<1> DEFINE L == Len(ns)
           t == Layout(ns, style)
           B(m) == Block(ns[m], style[m])
           S == {m \in Nat : m <= L => t[m] \in Seq(Names)}
<1>1. L \in Nat /\ \A m \in 1 .. L : ns[m] \in Node /\ style[m] \in Style
  BY NodeFacts, ElementOfSeq
<1>2. t[0] = <<>> /\ \A m \in 1 .. L : t[m] = t[m - 1] \o B(m)
  BY <1>1, LayoutEquation
<1>3. \A m \in 1 .. L : B(m) \in Seq(Names) /\ Len(B(m)) \in Nat
  BY <1>1, BlockLines, LenProperties
<1> HIDE DEF L, t, B
<1>4. 0 \in S
  BY <1>2, EmptySeq
<1>5. ASSUME NEW m \in Nat, m \in S PROVE m + 1 \in S
  <2> SUFFICES ASSUME m + 1 <= L PROVE t[m + 1] \in Seq(Names)
    OBVIOUS
  <2>1. m + 1 \in 1 .. L /\ (m + 1) - 1 = m /\ m <= L
    BY <1>1
  <2>2. t[m] \in Seq(Names) /\ B(m + 1) \in Seq(Names) /\ t[m + 1] = t[m] \o B(m + 1)
    BY <1>2, <1>3, <1>5, <2>1
  <2> QED
    BY <2>2, ConcatProperties
<1>6. \A m \in 0 .. L : t[m] \in Seq(Names) /\ Len(t[m]) \in Nat
  <2>1. \A m \in Nat : m \in S
    <3> HIDE DEF S
    <3> QED
      BY <1>4, <1>5, SetInduction
  <2>2. \A m \in 0 .. L : t[m] \in Seq(Names)
    BY <1>1, <2>1
  <2> QED
    BY <2>2, LenProperties
<1>7. ASSUME NEW m \in 1 .. L
      PROVE  /\ Len(t[m]) = Len(t[m - 1]) + Len(B(m))
             /\ \A x \in 1 .. Len(t[m - 1]) : t[m][x] = t[m - 1][x]
             /\ \A x \in 1 .. Len(B(m)) : t[m][Len(t[m - 1]) + x] = B(m)[x]
  <2>1. m - 1 \in 0 .. L
    BY <1>1
  <2> DEFINE u == t[m - 1]
             v == B(m)
  <2>2. u \in Seq(Names) /\ v \in Seq(Names) /\ t[m] = u \o v /\ Len(u) \in Nat /\ Len(v) \in Nat
    BY <1>2, <1>3, <1>6, <2>1
  <2> HIDE DEF u, v
  <2>3. /\ Len(u \o v) = Len(u) + Len(v)
        /\ \A x \in 1 .. Len(u) + Len(v) : (u \o v)[x] = IF x <= Len(u) THEN u[x] ELSE v[x - Len(u)]
    BY <2>2, ConcatProperties
  <2>4. \A x \in 1 .. Len(u) : x \in 1 .. Len(u) + Len(v) /\ x <= Len(u)
    BY <2>2
  <2>5. \A x \in 1 .. Len(v) : Len(u) + x \in 1 .. Len(u) + Len(v) /\ ~(Len(u) + x <= Len(u))
                               /\ (Len(u) + x) - Len(u) = x
    BY <2>2
  <2>6. /\ Len(t[m]) = Len(u) + Len(v)
        /\ \A x \in 1 .. Len(u) : t[m][x] = u[x]
        /\ \A x \in 1 .. Len(v) : t[m][Len(u) + x] = v[x]
    BY <2>2, <2>3, <2>4, <2>5
  <2> QED
    BY <2>6 DEF u, v
\* The text so far stays as it is.
<1>8. ASSUME NEW m \in 0 .. L
      PROVE  Len(t[m]) <= Len(t[L]) /\ \A x \in 1 .. Len(t[m]) : t[L][x] = t[m][x]
  <2> DEFINE R == {d \in Nat : m + d <= L => /\ Len(t[m]) <= Len(t[m + d])
                                             /\ \A x \in 1 .. Len(t[m]) : t[m + d][x] = t[m][x]}
  <2>1. 0 \in R
    BY <1>1, <1>6
  <2>2. ASSUME NEW d \in Nat, d \in R PROVE d + 1 \in R
    <3> SUFFICES ASSUME m + (d + 1) <= L
                 PROVE  /\ Len(t[m]) <= Len(t[m + (d + 1)])
                        /\ \A x \in 1 .. Len(t[m]) : t[m + (d + 1)][x] = t[m][x]
      OBVIOUS
    <3>1. /\ m + (d + 1) \in 1 .. L /\ m + (d + 1) - 1 = m + d /\ m + d <= L /\ m + d \in 0 .. L
          /\ m \in 0 .. L
      BY <1>1
    <3>2. Len(t[m]) <= Len(t[m + d]) /\ \A x \in 1 .. Len(t[m]) : t[m + d][x] = t[m][x]
      BY <2>2, <3>1
    <3> DEFINE q == m + (d + 1)
    <3>q. q \in 1 .. L /\ q - 1 = m + d
      BY <3>1
    <3> HIDE DEF q
    <3>3. /\ Len(t[q]) = Len(t[m + d]) + Len(B(q))
          /\ \A x \in 1 .. Len(t[m + d]) : t[q][x] = t[m + d][x]
          /\ Len(B(q)) \in Nat
      BY <1>3, <1>7, <3>q
    <3>4. Len(t[m]) \in Nat /\ Len(t[m + d]) \in Nat
      BY <1>6, <3>1
    <3>5. \A x \in 1 .. Len(t[m]) : x \in 1 .. Len(t[m + d])
      <4>1. \A x, y \in Nat : x <= y => \A z \in 1 .. x : z \in 1 .. y
        OBVIOUS
      <4> QED
        BY <3>2, <3>4, <4>1
    <3>6. Len(t[m]) <= Len(t[q])
      <4>1. \A x, y, z \in Nat : x <= y => x <= y + z
        OBVIOUS
      <4> QED
        BY <3>2, <3>3, <3>4, <4>1
    <3> QED
      BY <3>2, <3>3, <3>5, <3>6 DEF q
  <2>3. L - m \in Nat /\ m + (L - m) = L
    BY <1>1
  <2>4. L - m \in R
    <3> HIDE DEF R
    <3> QED
      BY <2>1, <2>2, <2>3, SetInduction
  <2> QED
    BY <1>1, <2>3, <2>4
<1>9. ASSUME NEW m \in 1 .. L
      PROVE  /\ Len(t[m - 1]) + Len(B(m)) <= Len(t[L])
             /\ \A x \in 1 .. Len(B(m)) : t[L][Len(t[m - 1]) + x] = B(m)[x]
  <2>1. m \in 0 .. L /\ m - 1 \in 0 .. L
    BY <1>1
  <2>2. Len(t[m - 1]) \in Nat /\ Len(B(m)) \in Nat
    BY <1>3, <1>6, <2>1
  <2>3. \A x \in 1 .. Len(B(m)) : Len(t[m - 1]) + x \in 1 .. Len(t[m])
    BY <1>7, <2>2
  <2> QED
    BY <1>7, <1>8, <2>1, <2>3
<1>10. Len(t[0]) = 0
  BY <1>2, EmptySeq
<1> QED
  BY <1>6, <1>7, <1>9, <1>10 DEF L, t, B
-----------------------------------------------------------------------------
\* A file that describes a tree is read block by block.

\* How many lines come before block m, how many of its own before the name,
\* and how many names of children it has.
Begin(ns, style, m) == Len(Layout(ns, style)[m - 1])
Comments(style, m) == Len(style[m].before)
Children(ns, m) == Len(ns[m].kids)
NameAt(ns, style, m) == Begin(ns, style, m) + Comments(style, m) + 1

LEMMA FileLines ==
    ASSUME file \in Files, NEW ns, NEW style, Describes(file, ns, style),
           NEW m \in 1 .. Len(ns)
    PROVE  LET p == Begin(ns, style, m)
               b == Comments(style, m)
               n == Children(ns, m)
               i == NameAt(ns, style, m)
           IN
           /\ p \in Nat /\ b \in Nat /\ n \in Nat /\ Last \in Nat /\ i + n + 1 <= Last
           /\ i + n + 2 = Len(Layout(ns, style)[m])
           /\ \A x \in 1 .. b : Line(p + x) = style[m].before[x]
           /\ Line(i) = ns[m].name /\ Line(i + 1) = style[m].number
           /\ \A j \in 1 .. n : Line(i + 1 + j) = ns[m].kids[j]
           /\ i + n + 2 <= Last => Line(i + n + 2) = <<>>
           /\ \A l \in p + 1 .. i + n + 2 : l <= Last => ~TooLong(l)
<1> DEFINE p == Begin(ns, style, m)
           b == Comments(style, m)
           n == Children(ns, m)
           i == NameAt(ns, style, m)
           L == Len(ns)
           text == Layout(ns, style)[L]
           B == Block(ns[m], style[m])
           T == Len(text)
<1>1. /\ ns \in Seq(Node) /\ style \in Seq(Style) /\ Len(style) = L /\ file.newline
      /\ Len(file.lines) >= T - 1
      /\ \A l \in 1 .. T : /\ Len(text[l]) + 1 < BUFF_SIZE - 1
                           /\ l <= Len(file.lines) => file.lines[l] = text[l]
  BY DEF Describes
<1>2. L \in Nat /\ ns[m] \in Node /\ style[m] \in Style /\ m \in 1 .. L /\ m - 1 \in 0 .. L
  BY <1>1, NodeFacts, ElementOfSeq
<1>3. /\ b \in Nat /\ n \in Nat /\ Len(B) = b + n + 3
      /\ \A x \in 1 .. b : B[x] = style[m].before[x]
      /\ B[b + 1] = ns[m].name /\ B[b + 2] = style[m].number
      /\ \A j \in 1 .. n : B[b + 2 + j] = ns[m].kids[j]
      /\ B[b + n + 3] = <<>>
  BY <1>2, BlockLines DEF Comments, Children
<1>4. /\ p \in Nat /\ T \in Nat /\ p + Len(B) <= T
      /\ Len(Layout(ns, style)[m]) = p + Len(B)
      /\ \A x \in 1 .. Len(B) : text[p + x] = B[x]
  <2>1. L \in 0 .. L
    BY <1>2
  <2> QED
    BY <1>1, <1>2, <2>1, TextLines DEF Begin
<1>5. Last \in Nat /\ Last = Len(file.lines) /\ \A l \in 1 .. Last : Line(l) = file.lines[l]
  BY <1>1, LineFacts DEF Line, NoNewline, Last
<1>i. i = p + b + 1
  BY DEF NameAt
<1>t. T = Len(text) /\ m \in 1 .. L
  BY <1>2
<1> HIDE DEF p, b, n, i, L, text, B, T
<1>6. p \in Nat /\ b \in Nat /\ n \in Nat /\ T \in Nat /\ Last \in Nat /\ i = p + b + 1
      /\ p + b + n + 3 <= T /\ Last >= T - 1
  BY <1>1, <1>3, <1>4, <1>5, <1>i
<1>7. i + n + 1 <= Last /\ i + n + 2 = p + (b + n + 3) /\ i \in Nat
  BY <1>6
<1>8. ASSUME NEW x \in 1 .. b + n + 3, p + x <= Last
      PROVE  Line(p + x) = B[x] /\ ~TooLong(p + x)
  <2>1. p + x \in 1 .. T /\ p + x \in 1 .. Last /\ x \in 1 .. Len(B)
    <3>1. p + x \in 1 .. T /\ p + x \in 1 .. Last
      BY <1>6, <1>8
    <3>2. x \in 1 .. Len(B)
      BY <1>3
    <3> QED
      BY <3>1, <3>2
  <2>2. file.lines[p + x] = text[p + x] /\ text[p + x] = B[x] /\ Len(text[p + x]) + 1 < BUFF_SIZE - 1
    <3>1. text[p + x] = B[x]
      BY <1>4, <2>1
    <3>2. p + x \in 1 .. T /\ p + x <= Len(file.lines)
      BY <1>5, <2>1
    <3> QED
      BY <1>1, <3>1, <3>2
  <2>3. file.lines[p + x] \in Names /\ Len(file.lines[p + x]) \in Nat
    BY <2>1, LineFacts, LenProperties
  <2>4. ~NoNewline(p + x)
    BY <1>1 DEF NoNewline
  <2> DEFINE l == p + x
             len == Len(file.lines[l])
  <2>5. ~TooLong(l)
    <3>1. len + 1 < BUFF_SIZE - 1 /\ len \in Nat /\ BUFF_SIZE \in Nat
      BY <2>2, <2>3, TreeFileAssumption
    <3>2. TooLong(l) <=> len + 1 >= BUFF_SIZE - 1
      BY <2>4 DEF TooLong
    <3> HIDE DEF l, len
    <3> QED
      BY <3>1, <3>2
  <2> QED
    BY <1>5, <2>1, <2>2, <2>5
<1>9. \A x \in 1 .. b + n + 2 : x \in 1 .. b + n + 3 /\ p + x <= Last
  BY <1>6
<1>10. \A x \in 1 .. b : Line(p + x) = style[m].before[x]
  <2> TAKE x \in 1 .. b
  <2>1. x \in 1 .. b + n + 2
    BY <1>6
  <2> QED
    BY <1>3, <1>8, <1>9, <2>1
<1>11. Line(i) = ns[m].name /\ Line(i + 1) = style[m].number
  <2>1. b + 1 \in 1 .. b + n + 2 /\ b + 2 \in 1 .. b + n + 2 /\ p + (b + 1) = i /\ p + (b + 2) = i + 1
    BY <1>6
  <2> QED
    BY <1>3, <1>8, <1>9, <2>1
<1>12. \A j \in 1 .. n : Line(i + 1 + j) = ns[m].kids[j]
  <2> TAKE j \in 1 .. n
  <2>1. b + 2 + j \in 1 .. b + n + 2 /\ p + (b + 2 + j) = i + 1 + j
    BY <1>6
  <2> QED
    BY <1>3, <1>8, <1>9, <2>1
<1>13. i + n + 2 <= Last => Line(i + n + 2) = <<>>
  <2>1. b + n + 3 \in 1 .. b + n + 3 /\ p + (b + n + 3) = i + n + 2
    BY <1>6
  <2> QED
    BY <1>3, <1>8, <2>1
<1>14. \A l \in p + 1 .. i + n + 2 : l <= Last => ~TooLong(l)
  <2> SUFFICES ASSUME NEW l \in p + 1 .. i + n + 2, l <= Last PROVE ~TooLong(l)
    OBVIOUS
  <2>1. l - p \in 1 .. b + n + 3 /\ p + (l - p) = l
    BY <1>6
  <2> QED
    BY <1>8, <2>1
<1>15. i + n + 2 = Len(Layout(ns, style)[m])
  BY <1>3, <1>4, <1>7
<1> QED
  BY <1>6, <1>7, <1>10, <1>11, <1>12, <1>13, <1>14, <1>15 DEF p, b, n, i

\* The reader is before block m.
Before(ns, style, m) ==
    pos = Begin(ns, style, m) /\ (expected # <<>> => Head(expected) = ns[m].name)

\* The next block is found, it is the only one, and it is the next node.
LEMMA BlockFound ==
    ASSUME file \in Files, NEW ns, NEW style, Describes(file, ns, style),
           NEW m \in 1 .. Len(ns), Before(ns, style, m)
    PROVE  LET i == NameAt(ns, style, m)
               n == Children(ns, m)
           IN
           /\ i \in pos + 1 .. Last /\ n \in 0 .. Last /\ IsBlockStart(i) /\ IsBlock(i, n)
           /\ Parsed(i, n) = ns[m]
           /\ \A other \in pos + 1 .. Last : IsBlockStart(other) => other = i
           /\ \A other : IsBlock(i, other) => other = n
           /\ i + n + 2 = Len(Layout(ns, style)[m])
<1> DEFINE b == Comments(style, m)
           n == Children(ns, m)
           i == NameAt(ns, style, m)
           before == style[m].before
<1>1. /\ pos \in Nat /\ b \in Nat /\ n \in Nat /\ Last \in Nat /\ i + n + 1 <= Last
      /\ i + n + 2 = Len(Layout(ns, style)[m])
      /\ \A x \in 1 .. b : Line(pos + x) = before[x]
      /\ Line(i) = ns[m].name /\ Line(i + 1) = style[m].number
      /\ \A j \in 1 .. n : Line(i + 1 + j) = ns[m].kids[j]
      /\ i + n + 2 <= Last => Line(i + n + 2) = <<>>
      /\ \A l \in pos + 1 .. i + n + 2 : l <= Last => ~TooLong(l)
  BY FileLines DEF Before
<1>2. /\ ns \in Seq(Node) /\ style \in Seq(Style) /\ IsName(ns[m].name)
      /\ \A j \in 1 .. n : IsName(ns[m].kids[j])
      /\ style[m].number # <<>> /\ nr_children(style[m].number) = n
      /\ \A l \in 1 .. b : before[l] # <<>> => before[l][1] = "#"
  BY DEF Describes, Comments, Children
<1>3. /\ ns[m] \in Node /\ ns[m].name \in Names /\ ns[m].kids \in Seq(Names)
      /\ \A j \in 1 .. n : ns[m].kids[j] \in Names
  <2>1. ns[m] \in Node /\ ns[m].name \in Names /\ ns[m].kids \in Seq(Names)
    BY <1>2, NodeFacts DEF Names
  <2> QED
    BY <2>1, ElementOfSeq DEF Children
<1>4. i = pos + b + 1
  BY DEF NameAt, Before
<1>k. n = Len(ns[m].kids)
  BY DEF Children
<1> HIDE DEF b, n, i, before
<1>5. /\ i \in Nat /\ i <= Last /\ i + 1 <= Last /\ i \in pos + 1 .. Last /\ n \in 0 .. Last
      /\ i + 2 + n = i + n + 2
      /\ \A l \in pos + 1 .. i - 1 : l - pos \in 1 .. b /\ pos + (l - pos) = l
  <2>1. pos \in Nat /\ b \in Nat /\ n \in Nat /\ Last \in Nat /\ i + n + 1 <= Last
    BY <1>1
  <2> QED
    BY <1>4, <2>1
<1>6. NonEmpty(i) /\ ~IsComment(i)
  BY <1>1, <1>2, <1>5 DEF NonEmpty, IsComment, IsName
<1>7. \A l \in pos + 1 .. i - 1 : NonEmpty(l) => IsComment(l)
  <2> SUFFICES ASSUME NEW l \in pos + 1 .. i - 1, NonEmpty(l) PROVE IsComment(l)
    OBVIOUS
  <2>1. l - pos \in 1 .. b /\ pos + (l - pos) = l
    BY <1>5
  <2>2. Line(l) = before[l - pos]
    BY <1>1, <2>1
  <2> QED
    BY <1>2, <2>1, <2>2 DEF NonEmpty, IsComment
<1>8. IsBlockStart(i)
  BY <1>5, <1>6, <1>7 DEF IsBlockStart
<1>9. IsBlock(i, n)
  <2>1. expected # <<>> => SameName(Head(expected), Line(i))
    <3>1. SubSeq(ns[m].name, 1, Len(ns[m].name)) = ns[m].name /\ Len(ns[m].name) < NODE_NAME_SIZE
      BY <1>2, <1>3 DEF IsName, Names
    <3>2. SameName(ns[m].name, ns[m].name)
      BY <3>1 DEF SameName
    <3> QED
      BY <1>1, <3>2 DEF Before
  <2>2. NonEmpty(i + 1) /\ n = nr_children(Line(i + 1))
    BY <1>1, <1>2, <1>5 DEF NonEmpty
  <2>3. \A l \in i + 2 .. i + 1 + n : NonEmpty(l)
    <3> SUFFICES ASSUME NEW l \in i + 2 .. i + 1 + n PROVE NonEmpty(l)
      OBVIOUS
    <3>1. l - (i + 1) \in 1 .. n /\ i + 1 + (l - (i + 1)) = l /\ l <= Last
      BY <1>1, <1>5
    <3>2. Line(l) = ns[m].kids[l - (i + 1)]
      BY <1>1, <3>1
    <3> QED
      BY <1>2, <3>1, <3>2 DEF NonEmpty, IsName
  <2>4. ~NonEmpty(i + 2 + n)
    BY <1>1, <1>5 DEF NonEmpty
  <2>5. \A l \in pos + 1 .. i + 2 + n : l <= Last => ~TooLong(l)
    BY <1>1, <1>5
  <2> QED
    BY <2>1, <2>2, <2>3, <2>4, <2>5 DEF IsBlock
<1>10. Parsed(i, n) = ns[m]
  <2>1. Stored(Line(i)) = ns[m].name
    BY <1>1, <1>2, <1>3, StoredFits DEF IsName
  <2>2. \A j \in 1 .. n : Stored(Line(i + 1 + j)) = ns[m].kids[j]
    <3> TAKE j \in 1 .. n
    <3>1. Line(i + 1 + j) = ns[m].kids[j] /\ IsName(ns[m].kids[j]) /\ ns[m].kids[j] \in Names
      BY <1>1, <1>2, <1>3
    <3> QED
      BY <3>1, StoredFits DEF IsName
  <2>3. Kids(i, n) = ns[m].kids
    <3> DEFINE k == ns[m].kids
    <3>1. k \in [1 .. n -> Names]
      BY <1>3, <1>k, LenProperties
    <3>2. Kids(i, n) = [j \in 1 .. n |-> k[j]]
      BY <2>2 DEF Kids
    <3> HIDE DEF k
    <3>3. Kids(i, n) = k
      BY <3>1, <3>2
    <3> QED
      BY <3>3 DEF k
  <2> QED
    BY <1>3, <2>1, <2>3 DEF Parsed, Node
<1>11. ASSUME NEW other \in pos + 1 .. Last, IsBlockStart(other) PROVE other = i
  <2>1. CASE other < i
    <3>1. other \in pos + 1 .. i - 1
      BY <1>1, <1>5, <2>1
    <3> QED
      BY <1>7, <1>11, <3>1 DEF IsBlockStart
  <2>2. CASE other > i
    <3>1. i \in pos + 1 .. other - 1
      BY <1>1, <1>5, <2>2
    <3> QED
      BY <1>6, <1>11, <3>1 DEF IsBlockStart
  <2> QED
    BY <1>1, <1>5, <2>1, <2>2
<1>12. \A other : IsBlock(i, other) => other = n
  BY <1>1, <1>2 DEF IsBlock
<1> QED
  BY <1>1, <1>5, <1>8, <1>9, <1>10, <1>11, <1>12 DEF i, n

\* Nodes that agree expect the same.
LEMMA StacksAgree ==
    ASSUME NEW u \in Seq(Node), NEW v \in Seq(Node), NEW k \in Nat,
           0 < k, k <= Len(u), k <= Len(v), \A m \in 1 .. k : u[m] = v[m]
    PROVE  Stacks(u)[k] = Stacks(v)[k]
<1> DEFINE S == {m \in Nat : m <= k => Stacks(u)[m] = Stacks(v)[m]}
<1>1. Len(u) \in Nat /\ Len(v) \in Nat /\ 1 \in 1 .. k
  BY NodeFacts
<1>2. 0 \in S
  BY <1>1, StacksEquation
<1>3. ASSUME NEW m \in Nat, m \in S PROVE m + 1 \in S
  <2> SUFFICES ASSUME m + 1 <= k PROVE Stacks(u)[m + 1] = Stacks(v)[m + 1]
    OBVIOUS
  <2>1. /\ m + 1 \in 1 .. k /\ m + 1 \in 1 .. Len(u) /\ m + 1 \in 1 .. Len(v)
        /\ (m + 1) - 1 = m /\ m <= k
    BY <1>1
  <2>2. Stacks(u)[m] = Stacks(v)[m] /\ u[m + 1] = v[m + 1]
    BY <1>3, <2>1
  <2>3. /\ Stacks(u)[m + 1] = u[m + 1].kids \o Tail(Stacks(u)[m])
        /\ Stacks(v)[m + 1] = v[m + 1].kids \o Tail(Stacks(v)[m])
    BY <2>1, StacksEquation
  <2> QED
    BY <2>2, <2>3
<1>4. k \in S
  <2> HIDE DEF S
  <2> QED
    BY <1>2, <1>3, SetInduction
<1> QED
  BY <1>4

\* The nodes read are the first ones of a tree, and the reader is before the
\* block of the next one.
ReadSoFar(ns, style) ==
    /\ Len(nodes) <= Len(ns) /\ \A m \in 1 .. Len(nodes) : nodes[m] = ns[m]
    /\ status \in {"reading", "tree"}
    /\ status = "reading" =>
          Len(nodes) < Len(ns) /\ pos = Begin(ns, style, Len(nodes) + 1)
    /\ status = "tree" => Len(nodes) = Len(ns)

\* A file that describes a tree is read without an error.
LegalInv == Describes(file, file.tree, file.style) => ReadSoFar(file.tree, file.style)

LEMMA LegalBefore ==
    ASSUME OrderInv, status = "reading", NEW ns, NEW style, Describes(file, ns, style),
           ReadSoFar(ns, style)
    PROVE  Len(nodes) + 1 \in 1 .. Len(ns) /\ Before(ns, style, Len(nodes) + 1)
<1> DEFINE L == Len(nodes)
           m == L + 1
<1>1. ns \in Seq(Node) /\ IsTreeInOrder(ns) /\ Len(ns) \in Nat
  BY NodeFacts DEF Describes
<1>2. nodes \in Seq(Node) /\ L \in Nat
  <2>1. nodes \in Seq(Node)
    BY DEF OrderInv, TypeOK
  <2> QED
    BY <2>1, NodeFacts
<1>3. L < Len(ns) /\ pos = Begin(ns, style, m) /\ \A l \in 1 .. L : nodes[l] = ns[l]
  BY DEF ReadSoFar
<1>4. m \in 1 .. Len(ns) /\ m - 1 = L /\ L <= Len(ns)
  BY <1>1, <1>2, <1>3
<1>5. ASSUME expected # <<>> PROVE Head(expected) = ns[m].name
  <2>1. nodes # <<>> /\ expected = Stacks(nodes)[L]
    BY <1>5 DEF OrderInv
  <2>2. 0 < L
    BY <1>2, <2>1, EmptySeq
  <2>3. Stacks(nodes)[L] = Stacks(ns)[L]
    BY <1>1, <1>2, <1>3, <1>4, <2>2, StacksAgree
  <2>4. InOrder(ns)
    BY <1>1, TreeIsInOrder
  <2> HIDE DEF m
  <2> QED
    BY <1>4, <2>1, <2>3, <2>4 DEF InOrder
<1> QED
  BY <1>3, <1>4, <1>5 DEF Before

\* The next step reads the next node.
LEMMA LegalParse ==
    ASSUME OrderInv, NEW ns, NEW style, Describes(file, ns, style), ReadSoFar(ns, style), ParseNode
    PROVE  /\ Len(nodes') <= Len(ns) /\ \A m \in 1 .. Len(nodes') : nodes'[m] = ns[m]
           /\ status' \in {"reading", "tree"} /\ file' = file
           /\ status' = "reading" =>
                 Len(nodes') < Len(ns) /\ pos' = Begin(ns, style, Len(nodes') + 1)
           /\ status' = "tree" => Len(nodes') = Len(ns)
<1>1. PICK i \in pos + 1 .. Last, n \in 0 .. Last :
          /\ IsBlockStart(i) /\ IsBlock(i, n)
          /\ nodes' = Append(nodes, Parsed(i, n))
          /\ expected' = Remaining(Kids(i, n))
          /\ status' = IF Remaining(Kids(i, n)) = <<>> THEN "tree" ELSE "reading"
          /\ pos' = IF i + 2 + n > Last THEN Last ELSE i + 2 + n
          /\ file' = file /\ status = "reading"
  BY ParseStep
<1> DEFINE m == Len(nodes) + 1
<1>2. file \in Files /\ m \in 1 .. Len(ns) /\ Before(ns, style, m)
  BY <1>1, LegalBefore DEF OrderInv
<1>3. ns \in Seq(Node) /\ style \in Seq(Style) /\ IsTreeInOrder(ns) /\ Len(ns) \in Nat
  BY NodeFacts DEF Describes
<1>4. nodes \in Seq(Node) /\ Len(nodes) \in Nat
  <2>1. nodes \in Seq(Node)
    BY DEF OrderInv, TypeOK
  <2> QED
    BY <2>1, NodeFacts
<1>5. Parsed(i, n) = ns[m] /\ i + n + 2 = Len(Layout(ns, style)[m])
  <2> HIDE DEF m
  <2>1. i = NameAt(ns, style, m) /\ n = Children(ns, m)
    BY <1>1, <1>2, BlockFound
  <2> QED
    BY <1>2, <2>1, BlockFound
<1>6. /\ Len(nodes') = m /\ nodes' # <<>> /\ nodes' \in Seq(Node)
      /\ \A l \in 1 .. m : nodes'[l] = ns[l]
  <2>1. ns[m] \in Node
    BY <1>2, <1>3, ElementOfSeq
  <2>2. /\ Len(nodes') = m /\ nodes' \in Seq(Node) /\ nodes'[m] = ns[m]
        /\ \A l \in 1 .. Len(nodes) : nodes'[l] = nodes[l]
    BY <1>1, <1>4, <1>5, <2>1, AppendProperties
  <2>3. \A l \in 1 .. m : l \in 1 .. Len(nodes) \/ l = m
    BY <1>4
  <2>4. \A l \in 1 .. Len(nodes) : nodes[l] = ns[l]
    BY DEF ReadSoFar
  <2>5. nodes' # <<>>
    BY <1>4, <2>2, EmptySeq
  <2> QED
    BY <2>2, <2>3, <2>4, <2>5
<1>7. expected' = Stacks(ns)[m]
  <2>1. OrderInv'
    BY ParseOrder
  <2>2. expected' = Stacks(nodes')[m]
    BY <1>6, <2>1 DEF OrderInv
  <2>3. m \in Nat /\ 0 < m /\ m <= Len(nodes') /\ m <= Len(ns)
    BY <1>2, <1>3, <1>4, <1>6
  <2> HIDE DEF m
  <2>4. Stacks(nodes')[m] = Stacks(ns)[m]
    BY <1>3, <1>6, <2>3, StacksAgree
  <2> QED
    BY <2>2, <2>4
<1>8. status' = IF Stacks(ns)[m] = <<>> THEN "tree" ELSE "reading"
  BY <1>1, <1>7
<1>9. m = Len(ns) \/ m \in 0 .. Len(ns) - 1
  BY <1>2, <1>3
<1>10. Stacks(ns)[m] = <<>> <=> m = Len(ns)
  <2> HIDE DEF m
  <2>1. /\ Stacks(ns)[Len(ns)] = <<>>
        /\ \A l \in 0 .. Len(ns) - 1 : Stacks(ns)[l] # <<>>
    BY <1>3, TreeIsInOrder
  <2>2. m \in 0 .. Len(ns) - 1 => m # Len(ns)
    BY <1>3
  <2> QED
    BY <1>9, <2>1, <2>2
<1>11. ASSUME status' = "reading" PROVE m < Len(ns) /\ pos' = Begin(ns, style, m + 1)
  <2>1. m < Len(ns) /\ m + 1 \in 1 .. Len(ns) /\ (m + 1) - 1 = m
    BY <1>2, <1>3, <1>8, <1>9, <1>10, <1>11
  <2>2. i + n + 2 = Begin(ns, style, m + 1)
    BY <1>5, <2>1 DEF Begin
  <2> DEFINE e == Begin(ns, style, m + 1)
             b == Comments(style, m + 1)
             k == Children(ns, m + 1)
  <2>3. e \in Nat /\ b \in Nat /\ k \in Nat /\ Last \in Nat /\ NameAt(ns, style, m + 1) + k + 1 <= Last
    BY <1>2, <2>1, FileLines
  <2>4. NameAt(ns, style, m + 1) = e + b + 1
    BY DEF NameAt
  <2>5. i \in Int /\ n \in Int
    BY <2>3
  <2> HIDE DEF e, b, k
  <2>6. e <= Last
    BY <2>3, <2>4
  <2>7. i + n + 2 = e
    BY <2>2 DEF e
  <2>8. i + 2 + n = e
    BY <2>5, <2>7
  <2>9. pos' = e
    BY <1>1, <2>3, <2>6, <2>8
  <2> QED
    BY <2>1, <2>9 DEF e
<1>12. Len(nodes') <= Len(ns)
  BY <1>2, <1>3, <1>6
<1> QED
  BY <1>1, <1>6, <1>8, <1>10, <1>11, <1>12

\* There is no other step.
LEMMA LegalOnly ==
    ASSUME OrderInv, NEW ns, NEW style, Describes(file, ns, style), ReadSoFar(ns, style),
           status = "reading"
    PROVE  ~Reject /\ ~EmptyFile
<1> DEFINE m == Len(nodes) + 1
           i == NameAt(ns, style, m)
           n == Children(ns, m)
<1>1. file \in Files /\ m \in 1 .. Len(ns) /\ Before(ns, style, m)
  BY LegalBefore DEF OrderInv
<1>2. i \in pos + 1 .. Last /\ n \in 0 .. Last /\ IsBlockStart(i) /\ IsBlock(i, n)
  <2> HIDE DEF m
  <2> QED
    BY <1>1, BlockFound
<1> HIDE DEF i, n
<1>3. ~AtEnd
  BY <1>2 DEF AtEnd
<1> QED
  BY <1>2, <1>3 DEF Reject, EmptyFile

\* A step from a state in which file.tree has been read so far.
LEMMA LegalStep == OrderInv /\ LegalInv /\ [Next]_vars => LegalInv'
<1> SUFFICES ASSUME OrderInv, LegalInv, [Next]_vars PROVE LegalInv'
  OBVIOUS
<1>1. PICK ns, style : ns = file.tree /\ style = file.style
  OBVIOUS
<1>2. file' = file
  BY DEF Next, ParseNode, Reject, EmptyFile, vars
<1>3. Describes(file', file'.tree, file'.style) = Describes(file, ns, style)
  BY <1>1, <1>2
<1>4. SUFFICES ASSUME Describes(file, ns, style)
               PROVE  /\ Len(nodes') <= Len(ns) /\ \A m \in 1 .. Len(nodes') : nodes'[m] = ns[m]
                      /\ status' \in {"reading", "tree"}
                      /\ status' = "reading" =>
                            Len(nodes') < Len(ns) /\ pos' = Begin(ns, style, Len(nodes') + 1)
                      /\ status' = "tree" => Len(nodes') = Len(ns)
  BY <1>1, <1>2, <1>3 DEF LegalInv, ReadSoFar
<1>5. ReadSoFar(ns, style)
  BY <1>1, <1>4 DEF LegalInv
<1>6. CASE ParseNode
  BY <1>4, <1>5, <1>6, LegalParse
<1>7. CASE Reject \/ EmptyFile
  <2>1. status = "reading"
    BY <1>7 DEF Reject, EmptyFile
  <2> QED
    BY <1>4, <1>5, <1>7, <2>1, LegalOnly
<1>8. CASE UNCHANGED vars
  BY <1>5, <1>8 DEF ReadSoFar, vars
<1> QED
  BY <1>6, <1>7, <1>8 DEF Next

\* A file that describes a tree is read as that tree, and never rejected.
THEOREM LegalFilesAreRead == Spec => []LegalAccepted
<1>1. Init /\ OrderInv => LegalInv
  <2> SUFFICES ASSUME Init, OrderInv, NEW ns, NEW style, ns = file.tree, style = file.style,
                      Describes(file, ns, style)
               PROVE  ReadSoFar(ns, style)
    BY DEF LegalInv
  <2>1. ns \in Seq(Node) /\ style \in Seq(Style) /\ Len(style) = Len(ns) /\ ns # <<>>
    BY DEF Describes, IsTreeInOrder
  <2>2. Len(ns) \in Nat /\ Len(ns) # 0
    BY <2>1, NodeFacts, EmptySeq
  <2>3. nodes = <<>> /\ pos = 0 /\ status = "reading"
    BY DEF Init
  <2>4. Len(nodes) = 0
    BY <2>3
  <2>5. Begin(ns, style, 1) = 0
    <3>1. Len(Layout(ns, style)[0]) = 0
      BY <2>1, TextLines
    <3>2. 1 - 1 = 0
      OBVIOUS
    <3> QED
      BY <3>1, <3>2 DEF Begin
  <2> QED
    BY <2>2, <2>3, <2>4, <2>5 DEF ReadSoFar
<1>2. OrderInv /\ LegalInv => LegalAccepted
  <2> SUFFICES ASSUME OrderInv, NEW ns, NEW style, ns = file.tree, style = file.style,
                      ReadSoFar(ns, style), Describes(file, ns, style), status # "reading"
               PROVE  status = "tree" /\ nodes = ns
    BY DEF LegalInv, LegalAccepted
  <2>1. status = "tree" /\ Len(nodes) = Len(ns) /\ \A m \in 1 .. Len(nodes) : nodes[m] = ns[m]
    BY DEF ReadSoFar
  <2>2. nodes \in Seq(Node) /\ ns \in Seq(Node)
    BY DEF OrderInv, TypeOK, Describes
  <2>3. nodes = ns
    BY <2>1, <2>2, SeqEqual
  <2> QED
    BY <2>1, <2>3
<1>3. Spec => Init
  BY DEF Spec
<1> QED
  BY <1>1, <1>2, <1>3, LegalStep, OrderInvariant, PTL DEF Spec
=============================================================================
