------------------------- MODULE StridedThreadsProof -------------------------
(***************************************************************************)
(* Proofs about StridedThreads, for any number of lines and threads: the   *)
(* ring has one token at most, so it prints one line after the other, and  *)
(* the strides of the threads share out the lines, so that what main()     *)
(* looks at after the joins is complete; and whoever searches the table of *)
(* colours has filled all of it.                                           *)
(***************************************************************************)
EXTENDS StridedThreads, TLAPS

-----------------------------------------------------------------------------
\* Arithmetic of the strides.

LEMMA DivMod ==
    ASSUME NEW a \in Nat, NEW n \in Nat \ {0}
    PROVE  a = (n * (a \div n)) + (a % n) /\ a \div n \in Nat /\ a % n \in 0 .. n - 1
<1>1. a = (n * (a \div n)) + (a % n)
  OBVIOUS
<1>2. a % n \in 0 .. n - 1
  OBVIOUS
<1>3. a \div n \in Nat
  OBVIOUS
<1> QED
  BY <1>1, <1>2, <1>3

LEMMA Multiples ==
    ASSUME NEW n \in Nat \ {0}, NEW p \in Int, NEW q \in Int, p > q
    PROVE  n * p >= (n * q) + n
<1>1. n * (p - q - 1) \in Nat
  <2>1. p - q - 1 \in Nat
    OBVIOUS
  <2> QED
    BY <2>1
<1>2. n * (p - q - 1) = (n * p) - (n * q) - n
  OBVIOUS
<1> QED
  BY <1>1, <1>2

LEMMA UniqueRemainder ==
    ASSUME NEW n \in Nat \ {0}, NEW p \in Int, NEW q \in Int,
           NEW r \in 0 .. n - 1, NEW s \in 0 .. n - 1, (n * p) + r = (n * q) + s
    PROVE  p = q /\ r = s
<1>1. n * p \in Int /\ n * q \in Int
  OBVIOUS
<1>2. ~(p > q)
  <2> SUFFICES ASSUME p > q PROVE FALSE
    OBVIOUS
  <2>1. n * p >= (n * q) + n
    BY Multiples
  <2> QED
    BY <2>1, <1>1
<1>3. ~(q > p)
  <2> SUFFICES ASSUME q > p PROVE FALSE
    OBVIOUS
  <2>1. n * q >= (n * p) + n
    BY Multiples
  <2> QED
    BY <2>1, <1>1
<1> QED
  BY <1>1, <1>2, <1>3

\* A line and the line n further on belong to the same thread.
LEMMA Shift ==
    ASSUME NEW n \in Nat \ {0}, NEW a \in Nat
    PROVE  (a + n) % n = a % n
<1>1. a = (n * (a \div n)) + (a % n) /\ a \div n \in Nat /\ a % n \in 0 .. n - 1
  BY DivMod
<1>2. a + n \in Nat
  OBVIOUS
<1>3. /\ a + n = (n * ((a + n) \div n)) + ((a + n) % n)
      /\ (a + n) \div n \in Nat /\ (a + n) % n \in 0 .. n - 1
  BY <1>2, DivMod
<1>4. n * ((a \div n) + 1) = (n * (a \div n)) + n
  BY <1>1
<1>5. (n * ((a \div n) + 1)) + (a % n) = (n * ((a + n) \div n)) + ((a + n) % n)
  BY <1>1, <1>3, <1>4
<1>6. PICK p \in Int : p = (a \div n) + 1
  BY <1>1
<1>7. PICK q \in Int : q = (a + n) \div n
  BY <1>3
<1>8. PICK r \in 0 .. n - 1 : r = a % n
  BY <1>1
<1>9. PICK s \in 0 .. n - 1 : s = (a + n) % n
  BY <1>3
<1>10. (n * p) + r = (n * q) + s
  BY <1>5, <1>6, <1>7, <1>8, <1>9
<1>11. r = s
  BY <1>10, UniqueRemainder
<1> QED
  BY <1>8, <1>9, <1>11

\* Between a line and the line n further on the thread has no other line.
LEMMA SameClass ==
    ASSUME NEW n \in Nat \ {0}, NEW a \in Nat, NEW b \in Nat,
           a % n = b % n, a <= b, b < a + n
    PROVE  a = b
<1>1. a = (n * (a \div n)) + (a % n) /\ a \div n \in Nat /\ a % n \in 0 .. n - 1
  BY DivMod
<1>2. b = (n * (b \div n)) + (b % n) /\ b \div n \in Nat /\ b % n \in 0 .. n - 1
  BY DivMod
<1>3. n * (a \div n) \in Int /\ n * (b \div n) \in Int
  BY <1>1, <1>2
<1>4. ~(a \div n > b \div n)
  <2> SUFFICES ASSUME a \div n > b \div n PROVE FALSE
    OBVIOUS
  <2>1. n * (a \div n) >= (n * (b \div n)) + n
    BY <1>1, <1>2, Multiples
  <2> QED
    BY <2>1, <1>1, <1>2, <1>3
<1>5. ~(b \div n > a \div n)
  <2> SUFFICES ASSUME b \div n > a \div n PROVE FALSE
    OBVIOUS
  <2>1. n * (b \div n) >= (n * (a \div n)) + n
    BY <1>1, <1>2, Multiples
  <2> QED
    BY <2>1, <1>1, <1>2, <1>3
<1>6. a \div n = b \div n
  BY <1>1, <1>2, <1>4, <1>5
<1> QED
  BY <1>1, <1>2, <1>6

LEMMA Small ==
    ASSUME NEW n \in Nat \ {0}, NEW r \in 0 .. n - 1
    PROVE  r % n = r /\ (r + 1) % n = IF r + 1 = n THEN 0 ELSE r + 1
  OBVIOUS
-----------------------------------------------------------------------------
\* The inductive invariant.

\* Where main() and the threads can be together.
Places ==
    /\ mode = "create" => i < total_threads /\ \A r \in Threads : r >= i => pc[r] = "none"
    /\ mode = "join" => i < total_threads /\ \A r \in Threads : r < i => pc[r] = "done"
    /\ mode = "output" => program = "rows" /\ i < y_chars
    /\ mode = "verify" => program = "array"
    /\ mode \in {"output", "verify"} => \A r \in Threads : pc[r] = "done"
    /\ \A r \in Threads :
          /\ pc[r] \in {"wait", "print", "post"} => program = "ring"
          /\ pc[r] = "store" => program = "array"
          /\ pc[r] = "done" => index[r] >= y_chars
          /\ pc[r] \in {"wait", "print", "store"} => index[r] < y_chars

\* What a call of maketable() has written stays written.
TableInv == \A r \in Threads : \A e \in 0 .. Colours - 1 : e < entry[r] => e \in filled

Idle(r) == sem[r] = 0 /\ pc[r] \notin {"print", "post"}

\* Thread t may print, prints or has printed; all others wait, and the lines
\* they are at follow the line of t in the order of the ring.
TokenAt(t) ==
    /\ \A r \in Threads : index[r] = IF r >= t THEN index[t] + (r - t)
                                     ELSE index[t] + total_threads + r - t
    /\ \A r \in Threads \ {t} : Idle(r)
    /\ \/ sem[t] = 1 /\ pc[t] \notin {"print", "post"} /\ Len(out) = index[t]
       \/ sem[t] = 0 /\ pc[t] = "print" /\ Len(out) = index[t]
       \/ sem[t] = 0 /\ pc[t] = "post" /\ Len(out) = index[t] + 1

RingInv ==
    program = "ring" => \/ \A r \in Threads : Idle(r)
                        \/ \E t \in Threads : TokenAt(t)

\* Exactly the lines before the one a thread is at have been dealt with.
StrideInv ==
    program # "ring" =>
        /\ \A r \in Threads : index[r] % total_threads = r
        /\ \A l \in Lines : \A r \in Threads :
               l % total_threads = r => cell[l] = IF l < index[r] THEN 1 ELSE 0
        /\ \A r \in Threads : pc[r] = "store" => reg[r] = 0

\* main() outputs rows once all of them have been computed.
RowsInv ==
    program = "rows" =>
        /\ out \in Seq(Lines)
        /\ mode = "output" => Len(out) = i
        /\ mode \notin {"output", "end"} => out = <<>>
        /\ out # <<>> => \A l \in Lines : cell[l] = 1

\* Lines of the ring have been computed when their threads wait with them.
RingLinesInv ==
    program = "ring" =>
        /\ out \in Seq(Lines)
        /\ \A k \in 1 .. Len(out) : cell[out[k]] = 1
        /\ \A r \in Threads : pc[r] \in {"wait", "print"} => cell[index[r]] = 1

LEMMA InitPlaces == Init => TypeOK /\ Places /\ TableInv
<1> SUFFICES ASSUME Init PROVE TypeOK /\ Places /\ TableInv
  OBVIOUS
<1>1. total_threads \in Nat \ {0}
  BY StridedAssumption DEF Init
<1> QED
  BY <1>1, StridedAssumption DEF Init, TypeOK, Places, TableInv, Threads, Lines


LEMMA SameThreads == [Next]_vars => Threads' = Threads
  BY DEF Next, Main, Thread, Create, CreateFails, Join, OutputRow, VerifyArray, Leave, SemWait,
         OutputLine, SemPost, MakeTable, ComputeLine, LoadElement, StoreElement, vars, Threads

\* Threads without its interval.
LEMMA Numbers ==
    TypeOK => /\ total_threads \in Nat \ {0} /\ y_chars \in Nat \ {0}
              /\ Threads \subseteq Nat /\ Lines \subseteq Nat
              /\ \A r \in Nat : r \in Threads <=> r < total_threads
              /\ \A l \in Nat : l \in Lines <=> l < y_chars
  BY StridedAssumption DEF TypeOK, Threads, Lines

PcValues == {"none", "loop", "wait", "print", "post", "store", "done", "missing"}

LEMMA NextTypes == TypeOK /\ [Next]_vars => TypeOK'
<1> SUFFICES ASSUME TypeOK, [Next]_vars PROVE TypeOK'
  OBVIOUS
<1>0. Threads' = Threads
  BY SameThreads
<1>n. total_threads \in Nat
  BY Numbers
<1> USE <1>0 DEF TypeOK, Runs
<1>1. CASE Create
  <2>1. pc' \in [Threads -> PcValues]
    BY <1>1 DEF Create, PcValues
  <2>2. i' \in Nat /\ mode' \in {"create", "join", "output", "verify", "end", "fail", "undef"}
    BY <1>1 DEF Create, Looped
  <2> QED
    BY <1>1, <2>1, <2>2 DEF Create, PcValues
<1>2. CASE CreateFails
  <2>1. pc' \in [Threads -> PcValues]
    BY <1>2 DEF CreateFails, PcValues
  <2>2. i' \in Nat /\ mode' \in {"create", "join", "output", "verify", "end", "fail", "undef"}
    BY <1>2 DEF CreateFails, Looped
  <2> QED
    BY <1>2, <2>1, <2>2 DEF CreateFails, PcValues
<1>3. CASE Join
  BY <1>3 DEF Join, Looped, AfterJoins
<1>4. CASE OutputRow
  BY <1>4 DEF OutputRow
<1>5. CASE VerifyArray
  BY <1>5 DEF VerifyArray
<1>6. ASSUME NEW r \in Threads, Leave(r) PROVE TypeOK'
  BY <1>6 DEF Leave
<1>7. ASSUME NEW r \in Threads, SemWait(r) PROVE TypeOK'
  <2>1. pc' \in [Threads -> PcValues]
    BY <1>7 DEF SemWait, PcValues
  <2>2. PICK s \in Threads : s = r % total_threads
    BY Numbers, Small DEF Threads
  <2>3. sem' \in [Threads -> Nat]
    BY <1>7, <2>2 DEF SemWait
  <2> QED
    BY <1>7, <2>1, <2>3 DEF SemWait, PcValues
<1>8. ASSUME NEW r \in Threads, OutputLine(r) PROVE TypeOK'
  BY <1>8 DEF OutputLine
<1>9. ASSUME NEW r \in Threads, SemPost(r) PROVE TypeOK'
  <2>1. pc' \in [Threads -> PcValues]
    BY <1>9 DEF SemPost, Advance, PcValues
  <2>2. index' \in [Threads -> Nat]
    BY <1>9, <1>n DEF SemPost, Advance
  <2>3. PICK s \in Threads : s = (r + 1) % total_threads
    BY Numbers, Small DEF Threads
  <2>4. sem' \in [Threads -> Nat]
    BY <1>9, <2>3 DEF SemPost
  <2> QED
    BY <1>9, <2>1, <2>2, <2>4 DEF SemPost, PcValues
<1>10. ASSUME NEW r \in Threads, ComputeLine(r) PROVE TypeOK'
  <2>1. pc' \in [Threads -> PcValues]
    BY <1>10 DEF ComputeLine, Advance, PcValues
  <2>2. index' \in [Threads -> Nat]
    <3>1. index' = index \/ index' = [index EXCEPT ![r] = @ + total_threads]
      BY <1>10 DEF ComputeLine, Advance
    <3>2. index[r] + total_threads \in Nat
      BY <1>n
    <3> QED
      BY <3>1, <3>2
  <2>3. cell' \in [Lines -> Nat]
    BY <1>10 DEF ComputeLine
  <2>4. entry' \in [Threads -> 0 .. Colours]
    BY <1>10, StridedAssumption DEF ComputeLine
  <2> QED
    BY <1>10, <2>1, <2>2, <2>3, <2>4 DEF ComputeLine, PcValues
<1>14. ASSUME NEW r \in Threads, MakeTable(r) PROVE TypeOK'
  <2>1. entry[r] + 1 \in 0 .. Colours /\ entry[r] \in 0 .. Colours - 1
    BY <1>14, StridedAssumption DEF MakeTable
  <2> QED
    BY <1>14, <2>1 DEF MakeTable
<1>11. ASSUME NEW r \in Threads, LoadElement(r) PROVE TypeOK'
  <2>1. pc' \in [Threads -> PcValues]
    BY <1>11 DEF LoadElement, PcValues
  <2>2. index[r] \in Lines
    BY <1>11, Numbers DEF LoadElement
  <2>3. reg' \in [Threads -> Nat]
    BY <1>11, <2>2 DEF LoadElement
  <2> QED
    BY <1>11, <2>1, <2>3 DEF LoadElement, PcValues
<1>12. ASSUME NEW r \in Threads, StoreElement(r) PROVE TypeOK'
  <2>1. pc' \in [Threads -> PcValues]
    BY <1>12 DEF StoreElement, Advance, PcValues
  <2>2. index' \in [Threads -> Nat]
    BY <1>12, <1>n DEF StoreElement, Advance
  <2>3. cell' \in [Lines -> Nat]
    <3>1. reg[r] + 1 \in Nat
      OBVIOUS
    <3> QED
      BY <1>12, <3>1 DEF StoreElement
  <2> QED
    BY <1>12, <2>1, <2>2, <2>3 DEF StoreElement, PcValues
<1>13. CASE UNCHANGED vars
  BY <1>13 DEF vars
<1> QED
  BY <1>1, <1>2, <1>3, <1>4, <1>5, <1>6, <1>7, <1>8, <1>9, <1>10, <1>11, <1>12, <1>13, <1>14
     DEF Next, Main, Thread

LEMMA NextTable == TypeOK /\ TableInv /\ [Next]_vars => TableInv'
<1> SUFFICES ASSUME TypeOK, TableInv, [Next]_vars PROVE TableInv'
  OBVIOUS
<1>0. Threads' = Threads
  BY SameThreads
<1>1. ASSUME NEW r \in Threads, MakeTable(r) PROVE TableInv'
  <2>1. entry[r] \in Nat /\ filled' = filled \cup {entry[r]}
        /\ \A s \in Threads : entry'[s] = IF s = r THEN entry[r] + 1 ELSE entry[s]
    BY <1>1 DEF MakeTable, TypeOK
  <2> QED
    BY <1>0, <2>1 DEF TableInv
<1>2. ASSUME NEW r \in Threads, ComputeLine(r) PROVE TableInv'
  <2>1. filled' = filled /\ \A s \in Threads : entry'[s] = IF s = r THEN 0 ELSE entry[s]
    BY <1>2 DEF ComputeLine, TypeOK
  <2> QED
    BY <1>0, <2>1 DEF TableInv
<1>3. CASE UNCHANGED <<entry, filled>>
  BY <1>0, <1>3 DEF TableInv
<1> QED
  BY <1>1, <1>2, <1>3 DEF Next, Main, Thread, Create, CreateFails, Join, OutputRow, VerifyArray,
     Leave, SemWait, OutputLine, SemPost, LoadElement, StoreElement, vars

\* Whoever searches the table has filled it.
LEMMA FullTable ==
    ASSUME TypeOK, TableInv, NEW r \in Threads, ComputeLine(r)
    PROVE  cell' = [cell EXCEPT ![index[r]] = 1]
<1>0. entry[r] = Colours /\ Colours \in Nat /\ filled \subseteq 0 .. Colours - 1
  BY StridedAssumption DEF TypeOK, ComputeLine
<1>1. filled = 0 .. Colours - 1
  <2>1. \A e \in 0 .. Colours - 1 : e < Colours
    BY <1>0
  <2> QED
    BY <1>0, <2>1 DEF TableInv
<1> QED
  BY <1>1 DEF ComputeLine

LEMMA NextPlaces == TypeOK /\ Places /\ [Next]_vars => Places'
<1> SUFFICES ASSUME TypeOK, Places, [Next]_vars PROVE Places'
  OBVIOUS
<1>0. Threads' = Threads
  BY SameThreads
<1>n. /\ total_threads \in Nat \ {0} /\ y_chars \in Nat \ {0}
      /\ \A r \in Threads : r \in Nat /\ r < total_threads
  BY Numbers
<1> USE <1>0, <1>n DEF TypeOK, Places, Runs
<1>1. CASE Create
  <2>1. \A s \in Threads : pc'[s] = IF s = i THEN "loop" ELSE pc[s]
    BY <1>1 DEF Create
  <2>2. CASE i + 1 < total_threads
    <3>1. /\ mode = "create" /\ mode' = "create" /\ i' = i + 1 /\ i \in Nat
          /\ UNCHANGED <<program, total_threads, index>>
      BY <1>1, <2>2 DEF Create, Looped
    <3>2. \A s \in Threads : s \in Nat /\ (s >= i => pc[s] = "none")
      BY <3>1
    <3>3. ASSUME NEW s \in Threads, s >= i' PROVE pc'[s] = "none"
      <4>1. s # i /\ s >= i
        BY <3>1, <3>2, <3>3
      <4> QED
        BY <2>1, <3>2, <4>1
    <3> QED
      BY <2>1, <2>2, <3>1, <3>3
  <2>3. CASE ~(i + 1 < total_threads)
    BY <1>1, <2>1, <2>3 DEF Create, Looped
  <2> QED
    BY <2>2, <2>3
<1>2. CASE CreateFails
  <2>1. program # "array" =>
            /\ mode = "create" /\ Looped("join")
            /\ \A s \in Threads : pc'[s] = IF s = i THEN "missing" ELSE pc[s]
    BY <1>2 DEF CreateFails
  <2>2. CASE program = "array"
    BY <1>2, <2>2 DEF CreateFails
  <2>3. CASE program # "array" /\ i + 1 < total_threads
    <3>1. /\ mode = "create" /\ mode' = "create" /\ i' = i + 1 /\ i \in Nat
          /\ UNCHANGED <<program, total_threads, index>>
      BY <1>2, <2>1, <2>3 DEF CreateFails, Looped
    <3>2. \A s \in Threads : s \in Nat /\ (s >= i => pc[s] = "none")
      BY <3>1
    <3>3. ASSUME NEW s \in Threads, s >= i' PROVE pc'[s] = "none"
      <4>1. s # i /\ s >= i
        BY <3>1, <3>2, <3>3
      <4> QED
        BY <2>1, <2>3, <3>2, <4>1
    <3> QED
      BY <2>1, <2>3, <3>1, <3>3
  <2>4. CASE program # "array" /\ ~(i + 1 < total_threads)
    BY <1>2, <2>1, <2>4 DEF CreateFails, Looped
  <2> QED
    BY <2>2, <2>3, <2>4
<1>3. CASE Join
  <2>1. CASE pc[i] = "missing"
    BY <1>3, <2>1 DEF Join
  <2>2. CASE pc[i] = "done" /\ i + 1 < total_threads
    <3>1. mode = "join" /\ mode' = "join" /\ i' = i + 1 /\ i \in Nat
      BY <1>3, <2>2 DEF Join, Looped
    <3>2. \A s \in Threads : s \in Nat /\ (s < i => pc[s] = "done")
      BY <3>1
    <3>3. \A s \in Threads : s < i' => pc[s] = "done"
      BY <2>2, <3>1, <3>2
    <3> QED
      BY <1>3, <2>2, <3>1, <3>3 DEF Join
  <2>3. CASE pc[i] = "done" /\ ~(i + 1 < total_threads)
    <3>1. \A r \in Threads : pc[r] = "done"
      BY <1>3, <2>3 DEF Join
    <3>2. i' = 0 /\ mode' = AfterJoins
      BY <1>3, <2>3 DEF Join, Looped
    <3> QED
      BY <1>3, <3>1, <3>2 DEF Join, AfterJoins
  <2> QED
    BY <1>3, <2>1, <2>2, <2>3 DEF Join
<1>4. CASE OutputRow
  BY <1>4 DEF OutputRow
<1>5. CASE VerifyArray
  BY <1>5 DEF VerifyArray
<1>6. ASSUME NEW r \in Threads, Leave(r) PROVE Places'
  BY <1>6 DEF Leave
<1>7. ASSUME NEW r \in Threads, SemWait(r) PROVE Places'
  BY <1>7 DEF SemWait
<1>8. ASSUME NEW r \in Threads, OutputLine(r) PROVE Places'
  BY <1>8 DEF OutputLine
<1>9. ASSUME NEW r \in Threads, SemPost(r) PROVE Places'
  BY <1>9 DEF SemPost, Advance
<1>10. ASSUME NEW r \in Threads, ComputeLine(r) PROVE Places'
  BY <1>10 DEF ComputeLine, Computes, Advance
<1>14. ASSUME NEW r \in Threads, MakeTable(r) PROVE Places'
  BY <1>14 DEF MakeTable
<1>11. ASSUME NEW r \in Threads, LoadElement(r) PROVE Places'
  BY <1>11 DEF LoadElement
<1>12. ASSUME NEW r \in Threads, StoreElement(r) PROVE Places'
  BY <1>12 DEF StoreElement, Advance
<1>13. CASE UNCHANGED vars
  BY <1>13 DEF vars
<1> QED
  BY <1>1, <1>2, <1>3, <1>4, <1>5, <1>6, <1>7, <1>8, <1>9, <1>10, <1>11, <1>12, <1>13, <1>14
     DEF Next, Main, Thread

LEMMA InitRing ==
    ASSUME Garbage \subseteq {0, 1} PROVE Init => RingInv
<1> SUFFICES ASSUME Init, program = "ring"
             PROVE  (\A r \in Threads : Idle(r)) \/ \E t \in Threads : TokenAt(t)
  BY DEF RingInv
<1>0. total_threads \in Nat \ {0} /\ Threads \subseteq Nat /\ 0 \in Threads
  BY StridedAssumption DEF Init, Threads
<1>1. PICK g \in Garbage : sem = [r \in Threads |-> IF r = 0 THEN g ELSE 0]
  BY DEF Init
<1>2. CASE g = 0
  BY <1>1, <1>2 DEF Init, Idle
<1>3. CASE g = 1
  <2>1. TokenAt(0)
    BY <1>0, <1>1, <1>3 DEF Init, Idle, TokenAt
  <2> QED
    BY <2>1, <1>0
<1> QED
  BY <1>2, <1>3

LEMMA NextRing == TypeOK /\ Places /\ RingInv /\ [Next]_vars => RingInv'
<1> SUFFICES ASSUME TypeOK, Places, RingInv, [Next]_vars, program' = "ring"
             PROVE  (\A r \in Threads : Idle(r))' \/ (\E t \in Threads : TokenAt(t))'
  BY DEF RingInv
<1>0. Threads' = Threads /\ total_threads' = total_threads /\ program = "ring"
  BY SameThreads
     DEF Next, Main, Thread, Create, CreateFails, Join, OutputRow, VerifyArray, Leave, SemWait,
         OutputLine, SemPost, MakeTable, ComputeLine, LoadElement, StoreElement, vars
<1>n. total_threads \in Nat \ {0}
  BY Numbers
<1>m. ASSUME NEW r \in Threads
      PROVE  r % total_threads = r /\ (r + 1) % total_threads = IF r + 1 = total_threads THEN 0 ELSE r + 1
  BY <1>n, <1>m, Small DEF Threads
\* Steps that no semaphore, line or place between them changes.
<1>k. \/ /\ UNCHANGED <<sem, index, out>>
         /\ \A r \in Threads : /\ pc'[r] \in {"print", "post"} => pc'[r] = pc[r]
                               /\ pc[r] \in {"print", "post"} => pc'[r] = pc[r]
      \/ \E r \in Threads : SemWait(r) \/ OutputLine(r) \/ SemPost(r)
  <2> USE <1>0 DEF TypeOK, Places, Runs
  <2>1. CASE Create \/ CreateFails
    <3>1. mode = "create" /\ UNCHANGED <<sem, index, out>>
      BY <2>1 DEF Create, CreateFails
    <3>2. \A r \in Threads : \/ pc'[r] = pc[r]
                            \/ (r = i /\ pc'[r] \in {"loop", "missing"})
      <4>1. \/ pc' = pc \/ pc' = [pc EXCEPT ![i] = "loop"]
            \/ pc' = [pc EXCEPT ![i] = "missing"]
        BY <2>1 DEF Create, CreateFails
      <4>2. ASSUME NEW v, NEW r \in Threads, pc' = [pc EXCEPT ![i] = v]
            PROVE  pc'[r] = IF r = i THEN v ELSE pc[r]
        BY <4>2
      <4>3. ASSUME NEW r \in Threads
            PROVE  pc'[r] = pc[r] \/ (r = i /\ pc'[r] \in {"loop", "missing"})
        <5>1. CASE pc' = pc
          BY <5>1
        <5>2. CASE pc' = [pc EXCEPT ![i] = "loop"]
          BY <4>2, <5>2
        <5>3. CASE pc' = [pc EXCEPT ![i] = "missing"]
          BY <4>2, <5>3
        <5> QED
          BY <4>1, <5>1, <5>2, <5>3
      <4> QED
        BY <4>3
    <3>3. i \in Threads => pc[i] = "none"
      BY <3>1
    <3> QED
      BY <3>1, <3>2, <3>3
  <2>3. CASE Join \/ OutputRow \/ VerifyArray
    BY <2>3 DEF Join, OutputRow, VerifyArray
  <2>4. ASSUME NEW r \in Threads PROVE ~LoadElement(r) /\ ~StoreElement(r)
    BY DEF LoadElement, StoreElement
  <2>5. ASSUME NEW r \in Threads, Leave(r) \/ MakeTable(r) \/ ComputeLine(r)
        PROVE  /\ UNCHANGED <<sem, index, out>>
               /\ \A s \in Threads : /\ pc'[s] \in {"print", "post"} => pc'[s] = pc[s]
                                     /\ pc[s] \in {"print", "post"} => pc'[s] = pc[s]
    BY <2>5 DEF Leave, MakeTable, ComputeLine, Computes
  <2>6. CASE UNCHANGED vars
    BY <2>6 DEF vars
  <2> QED
    BY <2>1, <2>3, <2>4, <2>5, <2>6 DEF Next, Main, Thread
<1>1. CASE \A r \in Threads : Idle(r)
  <2>1. ASSUME NEW r \in Threads PROVE ~(SemWait(r) \/ OutputLine(r) \/ SemPost(r))
    BY <1>1, <1>m, <2>1 DEF Idle, SemWait, OutputLine, SemPost, Runs
  <2>2. \A r \in Threads : Idle(r)'
    BY <1>0, <1>1, <1>k, <2>1 DEF Idle
  <2> QED
    BY <1>0, <2>2
<1>2. ASSUME NEW t \in Threads, TokenAt(t) PROVE (\E s \in Threads : TokenAt(s))'
  <2>1. CASE /\ UNCHANGED <<sem, index, out>>
             /\ \A r \in Threads : /\ pc'[r] \in {"print", "post"} => pc'[r] = pc[r]
                                   /\ pc[r] \in {"print", "post"} => pc'[r] = pc[r]
    <3>1. TokenAt(t)'
      BY <1>0, <1>2, <2>1 DEF TokenAt, Idle
    <3> QED
      BY <1>0, <3>1
  <2>2. ASSUME NEW r \in Threads, SemWait(r) PROVE (\E s \in Threads : TokenAt(s))'
    <3>1. r = t
      BY <1>2, <1>m, <2>2 DEF TokenAt, Idle, SemWait
    <3>2. sem[t] = 1 /\ Len(out) = index[t]
      BY <1>2, <1>m, <2>2, <3>1 DEF TokenAt, SemWait
    <3>4. sem' = [sem EXCEPT ![t] = 0]
      <4>1. sem' = [sem EXCEPT ![t] = sem[t] - 1]
        BY <1>m, <2>2, <3>1 DEF SemWait
      <4> QED
        BY <3>2, <4>1
    <3>3. TokenAt(t)'
      BY <1>0, <1>2, <2>2, <3>1, <3>2, <3>4 DEF TokenAt, Idle, SemWait, Runs, TypeOK
    <3> QED
      BY <1>0, <3>3
  <2>3. ASSUME NEW r \in Threads, OutputLine(r) PROVE (\E s \in Threads : TokenAt(s))'
    <3>1. r = t
      BY <1>2, <2>3 DEF TokenAt, Idle, OutputLine, Runs
    <3>2. sem[t] = 0 /\ Len(out) = index[t] /\ index[t] \in Nat
      BY <1>2, <2>3, <3>1 DEF TokenAt, OutputLine, Runs, TypeOK
    <3>3. Len(out') = index[t] + 1 /\ UNCHANGED <<sem, index>> /\ pc' = [pc EXCEPT ![t] = "post"]
      <4>1. out' = Append(out, index[t]) /\ UNCHANGED <<sem, index>> /\ pc' = [pc EXCEPT ![t] = "post"]
        BY <2>3, <3>1 DEF OutputLine
      <4>2. out \in Seq(Nat)
        BY DEF TypeOK
      <4> QED
        BY <3>2, <4>1, <4>2
    <3>4. TokenAt(t)'
      BY <1>0, <1>2, <3>2, <3>3 DEF TokenAt, Idle, TypeOK
    <3> QED
      BY <1>0, <3>4
  <2>4. ASSUME NEW r \in Threads, SemPost(r) PROVE (\E s \in Threads : TokenAt(s))'
    <3>1. r = t /\ pc[t] = "post" /\ sem[t] = 0 /\ Len(out) = index[t] + 1
      BY <1>2, <2>4 DEF TokenAt, Idle, SemPost, Runs
    <3>2. PICK u \in Threads : u = (t + 1) % total_threads
      BY <1>m, Numbers
    <3>3. /\ sem' = [sem EXCEPT ![u] = @ + 1]
          /\ index' = [index EXCEPT ![t] = @ + total_threads]
          /\ pc' = [pc EXCEPT ![t] = "loop"]
          /\ out' = out
      BY <2>4, <3>1, <3>2 DEF SemPost, Advance
    <3>4. u = IF t + 1 = total_threads THEN 0 ELSE t + 1
      BY <1>m, <3>2
    <3>5. \A s \in Threads : sem[s] = 0 /\ (s # t => pc[s] \notin {"print", "post"})
      BY <1>2, <3>1 DEF TokenAt, Idle
    <3>6. sem'[u] = 1 /\ \A s \in Threads \ {u} : sem'[s] = 0
      BY <3>3, <3>5 DEF TypeOK
    <3>7. \A s \in Threads : pc'[s] \notin {"print", "post"}
      BY <3>3, <3>5 DEF TypeOK
    <3>8. \A s \in Threads : index[s] = IF s >= t THEN index[t] + (s - t)
                                        ELSE index[t] + total_threads + s - t
      BY <1>2 DEF TokenAt
    <3>9. /\ \A s \in Threads : index'[s] = IF s = t THEN index[t] + total_threads ELSE index[s]
          /\ \A s \in Threads : s \in Nat /\ s < total_threads /\ index[s] \in Nat
      BY <3>3, Numbers DEF TypeOK
    <3>12. index'[u] = index[t] + 1
      <4>1. CASE t + 1 = total_threads
        BY <1>n, <3>4, <3>8, <3>9, <4>1
      <4>2. CASE t + 1 # total_threads
        BY <1>n, <3>4, <3>8, <3>9, <4>2
      <4> QED
        BY <4>1, <4>2
    <3>10. ASSUME NEW s \in Threads
           PROVE  index'[s] = IF s >= u THEN index'[u] + (s - u)
                              ELSE index'[u] + total_threads + s - u
      <4>1. CASE t + 1 = total_threads
        BY <1>n, <3>4, <3>8, <3>9, <3>12, <4>1
      <4>2. CASE t + 1 # total_threads
        BY <1>n, <3>4, <3>8, <3>9, <3>12, <4>2
      <4> QED
        BY <4>1, <4>2
    <3>11. TokenAt(u)'
      BY <1>0, <3>1, <3>3, <3>6, <3>7, <3>10, <3>12 DEF TokenAt, Idle
    <3> QED
      BY <1>0, <3>11
  <2> QED
    BY <1>k, <2>1, <2>2, <2>3, <2>4
<1> QED
  BY <1>0, <1>1, <1>2 DEF RingInv

LEMMA InitStrides == Init => StrideInv /\ RowsInv
<1> SUFFICES ASSUME Init PROVE StrideInv /\ RowsInv
  OBVIOUS
<1>1. total_threads \in Nat \ {0} /\ Threads = 0 .. total_threads - 1
  BY StridedAssumption DEF Init, Threads
<1>2. \A r \in Threads : r % total_threads = r
  BY <1>1, Small
<1>3. \A l \in Lines : l \in Nat /\ l % total_threads <= l
  BY <1>1, StridedAssumption DEF Lines
<1>4. StrideInv
  BY <1>1, <1>2, <1>3 DEF Init, StrideInv
<1>5. RowsInv
  BY DEF Init, RowsInv
<1> QED
  BY <1>4, <1>5

\* A thread that goes on to its next line keeps its class.
LEMMA AdvanceKeepsClass ==
    ASSUME TypeOK, NEW r \in Threads, index[r] % total_threads = r
    PROVE  (index[r] + total_threads) % total_threads = r
<1>1. index[r] \in Nat /\ total_threads \in Nat \ {0}
  BY Numbers DEF TypeOK
<1> QED
  BY <1>1, Shift

\* What the line of thread r being dealt with means for the lines of all.
LEMMA OneLine ==
    ASSUME TypeOK, StrideInv, program # "ring", NEW r \in Threads, index[r] < y_chars,
           NEW l \in Lines, NEW s \in Threads, l % total_threads = s
    PROVE  LET there == IF s = r THEN index[r] + total_threads ELSE index[s]
               dealt == IF l = index[r] THEN 1 ELSE cell[l]
           IN  dealt = IF l < there THEN 1 ELSE 0
<1>1. /\ index[r] \in Nat /\ index[s] \in Nat /\ l \in Nat
      /\ total_threads \in Nat \ {0}
  BY Numbers DEF TypeOK
<1>2. index[r] % total_threads = r /\ index[s] % total_threads = s
  BY DEF StrideInv
<1>3. cell[l] = IF l < index[s] THEN 1 ELSE 0
  BY DEF StrideInv
<1>4. CASE s # r
  <2>1. l # index[r]
    BY <1>2, <1>4
  <2> QED
    BY <1>3, <1>4, <2>1
<1>5. CASE s = r
  <2>1. index[r] <= l /\ l < index[r] + total_threads => l = index[r]
    BY <1>1, <1>2, <1>5, SameClass
  <2> QED
    BY <1>1, <1>3, <1>5, <2>1
<1> QED
  BY <1>4, <1>5

LEMMA NextStrides == TypeOK /\ Places /\ TableInv /\ StrideInv /\ [Next]_vars => StrideInv'
<1> SUFFICES ASSUME TypeOK, Places, TableInv, StrideInv, [Next]_vars, program' # "ring" PROVE StrideInv'
  BY DEF StrideInv
<1>0. Threads' = Threads /\ total_threads' = total_threads /\ program # "ring" /\ program' = program
  BY SameThreads
     DEF Next, Main, Thread, Create, CreateFails, Join, OutputRow, VerifyArray, Leave, SemWait,
         OutputLine, SemPost, MakeTable, ComputeLine, LoadElement, StoreElement, vars
<1>1. CASE Create \/ CreateFails
  BY <1>0, <1>1 DEF Create, CreateFails, StrideInv, TypeOK
<1>2. CASE Join \/ OutputRow \/ VerifyArray
  BY <1>0, <1>2 DEF Join, OutputRow, VerifyArray, StrideInv
<1>3. ASSUME NEW r \in Threads, Leave(r) \/ MakeTable(r) PROVE StrideInv'
  BY <1>0, <1>3 DEF Leave, MakeTable, StrideInv, TypeOK
<1>4. ASSUME NEW r \in Threads PROVE ~SemWait(r) /\ ~OutputLine(r) /\ ~SemPost(r)
  BY <1>0, <1>4 DEF SemWait, OutputLine, SemPost, Runs, Places
<1>5. ASSUME NEW r \in Threads, LoadElement(r) PROVE StrideInv'
  <2>1. index[r] \in Lines /\ cell[index[r]] = 0
    <3>1. index[r] \in Lines /\ index[r] \in Nat
      BY <1>5, Numbers DEF LoadElement, TypeOK
    <3> QED
      BY <1>0, <3>1 DEF StrideInv
  <2>2. reg' = [reg EXCEPT ![r] = 0] /\ pc' = [pc EXCEPT ![r] = "store"]
        /\ UNCHANGED <<index, cell>>
    BY <1>5, <2>1 DEF LoadElement
  <2> QED
    BY <1>0, <2>2 DEF StrideInv, TypeOK
<1>6. ASSUME NEW r \in Threads, ComputeLine(r) \/ StoreElement(r) PROVE StrideInv'
  <2>1. index[r] < y_chars /\ (pc[r] = "store" => reg[r] = 0)
    BY <1>0, <1>6 DEF ComputeLine, Computes, StoreElement, Runs, Places, StrideInv
  <2>2. /\ cell' = [cell EXCEPT ![index[r]] = 1]
        /\ index' = [index EXCEPT ![r] = @ + total_threads]
        /\ pc' = [pc EXCEPT ![r] = "loop"]
        /\ reg' = reg
    BY <1>0, <1>6, <2>1, FullTable DEF ComputeLine, StoreElement, Advance, Runs
  <2>3. \A s \in Threads : index'[s] = IF s = r THEN index[r] + total_threads ELSE index[s]
    BY <2>2 DEF TypeOK
  <2>4. \A l \in Lines : cell'[l] = IF l = index[r] THEN 1 ELSE cell[l]
    BY <2>2 DEF TypeOK
  <2>5. \A s \in Threads : index'[s] % total_threads = s
    <3>1. index[r] % total_threads = r
      BY <1>0 DEF StrideInv
    <3>2. (index[r] + total_threads) % total_threads = r
      BY <3>1, AdvanceKeepsClass
    <3> QED
      BY <1>0, <2>3, <3>2 DEF StrideInv
  <2>6. ASSUME NEW l \in Lines, NEW s \in Threads, l % total_threads = s
        PROVE  cell'[l] = IF l < index'[s] THEN 1 ELSE 0
    BY <1>0, <2>1, <2>3, <2>4, <2>6, OneLine
  <2>7. \A s \in Threads : pc'[s] = "store" => reg'[s] = 0
    BY <1>0, <2>2 DEF StrideInv, TypeOK
  <2> QED
    BY <1>0, <2>5, <2>6, <2>7 DEF StrideInv
<1>7. CASE UNCHANGED vars
  BY <1>0, <1>7 DEF vars, StrideInv
<1> QED
  BY <1>1, <1>2, <1>3, <1>4, <1>5, <1>6, <1>7 DEF Next, Main, Thread

\* Once every thread has left its loop, every line has been dealt with.
LEMMA AllDealtWith ==
    ASSUME TypeOK, Places, StrideInv, program # "ring", \A r \in Threads : pc[r] = "done"
    PROVE  \A l \in Lines : cell[l] = 1
<1> SUFFICES ASSUME NEW l \in Lines PROVE cell[l] = 1
  OBVIOUS
<1>1. l \in Nat /\ total_threads \in Nat \ {0} /\ l < y_chars /\ y_chars \in Nat
  BY Numbers
<1>2. PICK s \in Threads : s = l % total_threads
  BY <1>1, DivMod DEF Threads
<1>3. index[s] >= y_chars /\ index[s] \in Nat
  BY DEF Places, TypeOK
<1> QED
  BY <1>1, <1>2, <1>3 DEF StrideInv

LEMMA NextRows == TypeOK /\ Places /\ TableInv /\ StrideInv /\ RowsInv /\ [Next]_vars => RowsInv'
<1> SUFFICES ASSUME TypeOK, Places, TableInv, StrideInv, RowsInv, [Next]_vars, program' = "rows" PROVE RowsInv'
  BY DEF RowsInv
<1>0. program = "rows" /\ program' = program
  BY DEF Next, Main, Thread, Create, CreateFails, Join, OutputRow, VerifyArray, Leave, SemWait,
         OutputLine, SemPost, MakeTable, ComputeLine, LoadElement, StoreElement, vars
<1> USE <1>0, Numbers DEF RowsInv, TypeOK, Runs
<1>1. CASE Create
  BY <1>1 DEF Create, Looped
<1>2. CASE CreateFails
  BY <1>2 DEF CreateFails, Looped
<1>3. CASE Join
  BY <1>3 DEF Join, Looped, AfterJoins
<1>4. CASE OutputRow
  <2>1. \A l \in Lines : cell[l] = 1
    BY <1>4, AllDealtWith DEF OutputRow, Places
  <2>2. i \in Lines
    BY <1>4 DEF OutputRow, Places
  <2> QED
    BY <1>4, <2>1, <2>2 DEF OutputRow
<1>5. ASSUME NEW r \in Threads, Leave(r) \/ MakeTable(r) PROVE RowsInv'
  BY <1>5 DEF Leave, MakeTable
<1>6. ASSUME NEW r \in Threads, ComputeLine(r) PROVE RowsInv'
  BY <1>6, FullTable DEF ComputeLine, Advance
<1>7. /\ ~VerifyArray
      /\ \A r \in Threads : /\ ~SemWait(r) /\ ~OutputLine(r) /\ ~SemPost(r)
                            /\ ~LoadElement(r) /\ ~StoreElement(r)
  BY DEF VerifyArray, SemWait, OutputLine, SemPost, LoadElement, StoreElement, Places
<1>8. CASE UNCHANGED vars
  BY <1>8 DEF vars
<1> QED
  BY <1>1, <1>2, <1>3, <1>4, <1>5, <1>6, <1>7, <1>8 DEF Next, Main, Thread

LEMMA NextRingLines ==
    TypeOK /\ Places /\ TableInv /\ RingLinesInv /\ [Next]_vars => RingLinesInv'
<1> SUFFICES ASSUME TypeOK, Places, TableInv, RingLinesInv, [Next]_vars, program' = "ring"
             PROVE  RingLinesInv'
  BY DEF RingLinesInv
<1>0. program = "ring" /\ Threads' = Threads /\ Lines' = Lines
  BY SameThreads
     DEF Next, Main, Thread, Create, CreateFails, Join, OutputRow, VerifyArray, Leave, SemWait,
         OutputLine, SemPost, MakeTable, ComputeLine, LoadElement, StoreElement, vars, Lines
<1> USE <1>0, Numbers DEF RingLinesInv, TypeOK, Runs
<1>1. CASE Create \/ CreateFails
  BY <1>1 DEF Create, CreateFails
<1>2. CASE Join
  BY <1>2 DEF Join
<1>3. ASSUME NEW r \in Threads, Leave(r) \/ MakeTable(r) PROVE RingLinesInv'
  BY <1>3 DEF Leave, MakeTable
<1>4. ASSUME NEW r \in Threads, ComputeLine(r) PROVE RingLinesInv'
  <2>1. cell' = [cell EXCEPT ![index[r]] = 1] /\ index' = index /\ out' = out
        /\ pc' = [pc EXCEPT ![r] = "wait"]
    BY <1>4, FullTable DEF ComputeLine
  <2>2. index[r] \in Lines
    BY <1>4 DEF ComputeLine, Computes
  <2>3. \A l \in Lines : cell'[l] = IF l = index[r] THEN 1 ELSE cell[l]
    BY <2>1
  <2>4. \A k \in 1 .. Len(out) : out[k] \in Lines
    OBVIOUS
  <2>5. ASSUME NEW s \in Threads, pc'[s] \in {"wait", "print"} PROVE cell'[index'[s]] = 1
    <3>1. CASE s = r
      BY <2>1, <2>2, <2>3, <3>1
    <3>2. CASE s # r
      <4>1. pc[s] \in {"wait", "print"} /\ index[s] \in Lines
        BY <2>1, <2>5, <3>2 DEF Places
      <4> QED
        BY <2>1, <2>3, <4>1
    <3> QED
      BY <3>1, <3>2
  <2> QED
    BY <2>1, <2>3, <2>4, <2>5
<1>5. ASSUME NEW r \in Threads, SemWait(r) PROVE RingLinesInv'
  BY <1>5 DEF SemWait
<1>6. ASSUME NEW r \in Threads, OutputLine(r) PROVE RingLinesInv'
  <2>1. index[r] \in Lines /\ cell[index[r]] = 1
    BY <1>6 DEF OutputLine, Places
  <2>2. /\ out' = Append(out, index[r]) /\ UNCHANGED <<cell, index>>
        /\ pc' = [pc EXCEPT ![r] = "post"]
    BY <1>6 DEF OutputLine
  <2>3. out' \in Seq(Lines) /\ \A k \in 1 .. Len(out') : cell[out'[k]] = 1
    <3>1. out \in Seq(Lines) /\ \A k \in 1 .. Len(out) : cell[out[k]] = 1
      OBVIOUS
    <3> HIDE DEF RingLinesInv, TypeOK
    <3> QED
      BY <2>1, <2>2, <3>1
  <2> QED
    BY <2>2, <2>3
<1>7. ASSUME NEW r \in Threads, SemPost(r) PROVE RingLinesInv'
  BY <1>7 DEF SemPost, Advance
<1>8. /\ ~OutputRow /\ ~VerifyArray
      /\ \A r \in Threads : ~LoadElement(r) /\ ~StoreElement(r)
  BY DEF OutputRow, VerifyArray, LoadElement, StoreElement, Places
<1>9. CASE UNCHANGED vars
  BY <1>9 DEF vars
<1> QED
  BY <1>1, <1>2, <1>3, <1>4, <1>5, <1>6, <1>7, <1>8, <1>9 DEF Next, Main, Thread
-----------------------------------------------------------------------------
LEMMA AlwaysPlaces == Spec => [](TypeOK /\ Places /\ TableInv)
  BY InitPlaces, NextTypes, NextPlaces, NextTable, PTL DEF Spec

LEMMA AlwaysStrides == Spec => [](StrideInv /\ RowsInv)
  BY AlwaysPlaces, InitStrides, NextStrides, NextRows, PTL DEF Spec

LEMMA AlwaysRingLines == Spec => []RingLinesInv
<1>1. Init => RingLinesInv
  BY DEF Init, RingLinesInv
<1> QED
  BY <1>1, AlwaysPlaces, NextRingLines, PTL DEF Spec

\* The types of the state of all three programs.
THEOREM StridedTypes == Spec => []TypeOK
  BY AlwaysPlaces, PTL

\* What is output has been computed, with all colours in the table.
THEOREM RowsComputed == Spec => []OutputIsComputed
<1>1. TypeOK /\ RowsInv /\ RingLinesInv => OutputIsComputed
  <2> SUFFICES ASSUME TypeOK, RowsInv, RingLinesInv, program # "array", NEW k \in 1 .. Len(out)
               PROVE  cell[out[k]] = 1
    BY DEF OutputIsComputed
  <2>1. CASE program = "rows"
    <3>1. out \in Seq(Lines) /\ out # <<>> /\ out[k] \in Lines
      BY <2>1 DEF RowsInv
    <3> QED
      BY <2>1, <3>1 DEF RowsInv
  <2>2. CASE program = "ring"
    BY <2>2 DEF RingLinesInv
  <2> QED
    BY <2>1, <2>2 DEF TypeOK
<1> QED
  BY <1>1, AlwaysPlaces, AlwaysStrides, AlwaysRingLines, PTL

\* pthread-test multiplies every element exactly once, without any lock.
THEOREM ArrayRight == Spec => []ArrayVerified
<1>1. TypeOK /\ Places /\ StrideInv => ArrayVerified
  <2> SUFFICES ASSUME TypeOK, Places, StrideInv, program = "array" PROVE
                 /\ mode = "verify" => \A l \in Lines : cell[l] = 1
                 /\ \A l \in Lines : cell[l] <= 1
    BY DEF ArrayVerified
  <2>1. mode = "verify" => \A l \in Lines : cell[l] = 1
    BY AllDealtWith DEF Places
  <2>2. ASSUME NEW l \in Lines PROVE cell[l] <= 1
    <3>1. l \in Nat /\ total_threads \in Nat \ {0}
      BY Numbers
    <3>2. PICK s \in Threads : s = l % total_threads
      BY <3>1, DivMod DEF Threads
    <3> QED
      BY <3>2 DEF StrideInv
  <2> QED
    BY <2>1, <2>2
<1> QED
  BY <1>1, AlwaysPlaces, AlwaysStrides, PTL

\* Two threads of the ring never print at the same time, when semaphores[0]
\* starts at 0 or 1.
THEOREM OneThreadPrints ==
    ASSUME Garbage \subseteq {0, 1} PROVE Spec => []OnePrints
<1>1. Init => RingInv
  BY InitRing
<1>2. Spec => []RingInv
  BY <1>1, AlwaysPlaces, NextRing, PTL DEF Spec
<1>3. Places /\ RingInv => OnePrints
  BY DEF Places, RingInv, OnePrints, TokenAt, Idle
<1> QED
  BY <1>2, <1>3, AlwaysPlaces, PTL

\* A step outputs the next line of the picture, or none.
LEMMA OutputsNext ==
    TypeOK /\ Places /\ RingInv /\ RowsInv /\ [Next]_vars => [Picture!OutputLine]_out
<1> SUFFICES ASSUME TypeOK, Places, RingInv, RowsInv, [Next]_vars
             PROVE  out' = out \/ Picture!OutputLine
  OBVIOUS
<1>1. CASE OutputRow
  BY <1>1 DEF OutputRow, Places, RowsInv, Picture!OutputLine
<1>2. ASSUME NEW r \in Threads, OutputLine(r) PROVE Picture!OutputLine
  <2>1. program = "ring" /\ pc[r] = "print" /\ index[r] < y_chars /\ out' = Append(out, index[r])
    BY <1>2 DEF OutputLine, Runs, Places
  <2>2. PICK t \in Threads : TokenAt(t)
    BY <2>1 DEF RingInv, Idle
  <2>3. t = r
    BY <2>1, <2>2 DEF TokenAt, Idle
  <2>4. Len(out) = index[r]
    BY <2>1, <2>2, <2>3 DEF TokenAt
  <2> QED
    BY <2>1, <2>4 DEF Picture!OutputLine
<1>3. ASSUME NEW r \in Threads, Thread(r), ~OutputLine(r) PROVE out' = out
  BY <1>3 DEF Thread, Leave, MakeTable, ComputeLine, SemWait, SemPost, LoadElement, StoreElement
<1>4. CASE Create \/ CreateFails \/ Join \/ VerifyArray \/ UNCHANGED vars
  BY <1>4 DEF Create, CreateFails, Join, VerifyArray, vars
<1> QED
  BY <1>1, <1>2, <1>3, <1>4 DEF Next, Main

\* Both mandelbrot programs implement LineOutput: every line once, in order,
\* whatever the number of threads and however they are scheduled.
THEOREM PictureInOrder ==
    ASSUME Garbage \subseteq {0, 1} PROVE Spec => LinesInOrder
<1>1. Init => RingInv
  BY InitRing
<1>2. Spec => []RingInv
  BY <1>1, AlwaysPlaces, NextRing, PTL DEF Spec
<1>3. Init => Picture!Init
  BY DEF Init, Picture!Init
<1> QED
  BY <1>2, <1>3, AlwaysPlaces, AlwaysStrides, OutputsNext, PTL DEF Spec, LinesInOrder, Picture!Spec
=============================================================================
