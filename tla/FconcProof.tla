----------------------------- MODULE FconcProof -----------------------------
(***************************************************************************)
(* Proofs about Fconc, for any files, any contents, any size of the buffer *)
(* and any way the kernel cuts reads and writes into pieces.               *)
(***************************************************************************)
EXTENDS Fconc, SequenceTheorems, TLAPS

\* Another name never stands for the output: what warning() cannot see.
OneNameEach ==
    \A c \in Calls : Len(c) \in {2, 3} =>
        \A i \in 1 .. 2 :
            File[c[i]] = File[IF Len(c) = 3 THEN c[3] ELSE Default] =>
                c[i] = IF Len(c) = 3 THEN c[3] ELSE Default

\* What is known where the program is.
Places ==
    /\ pc \notin {"check", "done"} => Len(argv) \in {2, 3} /\ ~SameName
    /\ pc = "check" => disk = Disk /\ k = 1
    /\ pc = "open" => disk = Disk /\ \A i \in 1 .. 2 : i < k => Disk[fd(i)] # NoFile
    /\ pc \in {"check", "open"} => \A i \in 1 .. 2 : pos[i] = 0

TypeInv == TypeOK /\ Places

LEMMA Descriptors ==
    ASSUME TypeOK, Len(argv) \in {2, 3}, NEW i \in 1 .. 3
    PROVE  fd(i) \in Files
<1>1. argv \in Seq(Names)
  BY FconcAssumption DEF TypeOK
<1>2. \A j \in 1 .. Len(argv) : argv[j] \in Names
  BY <1>1, ElementOfSeq
<1>3. (IF i = 3 THEN outf ELSE argv[i]) \in Names
  BY <1>2, FconcAssumption DEF outf
<1> QED
  BY <1>3, FconcAssumption DEF fd

\* The two parts of a sequence.
LEMMA Cut ==
    ASSUME NEW s \in Seq(Nat), NEW p \in Nat, NEW n \in Nat \ {0}, p + n <= Len(s)
    PROVE  /\ SubSeq(s, p + 1, p + n) \in Seq(Nat)
           /\ Len(SubSeq(s, p + 1, p + n)) = n
           /\ SubSeq(s, p + n + 1, Len(s)) \in Seq(Nat)
           /\ Len(SubSeq(s, p + n + 1, Len(s))) = Len(s) - (p + n)
           /\ SubSeq(s, p + 1, p + n) \o SubSeq(s, p + n + 1, Len(s))
                = SubSeq(s, p + 1, Len(s))
<1>1. Len(s) \in Nat /\ \A i \in 1 .. Len(s) : s[i] \in Nat
  BY LenProperties, ElementOfSeq
<1>2. /\ SubSeq(s, p + 1, p + n) \in Seq(Nat)
      /\ Len(SubSeq(s, p + 1, p + n)) = IF p + 1 <= p + n THEN (p + n) - (p + 1) + 1 ELSE 0
  <2>1. p + 1 \in Int /\ p + n \in Int /\ \A i \in p + 1 .. p + n : s[i] \in Nat
    BY <1>1
  <2> QED
    BY <2>1, SubSeqProperties
<1>3. /\ SubSeq(s, p + n + 1, Len(s)) \in Seq(Nat)
      /\ Len(SubSeq(s, p + n + 1, Len(s)))
           = IF p + n + 1 <= Len(s) THEN Len(s) - (p + n + 1) + 1 ELSE 0
  <2>1. p + n + 1 \in Int /\ Len(s) \in Int /\ \A i \in p + n + 1 .. Len(s) : s[i] \in Nat
    BY <1>1
  <2> QED
    BY <2>1, SubSeqProperties
<1>4. SubSeq(s, p + 1, p + n) \o SubSeq(s, p + n + 1, Len(s)) = SubSeq(s, p + 1, Len(s))
  <2>1. PICK a, b, c : a = p + 1 /\ b = p + n /\ c = Len(s)
    OBVIOUS
  <2>2. a \in 1 .. Len(s) + 1 /\ b \in a - 1 .. Len(s) /\ c \in b .. Len(s)
    BY <1>1, <2>1
  <2>3. SubSeq(s, a, b) \o SubSeq(s, b + 1, c) = SubSeq(s, a, c)
    BY <2>2, ConcatAdjacentSubSeq, Zenon
  <2> QED
    BY <2>1, <2>3
<1>5. /\ Len(SubSeq(s, p + 1, p + n)) = n
      /\ Len(SubSeq(s, p + n + 1, Len(s))) = Len(s) - (p + n)
  BY <1>1, <1>2, <1>3
<1> QED
  BY <1>2, <1>3, <1>4, <1>5

LEMMA EmptyIsEmpty ==
    ASSUME NEW s \in Seq(Nat)
    PROVE  s = <<>> <=> Len(s) = 0
  BY EmptySeq

LEMMA InitTypes == Init => TypeInv
<1> SUFFICES ASSUME Init PROVE TypeInv
  OBVIOUS
<1>1. <<>> \in Seq(Nat)
  BY EmptySeq
<1>2. \A f \in Files : disk[f] = NoFile \/ disk[f] \in Seq(Nat)
  BY FconcAssumption DEF Init
<1>3. DOMAIN disk = Files /\ pos \in [1 .. 2 -> Nat]
  BY FconcAssumption DEF Init
<1>4. retry \in BOOLEAN /\ lost \in BOOLEAN
  BY Zenon DEF Init
<1>5. TypeOK
  BY <1>1, <1>2, <1>3, <1>4 DEF Init, TypeOK
<1> QED
  BY <1>5 DEF Init, TypeInv, Places

LEMMA NextTypes == TypeInv /\ [Next]_vars => TypeInv'
<1> SUFFICES ASSUME TypeInv, [Next]_vars PROVE TypeInv'
  OBVIOUS
<1> USE DEF TypeInv
<1>f. \A i \in 1 .. 3 : Len(argv) \in {2, 3} => fd(i) \in Files
  BY Descriptors
<1>1. CASE CheckArgs
  BY <1>1 DEF CheckArgs, Usage, Exit, TypeOK, Places, SameName, fd, outf
<1>2. CASE Open
  <2>1. fd(k) \in Files /\ fd(3) \in Files
    BY <1>2, <1>f DEF Open, Places, TypeOK
  <2>2. CASE k < 3
    BY <1>2, <2>1, <2>2 DEF Open, TypeOK, Places, SameName, fd, outf
  <2>3. CASE k = 3
    <3>1. disk' = [disk EXCEPT ![fd(3)] = IF @ = NoFile THEN <<>> ELSE @]
      BY <1>2, <2>3 DEF Open
    <3>2. /\ DOMAIN disk' = Files
          /\ \A f \in Files : disk'[f] = NoFile \/ disk'[f] \in Seq(Nat)
      BY <3>1, EmptySeq DEF TypeOK
    <3>3. \A i \in 1 .. 3 : disk'[fd(i)] # NoFile
      <4>1. <<>> # NoFile
        BY EmptySeq, FconcAssumption
      <4>2. disk'[fd(3)] # NoFile
        BY <2>1, <3>1, <4>1 DEF TypeOK
      <4>3. \A i \in 1 .. 2 : fd(i) \in Files /\ disk[fd(i)] # NoFile
        BY <1>2, <1>f, <2>3 DEF Open, Places
      <4>4. \A i \in 1 .. 2 : disk'[fd(i)] # NoFile
        BY <2>1, <3>1, <4>1, <4>3 DEF TypeOK
      <4> QED
        BY <4>2, <4>4
    <3> QED
      BY <1>2, <2>3, <3>2, <3>3 DEF Open, TypeOK, Places, SameName, fd, outf
  <2> QED
    BY <2>2, <2>3 DEF TypeOK
<1>3. CASE OpenFails
  BY <1>3 DEF OpenFails, Exit, TypeOK, Places, SameName, fd, outf
<1>4. CASE Read
  <2>1. k \in 1 .. 2 /\ Len(argv) \in {2, 3} /\ disk[fd(k)] \in Seq(Nat)
    BY <1>4, <1>f DEF Read, TypeOK, Places
  <2>2. PICK n \in 1 .. BUFSIZE :
            /\ pos[k] + n <= Size
            /\ buffer' = SubSeq(disk[fd(k)], pos[k] + 1, pos[k] + n)
            /\ pos' = [pos EXCEPT ![k] = @ + n]
    BY <1>4 DEF Read
  <2>3. n \in Nat \ {0} /\ pos[k] \in Nat /\ pos[k] + n <= Len(disk[fd(k)])
    BY <2>1, <2>2, FconcAssumption DEF Size, TypeOK
  <2>4. buffer' \in Seq(Nat) /\ Len(buffer') = n
    BY <2>1, <2>2, <2>3, Cut
  <2>5. buffer' # <<>>
    BY <2>3, <2>4, EmptyIsEmpty
  <2>6. pos' \in [1 .. 2 -> Nat]
    <3>1. pos \in [1 .. 2 -> Nat] /\ pos[k] + n \in Nat
      BY <2>1, <2>3 DEF TypeOK
    <3> QED
      BY <2>1, <2>2, <3>1
  <2> QED
    BY <1>4, <2>1, <2>4, <2>5, <2>6 DEF Read, TypeOK, Places, SameName, fd, outf
<1>5. CASE EndOfFile
  BY <1>5 DEF EndOfFile, NextInput, TypeOK, Places, SameName, fd, outf
<1>6. CASE ReadFails
  BY <1>6 DEF ReadFails, NextInput, TypeOK, Places, SameName, fd, outf
<1>7. CASE Write
  <2>1. Len(argv) \in {2, 3} /\ fd(3) \in Files /\ disk[fd(3)] \in Seq(Nat) /\ pc = "write"
    BY <1>7, <1>f DEF Write, TypeOK, Places
  <2>2. PICK n \in 1 .. Len(buffer) :
            /\ disk' = [disk EXCEPT ![fd(3)] = @ \o SubSeq(buffer, 1, n)]
            /\ buffer' = SubSeq(buffer, n + 1, Len(buffer))
            /\ pc' = IF n = Len(buffer) THEN "read" ELSE "write"
    BY <1>7 DEF Write
  <2>3. buffer \in Seq(Nat) /\ Len(buffer) \in Nat
    BY LenProperties DEF TypeOK
  <2>4. /\ SubSeq(buffer, 0 + 1, 0 + n) \in Seq(Nat)
        /\ SubSeq(buffer, 0 + n + 1, Len(buffer)) \in Seq(Nat)
        /\ Len(SubSeq(buffer, 0 + n + 1, Len(buffer))) = Len(buffer) - (0 + n)
    <3>1. 0 \in Nat /\ n \in Nat \ {0} /\ 0 + n <= Len(buffer)
      BY <2>3
    <3> QED
      BY <2>3, <3>1, Cut
  <2>5. /\ SubSeq(buffer, 1, n) \in Seq(Nat)
        /\ buffer' \in Seq(Nat) /\ Len(buffer') = Len(buffer) - n
    <3>1. 0 + 1 = 1 /\ 0 + n = n /\ 0 + n + 1 = n + 1
      BY <2>3
    <3> QED
      BY <2>2, <2>4, <3>1
  <2>6. buffer' # <<>> <=> pc' = "write"
    <3>1. buffer' = <<>> <=> Len(buffer') = 0
      BY <2>5, EmptyIsEmpty
    <3> QED
      BY <2>2, <2>3, <2>5, <3>1
  <2>7. disk[fd(3)] \o SubSeq(buffer, 1, n) \in Seq(Nat)
    BY <2>1, <2>5, ConcatProperties
  <2>8. /\ DOMAIN disk' = Files
        /\ \A f \in Files : disk'[f] = NoFile \/ disk'[f] \in Seq(Nat)
        /\ \A i \in 1 .. 3 : disk'[fd(i)] # NoFile
    BY <2>1, <2>2, <2>7, <1>f, FconcAssumption DEF TypeOK
  <2> QED
    BY <1>7, <2>1, <2>2, <2>5, <2>6, <2>8 DEF Write, TypeOK, Places, SameName, fd, outf
<1>8. CASE Interrupted
  BY <1>8 DEF Interrupted, TypeOK, Places, SameName, fd, outf
<1>9. CASE WriteFails
  BY <1>9, EmptySeq DEF WriteFails, TypeOK, Places, SameName, fd, outf
<1>10. CASE Close
  BY <1>10 DEF Close, Exit, TypeOK, Places, SameName, fd, outf
<1>11. CASE CloseFails
  BY <1>11 DEF CloseFails, Exit, TypeOK, Places, SameName, fd, outf
<1>12. CASE UNCHANGED vars
  BY <1>12 DEF vars, TypeOK, Places, SameName, fd, outf
<1> QED
  BY <1>1, <1>2, <1>3, <1>4, <1>5, <1>6, <1>7, <1>8, <1>9, <1>10, <1>11, <1>12 DEF Next

\* The types of the state; above all, that no descriptor is used of a file that
\* was not opened, and that a buffer waits exactly when it is not empty.
THEOREM FconcTypes == Spec => []TypeOK
<1>1. Spec => []TypeInv
  BY InitTypes, NextTypes, PTL DEF Spec
<1> QED
  BY <1>1, PTL DEF TypeInv
-----------------------------------------------------------------------------
LEMMA Files3 ==
    ASSUME TypeInv, pc \notin {"check", "done"}
    PROVE  Len(argv) \in {2, 3} /\ ~SameName /\ \A i \in 1 .. 3 : fd(i) \in Files
<1>1. Len(argv) \in {2, 3} /\ ~SameName
  BY DEF TypeInv, Places
<1> QED
  BY <1>1, Descriptors DEF TypeInv

\* Only the output is written to.
LEMMA OnlyOutput ==
    ASSUME TypeInv, [Next]_vars, Apart
    PROVE  \A i \in 1 .. 2 : disk'[fd(i)] = disk[fd(i)]
<1>1. CASE disk' = disk
  BY <1>1
<1>2. CASE Open \/ Write
  <2>1. pc \notin {"check", "done"}
    BY <1>2 DEF Open, Write
  <2>2. fd(3) \in Files /\ \A i \in 1 .. 2 : fd(i) \in Files /\ fd(i) # fd(3)
    BY <2>1, Files3 DEF Apart
  <2>3. DOMAIN disk = Files
    BY DEF TypeInv, TypeOK
  <2>4. \/ disk' = disk
        \/ disk' = [disk EXCEPT ![fd(3)] = IF @ = NoFile THEN <<>> ELSE @]
        \/ \E n \in 1 .. Len(buffer) :
              disk' = [disk EXCEPT ![fd(3)] = @ \o SubSeq(buffer, 1, n)]
    BY <1>2 DEF Open, Write
  <2> QED
    BY <2>2, <2>3, <2>4
<1> QED
  BY <1>1, <1>2
     DEF Next, CheckArgs, OpenFails, Read, EndOfFile, ReadFails, Interrupted, WriteFails,
         Close, CloseFails, vars

\* The program writes to none of its inputs, unless it chose the output itself,
\* if no file has two names.
THEOREM InputsStay ==
    ASSUME OneNameEach PROVE Spec => InputsKept
<1>1. Spec => []TypeInv
  BY InitTypes, NextTypes, PTL DEF Spec
<1>2. ASSUME TypeInv, [Next]_vars, Len(argv) >= 2, ~Overlooked, NEW i \in 1 .. 2
      PROVE  disk'[fd(i)] = disk[fd(i)]
  <2>1. CASE disk' = disk
    BY <2>1
  <2>2. CASE disk' # disk
    <3>1. pc \notin {"check", "done"}
      BY <1>2, <2>2
         DEF Next, CheckArgs, Open, OpenFails, Read, EndOfFile, ReadFails, Write,
             Interrupted, WriteFails, Close, CloseFails, vars
    <3>2. Len(argv) \in {2, 3} /\ ~SameName /\ argv \in Calls
      BY <1>2, <3>1 DEF TypeInv, TypeOK, Places
    <3>3. Apart
      BY <1>2, <3>2 DEF OneNameEach, Overlooked, SameName, Apart, fd, outf
    <3> QED
      BY <1>2, <3>3, OnlyOutput
  <2> QED
    BY <2>1, <2>2
<1>3. TypeInv /\ [Next]_vars =>
        [Len(argv) >= 2 /\ ~Overlooked =>
            \A i \in 1 .. 2 : disk'[fd(i)] = disk[fd(i)]]_vars
  BY <1>2
<1> QED
  BY <1>1, <1>3, PTL DEF Spec, InputsKept
-----------------------------------------------------------------------------
\* How far the copy is.
Progress ==
    /\ Len(argv) \in {2, 3} => \A i \in 1 .. 2 : disk[fd(i)] = Disk[fd(i)]
    /\ Copying => \A i \in 1 .. 2 : pos[i] <= Len(Content(fd(i)))
    /\ pc \in {"read", "write"} /\ k = 1 => pos[2] = 0
    /\ (pc \in {"read", "write"} /\ k = 2) \/ pc = "close" =>
          (~lost => pos[1] = Len(Content(fd(1))))
    /\ pc = "close" /\ ~lost => pos[2] = Len(Content(fd(2)))

CopyInv == TypeInv /\ (Apart => Progress /\ EveryByteOnce /\ DoneMeansCopied)

LEMMA Contents ==
    ASSUME NEW f \in Files
    PROVE  Content(f) \in Seq(Nat) /\ Len(Content(f)) \in Nat
<1>1. Content(f) \in Seq(Nat)
  BY FconcAssumption, EmptySeq DEF Content
<1> QED
  BY <1>1, LenProperties

LEMMA AllAndNothing ==
    ASSUME NEW s \in Seq(Nat)
    PROVE  /\ SubSeq(s, 0 + 1, Len(s)) = s
           /\ SubSeq(s, Len(s) + 1, Len(s)) = <<>>
<1>1. Len(s) \in Nat
  BY LenProperties
<1>2. 0 + 1 = 1 /\ Len(s) + 1 \in Int /\ Len(s) \in Int /\ Len(s) < Len(s) + 1
  BY <1>1
<1>3. SubSeq(s, Len(s) + 1, Len(s)) = <<>>
  BY <1>2, SubSeqEmpty, Zenon
<1>4. SubSeq(s, 1, Len(s)) = s
  BY SubSeqFull
<1> QED
  BY <1>2, <1>3, <1>4

LEMMA Associative ==
    ASSUME NEW r \in Seq(Nat), NEW s \in Seq(Nat), NEW t \in Seq(Nat)
    PROVE  (r \o s) \o t = r \o (s \o t)
  BY ConcatAssociative

LEMMA InitCopy == Init => CopyInv
<1> SUFFICES ASSUME Init PROVE CopyInv
  OBVIOUS
<1>1. Progress /\ EveryByteOnce /\ DoneMeansCopied
  BY DEF Init, Progress, EveryByteOnce, DoneMeansCopied, Copying
<1> QED
  BY <1>1, InitTypes DEF CopyInv

\* Steps of a copy whose output is no input.
LEMMA NextCopyApart ==
    ASSUME CopyInv, [Next]_vars, Apart, Apart'
    PROVE  CopyInv'
<1>t. TypeInv'
  BY NextTypes DEF CopyInv
<1>a. argv' = argv /\ outf' = outf /\ (SameName' <=> SameName)
  BY DEF Next, CheckArgs, Open, OpenFails, Read, EndOfFile, ReadFails, Write, Interrupted,
         WriteFails, Close, CloseFails, vars, outf, SameName
<1>b. \A i \in 1 .. 3 : fd(i)' = fd(i) /\ Content(fd(i))' = Content(fd(i))
  BY <1>a DEF fd, Content
<1>c. /\ fd(1)' = fd(1) /\ fd(2)' = fd(2) /\ fd(3)' = fd(3)
      /\ Content(fd(1))' = Content(fd(1)) /\ Content(fd(2))' = Content(fd(2))
      /\ Content(fd(3))' = Content(fd(3))
  BY <1>b
<1>p. Len(argv) \in {2, 3} => \A i \in 1 .. 2 : disk'[fd(i)] = Disk[fd(i)]
  <2>1. Len(argv) \in {2, 3} => \A i \in 1 .. 2 : disk[fd(i)] = Disk[fd(i)]
    BY DEF CopyInv, Progress
  <2>2. TypeInv
    BY DEF CopyInv
  <2> QED
    BY <2>1, <2>2, OnlyOutput
<1>q. (Len(argv) \in {2, 3} => \A i \in 1 .. 2 : disk[fd(i)] = Disk[fd(i)])'
  BY <1>p, <1>b, <1>a
<1>k. pos \in [1 .. 2 -> Nat] /\ k \in 1 .. 3 /\ buffer \in Seq(Nat)
  BY DEF CopyInv, TypeInv, TypeOK
<1>s. ASSUME pc \notin {"check", "done"}
      PROVE  /\ Len(argv) \in {2, 3}
             /\ \A i \in 1 .. 3 : fd(i) \in Files
             /\ Content(fd(1)) \in Seq(Nat) /\ Content(fd(2)) \in Seq(Nat)
             /\ Content(fd(3)) \in Seq(Nat)
             /\ Len(Content(fd(1))) \in Nat /\ Len(Content(fd(2))) \in Nat
  <2>1. Len(argv) \in {2, 3} /\ \A i \in 1 .. 3 : fd(i) \in Files
    BY <1>s, Files3 DEF CopyInv
  <2> QED
    BY <2>1, Contents
<1>d. ASSUME Copying
      PROVE  /\ \A i \in 1 .. 3 : disk[fd(i)] # NoFile /\ disk[fd(i)] \in Seq(Nat)
             /\ \A i \in 1 .. 2 : disk[fd(i)] = Content(fd(i))
  <2>1. \A i \in 1 .. 3 : disk[fd(i)] # NoFile /\ disk[fd(i)] \in Seq(Nat)
    BY <1>d, <1>s DEF Copying, CopyInv, TypeInv, TypeOK
  <2> QED
    BY <2>1, <1>d, <1>s DEF Copying, CopyInv, Progress, Content
<1>u. Unread(1)' = SubSeq(Content(fd(1)), pos'[1] + 1, Len(Content(fd(1))))
      /\ Unread(2)' = SubSeq(Content(fd(2)), pos'[2] + 1, Len(Content(fd(2))))
  BY <1>c DEF Unread
<1>1. CASE CheckArgs
  <2>1. pc' \in {"open", "done"}
    BY <1>1 DEF CheckArgs, Exit
  <2>2. Progress' /\ EveryByteOnce'
    <3>1. ~Copying' /\ pc' \notin {"read", "write", "close"}
      BY <2>1 DEF Copying
    <3>2. (Len(argv) \in {2, 3} => \A i \in 1 .. 2 : disk[fd(i)] = Disk[fd(i)])'
      BY <1>p, <1>b, <1>a
    <3> QED
      BY <3>1, <3>2 DEF Progress, EveryByteOnce
  <2>3. pc' = "done" => Usage \/ SameName
    BY <1>1 DEF CheckArgs
  <2>4. DoneMeansCopied'
    <3>1. Len(argv) \in {2, 3} => ~SameName
      BY DEF SameName, Apart, fd, outf
    <3> QED
      BY <2>3, <3>1, <1>a DEF DoneMeansCopied, Usage
  <2> QED
    BY <1>t, <2>2, <2>4 DEF CopyInv
<1>2. CASE Open
  <2>1. pc = "open" /\ pos' = pos /\ pos[1] = 0 /\ pos[2] = 0 /\ disk = Disk
    BY <1>2 DEF Open, CopyInv, TypeInv, Places
  <2>2. Progress'
    BY <1>2, <2>1, <1>p, <1>c, <1>s, <1>k DEF Open, Progress, Copying
  <2>3. ASSUME Copying' PROVE disk'[fd(3)] = Content(fd(3)) /\ buffer' = <<>>
    <3>1. k = 3 /\ buffer' = buffer /\ buffer = <<>>
      BY <1>2, <2>3, <1>k DEF Open, Copying, CopyInv, TypeInv, TypeOK
    <3>2. fd(3) \in DOMAIN disk
      BY <2>1, <1>s DEF CopyInv, TypeInv, TypeOK
    <3> QED
      BY <1>2, <2>1, <3>1, <3>2 DEF Open, Content
  <2>4. EveryByteOnce'
    <3>1. Unread(1)' = Content(fd(1)) /\ Unread(2)' = Content(fd(2))
      BY <2>1, <1>u, <1>s, AllAndNothing
    <3>2. Content(fd(3)) \o <<>> = Content(fd(3))
      BY <2>1, <1>s, ConcatEmptySeq
    <3> QED
      BY <2>3, <3>1, <3>2, <1>c DEF EveryByteOnce
  <2> QED
    BY <1>2, <1>t, <2>2, <2>4 DEF Open, CopyInv, DoneMeansCopied
<1>3. CASE OpenFails
  BY <1>3, <1>t, <1>a, <1>b, <1>p
     DEF OpenFails, Exit, CopyInv, Progress, EveryByteOnce, DoneMeansCopied, Copying
<1>4. CASE Read
  <2>1. /\ pc = "read" /\ pc' = "write" /\ disk' = disk /\ k' = k /\ lost' = lost
        /\ k \in 1 .. 2 /\ buffer = <<>>
    BY <1>4 DEF Read, CopyInv, TypeInv, TypeOK
  <2>2. Copying
    BY <2>1 DEF Copying
  <2>3. PICK n \in 1 .. BUFSIZE :
            /\ pos[k] + n <= Len(Content(fd(k)))
            /\ buffer' = SubSeq(Content(fd(k)), pos[k] + 1, pos[k] + n)
            /\ pos' = [pos EXCEPT ![k] = @ + n]
    BY <1>4, <2>1, <2>2, <1>d DEF Read, Size
  <2>4. /\ n \in Nat \ {0} /\ pos[k] \in Nat /\ pos'[k] = pos[k] + n
        /\ \A i \in 1 .. 2 : i # k => pos'[i] = pos[i]
    BY <2>1, <2>3, <1>k, FconcAssumption
  <2>5. Content(fd(k)) \in Seq(Nat)
    BY <2>1, <1>s
  <2>6. /\ buffer' \in Seq(Nat)
        /\ SubSeq(Content(fd(k)), pos[k] + n + 1, Len(Content(fd(k)))) \in Seq(Nat)
        /\ buffer' \o SubSeq(Content(fd(k)), pos[k] + n + 1, Len(Content(fd(k))))
             = SubSeq(Content(fd(k)), pos[k] + 1, Len(Content(fd(k))))
    BY <2>3, <2>4, <2>5, Cut
  <2>7. Progress'
    <3>1. \A i \in 1 .. 2 : pos'[i] <= Len(Content(fd(i))')
      BY <2>1, <2>2, <2>3, <2>4, <1>b DEF CopyInv, Progress
    <3>2. k = 1 => pos'[2] = 0
      BY <2>1, <2>4 DEF CopyInv, Progress
    <3>3. k = 2 /\ ~lost => pos'[1] = Len(Content(fd(1)))
      BY <2>1, <2>4 DEF CopyInv, Progress
    <3> QED
      BY <2>1, <3>1, <3>2, <3>3, <1>q, <1>b, <1>c DEF Progress
  <2>8. disk[fd(3)] \in Seq(Nat) /\ disk[fd(3)] \o <<>> = disk[fd(3)]
    BY <2>2, <1>d, ConcatEmptySeq
  <2>9. ASSUME ~lost
        PROVE  disk[fd(3)] \o Unread(1) \o Unread(2)
                 = Content(fd(3)) \o Content(fd(1)) \o Content(fd(2))
    BY <2>1, <2>2, <2>8, <2>9 DEF CopyInv, EveryByteOnce
  <2>10. ASSUME k = 1 PROVE EveryByteOnce'
    <3>1. Unread(2)' = Unread(2)
      <4>1. pos'[2] = pos[2]
        BY <2>4, <2>10
      <4> QED
        BY <4>1, <1>u DEF Unread
    <3>2. Unread(1)' \in Seq(Nat) /\ buffer' \o Unread(1)' = Unread(1)
      BY <2>4, <2>6, <2>10, <1>u DEF Unread
    <3>3. (disk[fd(3)] \o buffer') \o Unread(1)' = disk[fd(3)] \o Unread(1)
      <4>1. (disk[fd(3)] \o buffer') \o Unread(1)' = disk[fd(3)] \o (buffer' \o Unread(1)')
        BY <2>6, <2>8, <3>2, Associative
      <4> QED
        BY <4>1, <3>2
    <3> QED
      BY <2>1, <2>9, <3>1, <3>3, <1>c DEF EveryByteOnce
  <2>11. ASSUME k = 2 PROVE EveryByteOnce'
    <3>1. ASSUME ~lost PROVE Unread(1)' = <<>> /\ Unread(1) = <<>>
      <4>1. pos[1] = Len(Content(fd(1))) /\ pos'[1] = pos[1]
        BY <2>1, <2>4, <2>11, <3>1 DEF CopyInv, Progress
      <4> QED
        BY <4>1, <2>1, <1>s, <1>u, AllAndNothing DEF Unread
    <3>2. Unread(2)' \in Seq(Nat) /\ buffer' \o Unread(2)' = Unread(2)
      BY <2>4, <2>6, <2>11, <1>u DEF Unread
    <3>3. (disk[fd(3)] \o buffer') \o Unread(2)' = disk[fd(3)] \o Unread(2)
      <4>1. (disk[fd(3)] \o buffer') \o Unread(2)' = disk[fd(3)] \o (buffer' \o Unread(2)')
        BY <2>6, <2>8, <3>2, Associative
      <4> QED
        BY <4>1, <3>2
    <3>4. (disk[fd(3)] \o buffer') \o <<>> = disk[fd(3)] \o buffer'
      BY <2>6, <2>8, ConcatProperties, ConcatEmptySeq
    <3> QED
      BY <2>1, <2>8, <2>9, <3>1, <3>3, <3>4, <1>c DEF EveryByteOnce
  <2>12. EveryByteOnce'
    BY <2>1, <2>10, <2>11
  <2> QED
    BY <1>t, <2>1, <2>7, <2>12 DEF CopyInv, DoneMeansCopied
<1>5. CASE EndOfFile
  <2>1. /\ pc = "read" /\ pc' \in {"read", "close"} /\ k \in 1 .. 2 /\ buffer = <<>>
        /\ UNCHANGED <<disk, pos, buffer, lost>> /\ pos[k] >= Len(disk[fd(k)])
    BY <1>5 DEF EndOfFile, NextInput, Size, CopyInv, TypeInv, TypeOK
  <2>2. Copying
    BY <2>1 DEF Copying
  <2>3. pos[k] = Len(Content(fd(k)))
    <3>1. pos[k] >= Len(Content(fd(k))) /\ pos[k] <= Len(Content(fd(k)))
      BY <2>1, <2>2, <1>d DEF CopyInv, Progress
    <3> QED
      BY <2>1, <3>1, <1>s, <1>k
  <2>4. Progress'
    BY <1>5, <2>1, <2>2, <2>3, <1>p, <1>c
       DEF EndOfFile, NextInput, CopyInv, Progress, Copying
  <2>5. EveryByteOnce'
    BY <2>1, <2>2, <1>c DEF CopyInv, EveryByteOnce, Unread
  <2> QED
    BY <1>t, <2>1, <2>4, <2>5 DEF CopyInv, DoneMeansCopied
<1>6. CASE ReadFails
  <2>1. Progress'
    BY <1>6, <1>p, <1>c, <1>k DEF ReadFails, NextInput, CopyInv, Progress, Copying
  <2> QED
    BY <1>6, <1>t, <2>1
       DEF ReadFails, NextInput, CopyInv, EveryByteOnce, DoneMeansCopied, Copying
<1>7. CASE Write
  <2>1. /\ pc = "write" /\ pc' \in {"read", "write"} /\ UNCHANGED <<k, pos, lost>>
    BY <1>7 DEF Write
  <2>2. Copying
    BY <2>1 DEF Copying
  <2>3. PICK n \in 1 .. Len(buffer) :
            /\ disk' = [disk EXCEPT ![fd(3)] = @ \o SubSeq(buffer, 1, n)]
            /\ buffer' = SubSeq(buffer, n + 1, Len(buffer))
    BY <1>7 DEF Write
  <2>4. Len(buffer) \in Nat
    BY <1>k, LenProperties
  <2>5. /\ SubSeq(buffer, 0 + 1, 0 + n) \in Seq(Nat)
        /\ SubSeq(buffer, 0 + n + 1, Len(buffer)) \in Seq(Nat)
        /\ SubSeq(buffer, 0 + 1, 0 + n) \o SubSeq(buffer, 0 + n + 1, Len(buffer))
             = SubSeq(buffer, 0 + 1, Len(buffer))
    <3>1. 0 \in Nat /\ n \in Nat \ {0} /\ 0 + n <= Len(buffer)
      BY <2>4
    <3> QED
      BY <1>k, <3>1, Cut
  <2>6. 0 + 1 = 1 /\ 0 + n = n /\ 0 + n + 1 = n + 1
    BY <2>4
  <2>7. /\ SubSeq(buffer, 1, n) \in Seq(Nat) /\ buffer' \in Seq(Nat)
        /\ SubSeq(buffer, 1, n) \o buffer' = buffer
    BY <2>3, <2>5, <2>6, <1>k, SubSeqFull
  <2>8. disk[fd(3)] \in Seq(Nat) /\ disk'[fd(3)] = disk[fd(3)] \o SubSeq(buffer, 1, n)
    <3>1. fd(3) \in DOMAIN disk
      BY <2>1, <1>s DEF CopyInv, TypeInv, TypeOK
    <3> QED
      BY <2>2, <2>3, <3>1, <1>d
  <2>9. disk'[fd(3)] \o buffer' = disk[fd(3)] \o buffer
    <3>1. (disk[fd(3)] \o SubSeq(buffer, 1, n)) \o buffer'
            = disk[fd(3)] \o (SubSeq(buffer, 1, n) \o buffer')
      BY <2>7, <2>8, Associative
    <3> QED
      BY <2>7, <2>8, <3>1
  <2>10. Unread(1)' = Unread(1) /\ Unread(2)' = Unread(2)
    BY <2>1, <1>u DEF Unread
  <2>11. EveryByteOnce'
    BY <2>1, <2>2, <2>9, <2>10, <1>c DEF CopyInv, EveryByteOnce
  <2>12. Progress'
    BY <2>1, <2>2, <1>q, <1>b, <1>c DEF CopyInv, Progress, Copying
  <2> QED
    BY <1>t, <2>1, <2>11, <2>12 DEF CopyInv, DoneMeansCopied
<1>8. CASE Interrupted
  <2>1. Progress'
    BY <1>8, <1>p, <1>c, <1>k DEF Interrupted, CopyInv, Progress, Copying
  <2>2. EveryByteOnce'
    BY <1>8, <1>c DEF Interrupted, CopyInv, EveryByteOnce, Copying, Unread
  <2> QED
    BY <1>8, <1>t, <2>1, <2>2 DEF Interrupted, CopyInv, DoneMeansCopied
<1>9. CASE WriteFails
  <2>1. Progress'
    BY <1>9, <1>p, <1>c, <1>k DEF WriteFails, CopyInv, Progress, Copying
  <2> QED
    BY <1>9, <1>t, <2>1
       DEF WriteFails, CopyInv, EveryByteOnce, DoneMeansCopied, Copying
<1>10. CASE Close
  <2>1. pc = "close" /\ pc' \in {"close", "done"} /\ UNCHANGED <<disk, pos, buffer, lost>>
    BY <1>10 DEF Close, Exit
  <2>2. Copying /\ buffer = <<>>
    BY <2>1 DEF Copying, CopyInv, TypeInv, TypeOK
  <2>3. Progress'
    BY <2>1, <2>2, <1>q, <1>b, <1>c DEF CopyInv, Progress, Copying
  <2>4. EveryByteOnce'
    BY <2>1, <2>2, <1>c DEF CopyInv, EveryByteOnce, Unread
  <2>5. ASSUME ~lost
        PROVE  disk[fd(3)] = Content(fd(3)) \o Content(fd(1)) \o Content(fd(2))
    <3>1. Unread(1) = <<>> /\ Unread(2) = <<>>
      BY <2>1, <2>5, <1>s, AllAndNothing DEF CopyInv, Progress, Unread
    <3>2. disk[fd(3)] \o <<>> = disk[fd(3)]
      BY <2>2, <1>d, ConcatEmptySeq
    <3> QED
      BY <2>2, <2>5, <3>1, <3>2 DEF CopyInv, EveryByteOnce
  <2>6. DoneMeansCopied'
    BY <2>1, <2>5, <1>c DEF DoneMeansCopied
  <2> QED
    BY <1>t, <2>3, <2>4, <2>6 DEF CopyInv
<1>11. CASE CloseFails
  BY <1>11, <1>t, <1>a, <1>b, <1>p
     DEF CloseFails, Exit, CopyInv, Progress, EveryByteOnce, DoneMeansCopied, Copying
<1>12. CASE UNCHANGED vars
  <2>1. Progress'
    BY <1>12, <1>p, <1>c, <1>k DEF vars, CopyInv, Progress, Copying
  <2>2. EveryByteOnce'
    BY <1>12, <1>c DEF vars, CopyInv, EveryByteOnce, Copying, Unread
  <2>3. DoneMeansCopied'
    BY <1>12, <1>c, <1>a DEF vars, CopyInv, DoneMeansCopied, Usage
  <2> QED
    BY <1>t, <2>1, <2>2, <2>3 DEF CopyInv
<1> QED
  BY <1>1, <1>2, <1>3, <1>4, <1>5, <1>6, <1>7, <1>8, <1>9, <1>10, <1>11, <1>12 DEF Next

LEMMA NextCopy == CopyInv /\ [Next]_vars => CopyInv'
<1> SUFFICES ASSUME CopyInv, [Next]_vars PROVE CopyInv'
  OBVIOUS
<1>1. TypeInv'
  BY NextTypes DEF CopyInv
<1>2. Apart' <=> Apart
  <2>1. argv' = argv
    BY DEF Next, CheckArgs, Open, OpenFails, Read, EndOfFile, ReadFails, Write, Interrupted,
           WriteFails, Close, CloseFails, vars
  <2> QED
    BY <2>1 DEF Apart, fd, outf
<1>3. CASE Apart
  BY <1>2, <1>3, NextCopyApart
<1>4. CASE ~Apart
  BY <1>1, <1>2, <1>4 DEF CopyInv
<1> QED
  BY <1>3, <1>4

\* Short and interrupted writes and short reads lose no byte and repeat none.
THEOREM NoByteLost == Spec => []EveryByteOnce
<1>1. Spec => []CopyInv
  BY InitCopy, NextCopy, PTL DEF Spec
<1>2. CopyInv => EveryByteOnce
  BY DEF CopyInv, EveryByteOnce
<1> QED
  BY <1>1, <1>2, PTL

\* An exit with 0 means that both files were copied, for every command line but
\* those that only ask for the usage and those that name the output after an
\* input, unless a read or a write has failed.
THEOREM CopiesAll == Spec => []DoneMeansCopied
<1>1. Spec => []CopyInv
  BY InitCopy, NextCopy, PTL DEF Spec
<1>2. CopyInv => DoneMeansCopied
  BY DEF CopyInv, DoneMeansCopied
<1> QED
  BY <1>1, <1>2, PTL
-----------------------------------------------------------------------------
\* s is t[1 .. m] without some of its elements.
Picked(s, t, m) ==
    \E at \in [1 .. Len(s) -> 1 .. m] :
        /\ \A i \in 1 .. Len(s) : s[i] = t[at[i]]
        /\ \A i, j \in 1 .. Len(s) : i < j => at[i] < at[j]

Old == Len(Content(fd(3)))
New == SubSeq(disk[fd(3)], Old + 1, Len(disk[fd(3)]))
All == Content(fd(1)) \o Content(fd(2))

\* How much of All has been read, or given up.
ReadUpTo == IF k = 1 /\ pc # "close" THEN pos[1] ELSE Len(Content(fd(1))) + pos[2]

\* The buffer is what was read last, so what the output has got comes from
\* before it: this is what makes OutputInOrder inductive.
OrderInv ==
    Copying /\ Apart =>
        /\ Old <= Len(disk[fd(3)])
        /\ pc = "write" =>
              /\ Len(buffer) <= pos[k]
              /\ \A j \in 1 .. Len(buffer) :
                    buffer[j] = Content(fd(k))[pos[k] - Len(buffer) + j]
        /\ Picked(New, All, ReadUpTo - Len(buffer))

\* Sums of positions.
LEMMA Sums ==
    ASSUME NEW a \in Nat, NEW b \in Nat, NEW c \in Nat
    PROVE  /\ a <= b => a - 0 \in Nat /\ b - 0 \in Nat /\ a - 0 <= b - 0
           /\ a <= b => b - a \in Nat
           /\ a <= b /\ b <= c => /\ c + b - a \in Nat
                                  /\ \A n \in 0 .. a : \A j \in 1 .. n : b - a + j \in 1 .. c
           /\ \A d \in Nat, j \in Nat : b <= d => c + d - b + j = c + (d - b + j)
  OBVIOUS

LEMMA PickedNothing ==
    ASSUME NEW t, NEW m \in Nat
    PROVE  Picked(<<>>, t, m)
<1> DEFINE at == [i \in 1 .. 0 |-> 1]
<1>1. Len(<<>>) = 0 /\ \A i \in 1 .. 0 : FALSE
  BY EmptySeq
<1>2. at \in [1 .. 0 -> 1 .. m]
  BY <1>1
<1> QED
  BY <1>1, <1>2 DEF Picked

LEMMA PickedFurther ==
    ASSUME NEW s, NEW t, NEW m \in Nat, NEW n \in Nat, m <= n, Picked(s, t, m)
    PROVE  Picked(s, t, n)
<1>1. PICK at \in [1 .. Len(s) -> 1 .. m] :
          /\ \A i \in 1 .. Len(s) : s[i] = t[at[i]]
          /\ \A i, j \in 1 .. Len(s) : i < j => at[i] < at[j]
  BY DEF Picked
<1>2. 1 .. m \subseteq 1 .. n
  OBVIOUS
<1>3. at \in [1 .. Len(s) -> 1 .. n]
  BY <1>2
<1> QED
  BY <1>1, <1>3 DEF Picked

LEMMA PickedNext ==
    ASSUME NEW s \in Seq(Nat), NEW t \in Seq(Nat), NEW u \in Seq(Nat), NEW m \in Nat,
           Picked(s, t, m), \A j \in 1 .. Len(u) : u[j] = t[m + j]
    PROVE  Picked(s \o u, t, m + Len(u))
<1>1. PICK at \in [1 .. Len(s) -> 1 .. m] :
          /\ \A i \in 1 .. Len(s) : s[i] = t[at[i]]
          /\ \A i, j \in 1 .. Len(s) : i < j => at[i] < at[j]
  BY DEF Picked
<1> DEFINE a == Len(s)
           b == Len(u)
           all == [i \in 1 .. a + b |-> IF i <= a THEN at[i] ELSE m + (i - a)]
<1>2. a \in Nat /\ b \in Nat
  BY LenProperties
<1>3. Len(s \o u) = a + b
      /\ \A i \in 1 .. a + b : (s \o u)[i] = IF i <= a THEN s[i] ELSE u[i - a]
  BY ConcatProperties
<1>4. at \in [1 .. a -> 1 .. m]
      /\ (\A i \in 1 .. a : s[i] = t[at[i]])
      /\ (\A i, j \in 1 .. a : i < j => at[i] < at[j])
      /\ (\A j \in 1 .. b : u[j] = t[m + j])
  BY <1>1
<1> HIDE DEF a, b
<1>5. \A i \in 1 .. a + b :
          IF i <= a THEN i \in 1 .. a /\ at[i] \in 1 .. m
                    ELSE i - a \in 1 .. b /\ m + (i - a) \in m + 1 .. m + b
  BY <1>2, <1>4
<1>6. all \in [1 .. a + b -> 1 .. m + b]
  BY <1>2, <1>5
<1>7. \A i \in 1 .. a + b : (s \o u)[i] = t[all[i]]
  BY <1>3, <1>4, <1>5
<1>8. \A i, j \in 1 .. a + b : i < j => all[i] < all[j]
  BY <1>2, <1>4, <1>5
<1> HIDE DEF all
<1>9. Picked(s \o u, t, m + b)
  BY <1>3, <1>6, <1>7, <1>8 DEF Picked
<1> QED
  BY <1>9 DEF b

LEMMA RestOfConcat ==
    ASSUME NEW s \in Seq(Nat), NEW u \in Seq(Nat), NEW p \in Nat, p <= Len(s)
    PROVE  /\ SubSeq(s, p + 1, Len(s)) \in Seq(Nat)
           /\ SubSeq(s \o u, p + 1, Len(s \o u)) = SubSeq(s, p + 1, Len(s)) \o u
<1> DEFINE a == Len(s)
           b == Len(u)
           l == SubSeq(s \o u, p + 1, Len(s \o u))
           r == SubSeq(s, p + 1, Len(s))
<1>1. a \in Nat /\ b \in Nat /\ p <= a
  BY LenProperties
<1>2. s \o u \in Seq(Nat) /\ Len(s \o u) = a + b
      /\ \A i \in 1 .. a + b : (s \o u)[i] = IF i <= a THEN s[i] ELSE u[i - a]
  BY ConcatProperties
<1>3. \A i \in p + 1 .. a : s[i] \in Nat
  BY <1>1, ElementOfSeq
<1>4. \A i \in p + 1 .. a + b : (s \o u)[i] \in Nat
  BY <1>1, <1>2, ElementOfSeq
<1>5. /\ l \in Seq(Nat)
      /\ Len(l) = IF p + 1 <= a + b THEN (a + b) - (p + 1) + 1 ELSE 0
      /\ \A i \in 1 .. (a + b) - (p + 1) + 1 : l[i] = (s \o u)[p + 1 + i - 1]
  <2>1. p + 1 \in Int /\ a + b \in Int
    BY <1>1
  <2> HIDE DEF a, b
  <2>2. l = SubSeq(s \o u, p + 1, a + b)
    BY <1>2
  <2> QED
    BY <1>4, <2>1, <2>2, SubSeqProperties
<1>6. /\ r \in Seq(Nat)
      /\ Len(r) = IF p + 1 <= a THEN a - (p + 1) + 1 ELSE 0
      /\ \A i \in 1 .. a - (p + 1) + 1 : r[i] = s[p + 1 + i - 1]
  <2>1. p + 1 \in Int /\ a \in Int
    BY <1>1
  <2> QED
    BY <1>3, <2>1, SubSeqProperties
<1>7. /\ r \o u \in Seq(Nat) /\ Len(r \o u) = Len(r) + b
      /\ \A i \in 1 .. Len(r) + b : (r \o u)[i] = IF i <= Len(r) THEN r[i] ELSE u[i - Len(r)]
  BY <1>6, ConcatProperties
<1> HIDE DEF a, b, l, r
<1>8. Len(r) = a - p /\ Len(l) = Len(r \o u)
  BY <1>1, <1>5, <1>6, <1>7
<1>9. ASSUME NEW i \in 1 .. Len(l)
      PROVE  l[i] = (r \o u)[i]
  <2>1. i \in Nat /\ 1 <= i /\ i <= (a + b) - p /\ l[i] = (s \o u)[p + i]
    <3>1. Len(l) = (a + b) - p
      <4>1. Len(l) = (a - p) + b
        BY <1>7, <1>8
      <4> QED
        BY <1>1, <4>1
    <3>2. i \in Nat /\ 1 <= i /\ i <= (a + b) - p
      BY <1>1, <3>1
    <3>3. i \in 1 .. (a + b) - (p + 1) + 1 /\ p + 1 + i - 1 = p + i
      BY <1>1, <3>2
    <3> QED
      BY <1>5, <3>2, <3>3
  <2>2. CASE i <= a - p
    <3>1. (r \o u)[i] = r[i] /\ r[i] = s[p + i]
      <4>1. i \in 1 .. Len(r) + b /\ i <= Len(r)
            /\ i \in 1 .. a - (p + 1) + 1 /\ p + 1 + i - 1 = p + i
        BY <1>1, <1>8, <2>1, <2>2
      <4> QED
        BY <1>6, <1>7, <4>1
    <3>2. (s \o u)[p + i] = s[p + i]
      BY <1>1, <1>2, <2>1, <2>2
    <3> QED
      BY <2>1, <3>1, <3>2
  <2>3. CASE ~(i <= a - p)
    <3>1. (r \o u)[i] = u[i - (a - p)]
      BY <1>1, <1>7, <1>8, <2>1, <2>3
    <3>2. (s \o u)[p + i] = u[(p + i) - a]
      <4>1. p + i \in 1 .. a + b /\ ~(p + i <= a)
        BY <1>1, <2>1, <2>3
      <4> QED
        BY <1>2, <4>1
    <3>3. (p + i) - a = i - (a - p)
      BY <1>1, <2>1
    <3> QED
      BY <2>1, <3>1, <3>2, <3>3
  <2> QED
    BY <2>2, <2>3
<1>10. l = r \o u
  BY <1>5, <1>7, <1>8, <1>9, SeqEqual
<1> QED
  BY <1>6, <1>10 DEF l, r, a, b

LEMMA NextOrder == CopyInv /\ CopyInv' /\ OrderInv /\ [Next]_vars => OrderInv'
<1> SUFFICES ASSUME CopyInv, CopyInv', OrderInv, [Next]_vars, Copying', Apart'
             PROVE  OrderInv'
  BY DEF OrderInv
<1>a. argv' = argv /\ outf' = outf
  BY DEF Next, CheckArgs, Open, OpenFails, Read, EndOfFile, ReadFails, Write, Interrupted,
         WriteFails, Close, CloseFails, vars, outf
<1>b. \A i \in 1 .. 3 : fd(i)' = fd(i) /\ Content(fd(i))' = Content(fd(i))
  BY <1>a DEF fd, Content
<1>c. /\ Apart /\ fd(3)' = fd(3) /\ Old' = Old /\ All' = All
      /\ Content(fd(1))' = Content(fd(1)) /\ Content(fd(2))' = Content(fd(2))
  BY <1>b DEF Apart, Old, All
<1>i. CopyInv /\ TypeInv /\ TypeOK /\ Progress
  BY <1>c DEF CopyInv, TypeInv
<1>k. pos \in [1 .. 2 -> Nat] /\ k \in 1 .. 3 /\ buffer \in Seq(Nat) /\ Len(buffer) \in Nat
  BY <1>i, LenProperties DEF TypeOK
<1>p. pc \notin {"check", "done"}
  BY DEF Copying, Next, CheckArgs, Open, OpenFails, Read, EndOfFile, ReadFails, Write,
         Interrupted, WriteFails, Close, CloseFails, vars, Exit
<1>s. /\ Len(argv) \in {2, 3}
      /\ \A i \in 1 .. 3 : fd(i) \in Files /\ Content(fd(i)) \in Seq(Nat)
                           /\ Len(Content(fd(i))) \in Nat
  BY <1>i, <1>p, Files3, Contents
<1> DEFINE c1 == Len(Content(fd(1)))
           c2 == Len(Content(fd(2)))
<1>l. /\ c1 \in Nat /\ c2 \in Nat /\ Old \in Nat /\ Len(All) = c1 + c2 /\ All \in Seq(Nat)
      /\ \A j \in 1 .. c1 : All[j] = Content(fd(1))[j]
      /\ \A j \in 1 .. c2 : All[c1 + j] = Content(fd(2))[j]
  <2>1. Content(fd(1)) \in Seq(Nat) /\ Content(fd(2)) \in Seq(Nat)
        /\ c1 \in Nat /\ c2 \in Nat /\ Old \in Nat
    BY <1>s DEF Old
  <2>2. All \in Seq(Nat) /\ Len(All) = c1 + c2
        /\ \A i \in 1 .. c1 + c2 : All[i] = IF i <= c1 THEN Content(fd(1))[i]
                                                      ELSE Content(fd(2))[i - c1]
    BY <2>1, ConcatProperties DEF All
  <2> HIDE DEF c1, c2
  <2>3. \A j \in 1 .. c1 : All[j] = Content(fd(1))[j]
    BY <2>1, <2>2
  <2>4. ASSUME NEW j \in 1 .. c2 PROVE All[c1 + j] = Content(fd(2))[j]
    <3>1. c1 + j \in 1 .. c1 + c2 /\ ~(c1 + j <= c1) /\ (c1 + j) - c1 = j
      BY <2>1
    <3> QED
      BY <2>2, <3>1
  <2> QED
    BY <2>1, <2>2, <2>3, <2>4
<1>m. ReadUpTo \in Nat
  BY <1>k, <1>l DEF ReadUpTo
<1>n. Copying => /\ pos[1] <= c1 /\ pos[2] <= c2
                 /\ Old <= Len(disk[fd(3)])
                 /\ Picked(New, All, ReadUpTo - Len(buffer))
  BY <1>c, <1>i DEF Progress, OrderInv
<1>e. pc' \in {"read", "close"} => Len(buffer') = 0
  BY EmptySeq DEF CopyInv, TypeInv, TypeOK
<1>1. CASE Open
  <2>1. pc = "open" /\ pc' = "read" /\ k = 3 /\ k' = 1 /\ disk = Disk /\ pos' = pos
    BY <1>1, <1>i, <1>k DEF Open, Copying, TypeInv, Places
  <2>2. disk'[fd(3)] = Content(fd(3))
    <3>1. fd(3) \in DOMAIN disk
      BY <1>i, <1>s DEF TypeOK
    <3> QED
      BY <1>1, <2>1, <3>1 DEF Open, Content
  <2>3. Old' <= Len(disk'[fd(3)]) /\ New' = <<>>
    <3>1. New' = SubSeq(Content(fd(3)), Len(Content(fd(3))) + 1, Len(Content(fd(3))))
      BY <1>c, <2>2 DEF New, Old
    <3> QED
      BY <1>c, <1>l, <1>s, <2>2, <3>1, AllAndNothing DEF Old
  <2>4. ReadUpTo' - Len(buffer') \in Nat
    BY <1>e, <1>k, <2>1 DEF ReadUpTo
  <2> QED
    BY <1>c, <2>1, <2>3, <2>4, PickedNothing DEF OrderInv
<1>2. CASE Read
  <2>1. /\ pc = "read" /\ pc' = "write" /\ disk' = disk /\ k' = k /\ k \in 1 .. 2
        /\ buffer = <<>> /\ Copying
    BY <1>2, <1>i DEF Read, TypeOK, Copying
  <2>2. disk[fd(k)] = Content(fd(k)) /\ fd(k)' = fd(k) /\ Content(fd(k))' = Content(fd(k))
    BY <2>1, <1>b, <1>i, <1>s DEF Progress, TypeOK, Content
  <2>3. PICK n \in 1 .. BUFSIZE :
            /\ pos[k] + n <= Len(Content(fd(k)))
            /\ buffer' = SubSeq(Content(fd(k)), pos[k] + 1, pos[k] + n)
            /\ pos' = [pos EXCEPT ![k] = @ + n]
    BY <1>2, <2>2 DEF Read, Size
  <2>4. /\ n \in Nat \ {0} /\ pos[k] \in Nat /\ pos'[k] = pos[k] + n
        /\ \A i \in 1 .. 2 : i # k => pos'[i] = pos[i]
    BY <2>1, <2>3, <1>k, FconcAssumption
  <2>5. Len(buffer') = n /\ \A j \in 1 .. n : buffer'[j] = Content(fd(k))[pos[k] + j]
    <3>1. \A i \in pos[k] + 1 .. pos[k] + n : Content(fd(k))[i] \in Nat
      <4>1. Content(fd(k)) \in Seq(Nat) /\ Len(Content(fd(k))) \in Nat
        BY <1>s, <2>1
      <4>2. \A i \in pos[k] + 1 .. pos[k] + n : i \in 1 .. Len(Content(fd(k)))
        BY <2>3, <2>4, <4>1
      <4> QED
        BY <4>1, <4>2, ElementOfSeq
    <3>2. pos[k] + 1 \in Int /\ pos[k] + n \in Int
      BY <2>4
    <3>3. /\ Len(buffer') = IF pos[k] + 1 <= pos[k] + n
                            THEN (pos[k] + n) - (pos[k] + 1) + 1 ELSE 0
          /\ \A j \in 1 .. (pos[k] + n) - (pos[k] + 1) + 1 :
                buffer'[j] = Content(fd(k))[pos[k] + 1 + j - 1]
      BY <2>3, <3>1, <3>2, SubSeqProperties
    <3>4. (pos[k] + n) - (pos[k] + 1) + 1 = n /\ pos[k] + 1 <= pos[k] + n
          /\ \A j \in 1 .. n : pos[k] + 1 + j - 1 = pos[k] + j
      BY <2>4
    <3> QED
      BY <3>3, <3>4
  <2>6. ReadUpTo' - Len(buffer') = ReadUpTo - Len(buffer)
    <3>1. ReadUpTo' = ReadUpTo + n
      <4>1. CASE k = 1
        BY <2>1, <2>4, <4>1 DEF ReadUpTo
      <4>2. CASE k = 2
        BY <2>1, <2>4, <4>2, <1>c, <1>k, <1>l DEF ReadUpTo
      <4> QED
        BY <2>1, <4>1, <4>2
    <3>2. Len(buffer) = 0
      BY <2>1, EmptySeq
    <3> QED
      BY <3>1, <3>2, <2>4, <2>5, <1>m
  <2>7. New' = New
    BY <2>1, <1>c DEF New
  <2>8. /\ Len(buffer') <= pos'[k]
        /\ \A j \in 1 .. Len(buffer') :
              buffer'[j] = Content(fd(k))[pos'[k] - Len(buffer') + j]
    BY <2>4, <2>5
  <2> QED
    BY <1>c, <1>n, <2>1, <2>2, <2>6, <2>7, <2>8 DEF OrderInv
<1>3. CASE EndOfFile \/ ReadFails
  <2>1. /\ pc = "read" /\ pc' # "write" /\ disk' = disk /\ pos' = pos /\ buffer' = buffer
        /\ k \in 1 .. 2 /\ Copying
        /\ IF k = 1 THEN pc' = "read" /\ k' = 2 ELSE pc' = "close"
    BY <1>3, <1>i DEF EndOfFile, ReadFails, NextInput, TypeOK, Copying
  <2>2. ReadUpTo <= ReadUpTo' /\ ReadUpTo' \in Nat /\ Len(buffer) = 0
    <3>1. pos[1] \in Nat /\ pos[2] \in Nat /\ pos[1] <= c1 /\ c1 \in Nat /\ Len(buffer) = 0
      BY <2>1, <1>e, <1>k, <1>l, <1>n
    <3>2. ReadUpTo = IF k = 1 THEN pos[1] ELSE c1 + pos[2]
      BY <2>1 DEF ReadUpTo
    <3>3. ReadUpTo' = c1 + pos[2]
      BY <2>1, <1>c DEF ReadUpTo
    <3> HIDE DEF c1
    <3> QED
      BY <3>1, <3>2, <3>3
  <2>3. New' = New
    BY <2>1, <1>c DEF New
  <2>4. ReadUpTo - Len(buffer) <= ReadUpTo' - Len(buffer')
        /\ ReadUpTo - Len(buffer) \in Nat /\ ReadUpTo' - Len(buffer') \in Nat
    <3>1. Len(buffer') = 0 /\ ReadUpTo \in Nat /\ ReadUpTo' \in Nat /\ ReadUpTo <= ReadUpTo'
          /\ Len(buffer) = 0
      BY <2>1, <2>2, <1>m
    <3> QED
      BY <3>1, Sums, Zenon
  <2>5. Picked(New', All', ReadUpTo' - Len(buffer'))
    BY <1>c, <1>n, <2>1, <2>3, <2>4, PickedFurther
  <2> QED
    BY <1>c, <1>n, <2>1, <2>5 DEF OrderInv
<1>4. CASE Write
  <2>1. /\ pc = "write" /\ pc' \in {"read", "write"} /\ k' = k /\ pos' = pos /\ Copying
        /\ k \in 1 .. 2
    BY <1>4, <1>i DEF Write, Copying, TypeOK
  <2>2. PICK n \in 1 .. Len(buffer) :
            /\ disk' = [disk EXCEPT ![fd(3)] = @ \o SubSeq(buffer, 1, n)]
            /\ buffer' = SubSeq(buffer, n + 1, Len(buffer))
    BY <1>4 DEF Write
  <2> DEFINE u == SubSeq(buffer, 1, n)
             b == Len(buffer)
  <2>3. n \in Nat \ {0} /\ b \in Nat /\ n <= b
    BY <1>k
  <2>4. /\ u \in Seq(Nat) /\ Len(u) = n /\ Len(buffer') = b - n
        /\ \A j \in 1 .. n : u[j] = buffer[j]
        /\ \A j \in 1 .. b - n : buffer'[j] = buffer[n + j]
    <3>1. \A i \in 1 .. b : buffer[i] \in Nat
      BY <1>k, ElementOfSeq
    <3>2. 1 \in Int /\ n \in Int /\ n + 1 \in Int /\ b \in Int
      BY <2>3
    <3>3. /\ u \in Seq(Nat) /\ Len(u) = IF 1 <= n THEN n - 1 + 1 ELSE 0
          /\ \A i \in 1 .. n - 1 + 1 : u[i] = buffer[1 + i - 1]
      <4>1. \A i \in 1 .. n : buffer[i] \in Nat
        BY <2>3, <3>1
      <4> QED
        BY <3>2, <4>1, SubSeqProperties
    <3>4. /\ Len(buffer') = IF n + 1 <= b THEN b - (n + 1) + 1 ELSE 0
          /\ \A i \in 1 .. b - (n + 1) + 1 : buffer'[i] = buffer[n + 1 + i - 1]
      <4>1. \A i \in n + 1 .. b : buffer[i] \in Nat
        BY <2>3, <3>1
      <4> QED
        BY <2>2, <3>2, <4>1, SubSeqProperties
    <3> HIDE DEF u, b
    <3>5. /\ n - 1 + 1 = n /\ 1 <= n /\ b - (n + 1) + 1 = b - n
          /\ \A i \in 1 .. n : 1 + i - 1 = i
          /\ \A i \in 1 .. b - n : n + 1 + i - 1 = n + i
          /\ (IF n + 1 <= b THEN b - (n + 1) + 1 ELSE 0) = b - n
      BY <2>3
    <3> QED
      BY <3>3, <3>4, <3>5
  <2>5. disk[fd(3)] \in Seq(Nat) /\ disk'[fd(3)] = disk[fd(3)] \o u
    <3>1. fd(3) \in Files
      BY <1>s
    <3>2. disk[fd(3)] \in Seq(Nat)
      BY <2>1, <3>1, <1>i DEF TypeOK
    <3>3. fd(3) \in DOMAIN disk
      BY <3>1, <1>i DEF TypeOK
    <3> QED
      BY <2>2, <3>2, <3>3
  <2>6. Len(disk'[fd(3)]) = Len(disk[fd(3)]) + n /\ Len(disk[fd(3)]) \in Nat
    BY <2>4, <2>5, ConcatProperties, LenProperties
  <2>7. New \in Seq(Nat) /\ New' = New \o u
    <3>1. Old <= Len(disk[fd(3)])
      BY <1>n, <2>1
    <3>2. /\ SubSeq(disk[fd(3)], Old + 1, Len(disk[fd(3)])) \in Seq(Nat)
          /\ SubSeq(disk[fd(3)] \o u, Old + 1, Len(disk[fd(3)] \o u))
               = SubSeq(disk[fd(3)], Old + 1, Len(disk[fd(3)])) \o u
      BY <3>1, <2>4, <2>5, <1>l, RestOfConcat
    <3> QED
      BY <3>2, <2>5, <1>c DEF New
  <2>8. /\ b <= pos[k]
        /\ \A j \in 1 .. b : buffer[j] = Content(fd(k))[pos[k] - b + j]
        /\ pos[k] <= Len(Content(fd(k)))
    BY <1>c, <1>i, <2>1 DEF OrderInv, Progress
  <2>9. ReadUpTo = (IF k = 1 THEN pos[1] ELSE c1 + pos[2]) /\ ReadUpTo' = ReadUpTo
    BY <1>c, <2>1 DEF ReadUpTo
  <2>10. ReadUpTo - b \in Nat /\ \A j \in 1 .. n : u[j] = All[ReadUpTo - b + j]
    <3>1. CASE k = 1
      <4>1. pos[1] \in Nat /\ b <= pos[1] /\ pos[1] <= c1 /\ ReadUpTo = pos[1]
            /\ \A j \in 1 .. n : u[j] = Content(fd(1))[pos[1] - b + j]
        BY <2>3, <2>4, <2>8, <2>9, <3>1, <1>k
      <4> HIDE DEF u, b, c1
      <4>2. ASSUME NEW j \in 1 .. n PROVE u[j] = All[pos[1] - b + j]
        <5>1. b \in Nat /\ n \in Nat /\ n <= b /\ pos[1] \in Nat /\ c1 \in Nat
              /\ b <= pos[1] /\ pos[1] <= c1
          BY <2>3, <4>1, <1>l
        <5>2. pos[1] - b + j \in 1 .. c1
          BY <5>1, Sums
        <5> QED
          BY <4>1, <5>2, <1>l
      <4>3. ReadUpTo - b \in Nat
        BY <2>3, <4>1
      <4> QED
        BY <4>1, <4>2, <4>3
    <3>2. CASE k = 2
      <4>1. pos[2] \in Nat /\ b <= pos[2] /\ pos[2] <= c2 /\ ReadUpTo = c1 + pos[2]
            /\ \A j \in 1 .. n : u[j] = Content(fd(2))[pos[2] - b + j]
        BY <2>3, <2>4, <2>8, <2>9, <3>2, <1>k
      <4> HIDE DEF u, b, c1, c2
      <4>2. b \in Nat /\ n \in Nat /\ n <= b /\ pos[2] \in Nat /\ c1 \in Nat /\ c2 \in Nat
            /\ b <= pos[2] /\ pos[2] <= c2 /\ ReadUpTo = c1 + pos[2]
        BY <2>3, <4>1, <1>l
      <4>3. ASSUME NEW j \in 1 .. n PROVE u[j] = All[ReadUpTo - b + j]
        <5>1. pos[2] - b + j \in 1 .. c2
          BY <4>2, Sums
        <5>2. ReadUpTo - b + j = c1 + (pos[2] - b + j)
          BY <4>2, Sums
        <5>3. All[c1 + (pos[2] - b + j)] = Content(fd(2))[pos[2] - b + j]
          BY <5>1, <1>l
        <5> QED
          BY <4>1, <5>2, <5>3
      <4>4. ReadUpTo - b \in Nat
        BY <4>2
      <4> QED
        BY <4>3, <4>4
    <3> QED
      BY <2>1, <3>1, <3>2
  <2>11. Picked(New \o u, All, ReadUpTo - b + n)
    <3>1. Picked(New, All, ReadUpTo - b)
      BY <1>n, <2>1
    <3>2. \A j \in 1 .. Len(u) : u[j] = All[ReadUpTo - b + j]
      BY <2>4, <2>10
    <3>3. Picked(New \o u, All, ReadUpTo - b + Len(u))
      BY <1>l, <2>4, <2>7, <2>10, <3>1, <3>2, PickedNext
    <3> QED
      BY <2>4, <3>3
  <2>12. ReadUpTo - b + n = ReadUpTo' - Len(buffer')
    BY <2>3, <2>4, <2>9, <1>m
  <2>13. Old <= Len(disk'[fd(3)])
    BY <1>l, <1>n, <2>1, <2>3, <2>6
  <2>14. /\ Len(buffer') <= pos[k]
         /\ \A j \in 1 .. Len(buffer') :
               buffer'[j] = Content(fd(k))[pos[k] - Len(buffer') + j]
    <3>1. pos[k] \in Nat
      BY <1>k, <2>1
    <3> HIDE DEF b
    <3>2. Len(buffer') <= pos[k]
      BY <2>3, <2>4, <2>8, <3>1
    <3>3. ASSUME NEW j \in 1 .. b - n
          PROVE  buffer'[j] = Content(fd(k))[pos[k] - (b - n) + j]
      <4>1. n + j \in 1 .. b /\ pos[k] - b + (n + j) = pos[k] - (b - n) + j
        BY <2>3, <3>1
      <4> QED
        BY <2>4, <2>8, <4>1
    <3> QED
      BY <2>4, <3>2, <3>3
  <2>15. Picked(New', All', ReadUpTo' - Len(buffer'))
    BY <1>c, <2>7, <2>11, <2>12
  <2>16. fd(k)' = fd(k) /\ Content(fd(k))' = Content(fd(k))
    BY <1>b, <2>1
  <2> QED
    BY <1>c, <2>1, <2>13, <2>14, <2>15, <2>16 DEF OrderInv
<1>5. CASE WriteFails
  <2>1. /\ pc = "write" /\ pc' = "read" /\ k' = k /\ pos' = pos /\ disk' = disk /\ Copying
        /\ k \in 1 .. 2
    BY <1>5, <1>i DEF WriteFails, Copying, TypeOK
  <2>2. New' = New
    BY <2>1, <1>c DEF New
  <2>3. ReadUpTo' = ReadUpTo
    BY <2>1, <1>c DEF ReadUpTo
  <2>4. Len(buffer) <= pos[k]
    BY <1>c, <2>1 DEF OrderInv
  <2>5. ReadUpTo - Len(buffer) \in Nat /\ ReadUpTo' - Len(buffer') \in Nat
        /\ ReadUpTo - Len(buffer) <= ReadUpTo' - Len(buffer')
    BY <1>e, <1>k, <1>l, <1>m, <2>1, <2>3, <2>4 DEF ReadUpTo
  <2>6. Picked(New', All', ReadUpTo' - Len(buffer'))
    BY <1>c, <1>n, <2>1, <2>2, <2>5, PickedFurther
  <2> QED
    BY <1>c, <1>n, <2>1, <2>6 DEF OrderInv
<1>6. CASE Interrupted \/ UNCHANGED vars
  <2>1. UNCHANGED <<argv, disk, pc, k, pos, buffer>>
    BY <1>6 DEF Interrupted, vars
  <2>2. fd(k)' = fd(k) /\ Content(fd(k))' = Content(fd(k))
    BY <2>1, <1>a DEF fd, Content
  <2> QED
    BY <2>1, <2>2, <1>c DEF OrderInv, Copying, New, ReadUpTo
<1>7. CASE Close
  <2>1. /\ pc = "close" /\ pc' = "close" /\ UNCHANGED <<disk, pos, buffer>> /\ Copying
    BY <1>7 DEF Close, Exit, Copying
  <2>2. New' = New /\ ReadUpTo' = ReadUpTo
    BY <2>1, <1>c DEF New, ReadUpTo
  <2> QED
    BY <1>c, <1>n, <2>1, <2>2 DEF OrderInv
<1> QED
  BY <1>1, <1>2, <1>3, <1>4, <1>5, <1>6, <1>7
     DEF Next, CheckArgs, OpenFails, CloseFails, Exit, Copying

\* Whatever fails and however the kernel cuts the calls, the output has the
\* bytes of the inputs in their order, none twice: only a failed write() or
\* read() leaves some of them out.
THEOREM OrderKept == Spec => []OutputInOrder
<1>1. Spec => []CopyInv
  BY InitCopy, NextCopy, PTL DEF Spec
<1>2. Init => OrderInv
  BY DEF Init, OrderInv, Copying
<1>3. CopyInv /\ OrderInv => OutputInOrder
  <2> SUFFICES ASSUME CopyInv, OrderInv, Copying, Apart
               PROVE  Picked(New, All, Len(All))
    BY DEF OutputInOrder, Picked, New, Old, All
  <2>1. /\ \A i \in 1 .. 3 : fd(i) \in Files
        /\ pos \in [1 .. 2 -> Nat] /\ buffer \in Seq(Nat)
        /\ pos[1] <= Len(Content(fd(1))) /\ pos[2] <= Len(Content(fd(2)))
        /\ pc = "write" => k \in 1 .. 2 /\ Len(buffer) <= pos[k]
        /\ pc # "write" => buffer = <<>>
    BY Files3 DEF CopyInv, TypeInv, TypeOK, Progress, OrderInv, Copying
  <2>2. /\ Len(Content(fd(1))) \in Nat /\ Len(Content(fd(2))) \in Nat /\ Len(buffer) \in Nat
        /\ Len(All) = Len(Content(fd(1))) + Len(Content(fd(2)))
    BY <2>1, Contents, LenProperties, ConcatProperties DEF All
  <2>3. pc # "write" => Len(buffer) = 0
    BY <2>1, EmptySeq
  <2>4. ReadUpTo - Len(buffer) \in Nat /\ ReadUpTo - Len(buffer) <= Len(All)
        /\ Len(All) \in Nat
    <3>1. pos[1] \in Nat /\ pos[2] \in Nat
      BY <2>1
    <3>2. ReadUpTo \in Nat /\ ReadUpTo <= Len(All)
      BY <2>1, <2>2, <3>1 DEF ReadUpTo
    <3>3. Len(buffer) <= ReadUpTo
      BY <2>1, <2>2, <2>3, <3>1 DEF ReadUpTo
    <3> QED
      BY <2>2, <3>2, <3>3
  <2> QED
    BY <2>4, PickedFurther DEF OrderInv
<1> QED
  BY <1>1, <1>2, <1>3, NextOrder, PTL DEF Spec
=============================================================================
