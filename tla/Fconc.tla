------------------------------- MODULE Fconc -------------------------------
(***************************************************************************)
(* lab1/file_concat/fconc.c: copies two files, one after the other, to the *)
(* end of a third.  A name stands for a file; two names may stand for the  *)
(* same one, and the program compares only names.  Any call of the kernel  *)
(* may fail, and a read or a write may be short or interrupted.            *)
(***************************************************************************)
EXTENDS Integers, Sequences

CONSTANTS Names,     \* names of files
          Default,   \* "fconc.out"
          Help,      \* "--help"
          Files,     \* files
          File,      \* name -> the file it stands for
          NoFile,    \* content of a file that does not exist
          Disk,      \* file -> its content at the start, or NoFile
          Calls,     \* command lines: sequences of names
          BUFSIZE,
          DiskSize   \* a file cannot grow beyond this

ASSUME FconcAssumption ==
    /\ Default \in Names /\ Help \in Names /\ File \in [Names -> Files]
    /\ \A f \in Files : Disk[f] = NoFile \/ (Disk[f] # NoFile /\ Disk[f] \in Seq(Nat))
    /\ NoFile \notin Seq(Nat) /\ DOMAIN Disk = Files
    /\ Calls \subseteq Seq(Names)
    /\ BUFSIZE \in Nat \ {0} /\ DiskSize \in Nat

VARIABLES
    argv,    \* the names of the command line
    disk,    \* file -> its content
    pc,      \* check, open, read, write, close, done
    k,       \* which of the three files
    pos,     \* read offsets of the two input files
    buffer,  \* bytes read and not yet written
    retry,   \* the last write() was interrupted
    lost,    \* a read() or write() has failed for good
    code     \* what the program exits with

vars == <<argv, disk, pc, k, pos, buffer, retry, lost, code>>

Init ==
    /\ argv \in Calls
    /\ disk = Disk
    /\ pc = "check" /\ k = 1
    /\ pos = [i \in 1 .. 2 |-> 0]
    /\ buffer = <<>>
    /\ retry = FALSE /\ lost = FALSE
    /\ code = 0
-----------------------------------------------------------------------------
outf == IF Len(argv) = 3 THEN argv[3] ELSE Default

\* The files that the descriptors fd[0..2] are open for.
fd(i) == File[IF i = 3 THEN outf ELSE argv[i]]

Exit(c) == pc' = "done" /\ code' = c

\* Mutant of SameName: only the second input is looked at.
SameName_Second == Len(argv) = 3 /\ argv[3] = argv[2]

SameName == Len(argv) = 3 /\ (argv[3] = argv[2] \/ argv[3] = argv[1])

Usage == Len(argv) \notin {2, 3} \/ argv[1] = Help

\* usage() and warning() end the program with 0.
CheckArgs ==
    /\ pc = "check"
    /\ IF Usage \/ SameName THEN Exit(0) ELSE pc' = "open" /\ UNCHANGED code
    /\ UNCHANGED <<argv, disk, k, pos, buffer, retry, lost>>

\* O_CREAT and O_APPEND, but not O_TRUNC: an old output file keeps its content.
Open ==
    /\ pc = "open"
    /\ IF k < 3 THEN disk[fd(k)] # NoFile /\ disk' = disk
       ELSE disk' = [disk EXCEPT ![fd(3)] = IF @ = NoFile THEN <<>> ELSE @]
    /\ pc' = IF k < 3 THEN "open" ELSE "read"
    /\ k' = IF k < 3 THEN k + 1 ELSE 1
    /\ UNCHANGED <<argv, pos, buffer, retry, lost, code>>

OpenFails ==
    /\ pc = "open"
    /\ Exit(-1)
    /\ UNCHANGED <<argv, disk, k, pos, buffer, retry, lost>>

Size == Len(disk[fd(k)])

Read ==
    /\ pc = "read"
    /\ \E n \in 1 .. BUFSIZE :
          /\ pos[k] + n <= Size
          /\ buffer' = SubSeq(disk[fd(k)], pos[k] + 1, pos[k] + n)
          /\ pos' = [pos EXCEPT ![k] = @ + n]
    /\ pc' = "write"
    /\ UNCHANGED <<argv, disk, k, retry, lost, code>>

\* The loop around read() ends: on to the next input, or to the closes.
NextInput ==
    /\ pc' = IF k = 1 THEN "read" ELSE "close"
    /\ k' = IF k = 1 THEN 2 ELSE 1

\* Mutant of EndOfFile: a short read is taken for the end.
EndOfFile_Early ==
    /\ pc = "read" /\ (pos[k] >= Size \/ pos[k] % BUFSIZE # 0)
    /\ NextInput
    /\ UNCHANGED <<argv, disk, pos, buffer, retry, lost, code>>

\* Mutant of EndOfFile: read() >= 0 for read() > 0.
EndOfFile_NotSeen ==
    /\ pc = "read" /\ pos[k] >= Size
    /\ UNCHANGED vars

EndOfFile ==
    /\ pc = "read" /\ pos[k] >= Size
    /\ NextInput
    /\ UNCHANGED <<argv, disk, pos, buffer, retry, lost, code>>

\* read() returns -1, an interruption included: the same as the end.
ReadFails ==
    /\ pc = "read"
    /\ NextInput
    /\ lost' = TRUE
    /\ UNCHANGED <<argv, disk, pos, buffer, retry, code>>

Room == DiskSize - Len(disk[fd(3)])

\* Mutant of Write: the pointer into the buffer is not moved.
Write_SameBytes ==
    /\ pc = "write"
    /\ \E n \in 1 .. Len(buffer) :
          /\ n <= Room
          /\ disk' = [disk EXCEPT ![fd(3)] = @ \o SubSeq(buffer, 1, n)]
          /\ buffer' = SubSeq(buffer, 1, Len(buffer) - n)
          /\ pc' = IF n = Len(buffer) THEN "read" ELSE "write"
    /\ retry' = FALSE
    /\ UNCHANGED <<argv, k, pos, lost, code>>

\* write() takes some of the bytes.
Write ==
    /\ pc = "write"
    /\ \E n \in 1 .. Len(buffer) :
          /\ n <= Room
          /\ disk' = [disk EXCEPT ![fd(3)] = @ \o SubSeq(buffer, 1, n)]
          /\ buffer' = SubSeq(buffer, n + 1, Len(buffer))
          /\ pc' = IF n = Len(buffer) THEN "read" ELSE "write"
    /\ retry' = FALSE
    /\ UNCHANGED <<argv, k, pos, lost, code>>

\* Mutant of Interrupted: the interrupted write is not tried again.
Interrupted_GivesUp ==
    /\ pc = "write"
    /\ pc' = "read" /\ buffer' = <<>>
    /\ UNCHANGED <<argv, disk, k, pos, retry, lost, code>>

\* EINTR or EAGAIN: once more.
Interrupted ==
    /\ pc = "write"
    /\ retry' = TRUE
    /\ UNCHANGED <<argv, disk, pc, k, pos, buffer, lost, code>>

\* Any other error, a full disk too.  writep() returns it, main() does not look,
\* and the rest of the buffer is gone.
WriteFails ==
    /\ pc = "write"
    /\ pc' = "read" /\ buffer' = <<>>
    /\ retry' = FALSE /\ lost' = TRUE
    /\ UNCHANGED <<argv, disk, k, pos, code>>

Close ==
    /\ pc = "close"
    /\ IF k < 3 THEN k' = k + 1 /\ UNCHANGED <<pc, code>> ELSE k' = k /\ Exit(0)
    /\ UNCHANGED <<argv, disk, pos, buffer, retry, lost>>

CloseFails ==
    /\ pc = "close"
    /\ Exit(-1)
    /\ UNCHANGED <<argv, disk, k, pos, buffer, retry, lost>>

Next ==
    \/ CheckArgs \/ Open \/ OpenFails
    \/ Read \/ EndOfFile \/ ReadFails
    \/ Write \/ Interrupted \/ WriteFails
    \/ Close \/ CloseFails

Spec == Init /\ [][Next]_vars

\* The program goes on, and a write that is tried for ever is not interrupted
\* for ever.
FairSpec ==
    /\ Spec
    /\ WF_vars(CheckArgs \/ Open \/ OpenFails \/ Read \/ EndOfFile \/ Close)
    /\ WF_vars(Write \/ WriteFails)
-----------------------------------------------------------------------------
TypeOK ==
    /\ argv \in Calls
    /\ pc \in {"check", "open", "read", "write", "close", "done"}
    /\ k \in 1 .. 3 /\ (pc \in {"read", "write"} => k \in 1 .. 2)
    /\ pos \in [1 .. 2 -> Nat]
    /\ DOMAIN disk = Files
    /\ \A f \in Files : disk[f] = NoFile \/ disk[f] \in Seq(Nat)
    /\ pc \in {"read", "write", "close"} => \A i \in 1 .. 3 : disk[fd(i)] # NoFile
    /\ buffer \in Seq(Nat) /\ (pc = "write" <=> buffer # <<>>)
    /\ retry \in BOOLEAN /\ lost \in BOOLEAN
    /\ code \in {0, -1}

Content(f) == IF Disk[f] = NoFile THEN <<>> ELSE Disk[f]

\* What of input i has not been read.
Unread(i) == SubSeq(Content(fd(i)), pos[i] + 1, Len(Content(fd(i))))

Copying == pc \in {"read", "write", "close"}

\* The output is another file than the inputs.  If it is not, the program reads
\* what it appends, until the disk is full or a call fails.
Apart == fd(3) # fd(1) /\ fd(3) # fd(2)

\* At any point of the copy every byte is in one place, in its order: in the
\* output behind what was there before, in the buffer, or not yet read.  Short
\* and interrupted writes lose and repeat nothing.
EveryByteOnce ==
    Copying /\ Apart /\ ~lost =>
        disk[fd(3)] \o buffer \o Unread(1) \o Unread(2)
            = Content(fd(3)) \o Content(fd(1)) \o Content(fd(2))

\* Whatever fails, what is behind the old content of the output is some of the
\* bytes of the inputs in their order, none of them twice.
OutputInOrder ==
    Copying /\ Apart =>
        LET new == SubSeq(disk[fd(3)], Len(Content(fd(3))) + 1, Len(disk[fd(3)]))
            all == Content(fd(1)) \o Content(fd(2))
        IN  \E at \in [1 .. Len(new) -> 1 .. Len(all)] :
              /\ \A i \in 1 .. Len(new) : new[i] = all[at[i]]
              /\ \A i, j \in 1 .. Len(new) : i < j => at[i] < at[j]

\* The output was not named, and its default name is that of an input: the one
\* case in which SameName looks at nothing.
Overlooked == Len(argv) = 2 /\ Default \in {argv[1], argv[2]}

\* warning(): the program never writes to one of its inputs, unless it chose the
\* name of the output itself.
InputsKept ==
    [][Len(argv) >= 2 /\ ~Overlooked =>
          \A i \in 1 .. 2 : disk'[fd(i)] = disk[fd(i)]]_vars

\* An exit with 0 that lost nothing means that both files are in the output,
\* except for a call that is only answered with the usage: --help, or a wrong
\* number of names.
DoneMeansCopied ==
    pc = "done" /\ code = 0 /\ ~lost /\ ~Usage /\ Apart =>
        disk[fd(3)] = Content(fd(3)) \o Content(fd(1)) \o Content(fd(2))

\* The program ends, also when it copies a file to its own end.
Ends == <>(pc = "done")
=============================================================================
