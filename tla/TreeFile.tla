------------------------------ MODULE TreeFile ------------------------------
(***************************************************************************)
(* The reader of tree files, tree.c of lab2.  parse_node() calls itself    *)
(* for the children of a node in order, so its calls are a list of nodes   *)
(* that are still expected.  A line is a sequence of characters without    *)
(* its newline.                                                            *)
(***************************************************************************)
EXTENDS Integers, Sequences

CONSTANTS Files,           \* the files to read: [lines |-> .., newline |-> is
                           \* the last line ended by a newline?, tree and style
                           \* |-> what they describe, see Describes]
          NODE_NAME_SIZE,  \* room for a name and its end
          BUFF_SIZE,       \* room for a line, its newline and its end
          UNSIGNED         \* the values of an unsigned int, 2^32

ASSUME TreeFileAssumption ==
    /\ NODE_NAME_SIZE \in Nat \ {0} /\ BUFF_SIZE \in Nat /\ BUFF_SIZE >= NODE_NAME_SIZE
    /\ UNSIGNED \in Nat \ {0}
    /\ \A f \in Files :
          /\ f.lines \in Seq(Seq(STRING))
          /\ f.newline \/ (f.lines # <<>> /\ f.lines[Len(f.lines)] # <<>>)

VARIABLES
    file,
    pos,       \* lines read
    expected,  \* names of the nodes to come, in the order of the calls
    nodes,     \* the nodes read: [name |-> .., kids |-> names of its children]
    status     \* reading, tree, null (an empty file) or exit (exit(1))

vars == <<file, pos, expected, nodes, status>>

Init ==
    /\ file \in Files
    /\ pos = 0
    /\ expected = <<>>
    /\ nodes = <<>>
    /\ status = "reading"
-----------------------------------------------------------------------------
Last == Len(file.lines)
NoNewline(i) == i = Last /\ ~file.newline

\* read_line(): the last character goes, whether it is a newline or not.
Line(i) == IF NoNewline(i) THEN SubSeq(file.lines[i], 1, Len(file.lines[i]) - 1)
                           ELSE file.lines[i]

\* "line too long".
TooLong(i) == Len(file.lines[i]) + (IF NoNewline(i) THEN 0 ELSE 1) >= BUFF_SIZE - 1

NonEmpty(i) == i <= Last /\ Line(i) # <<>>
IsComment(i) == Line(i)[1] = "#"

Digits == <<"0", "1", "2", "3", "4", "5", "6", "7", "8", "9">>

IsDigit(c) == \E d \in DOMAIN Digits : Digits[d] = c
Digit(c) == (CHOOSE d \in DOMAIN Digits : Digits[d] = c) - 1

\* The digits behind any white space and a sign; the blank stands for all white
\* space, and without a digit the number is 0.
Blanks(line) ==
    CHOOSE n \in 0 .. Len(line) :
        /\ \A l \in 1 .. n : line[l] = " "
        /\ n < Len(line) => line[n + 1] # " "

atol(line) ==
    LET signed == \E l \in DOMAIN line : l = Blanks(line) + 1 /\ line[l] \in {"-", "+"}
        before == Blanks(line) + (IF signed THEN 1 ELSE 0)
        number[i \in 0 .. Len(line)] ==
            IF i <= before THEN 0
            ELSE IF \A l \in before + 1 .. i : IsDigit(line[l])
            THEN 10 * number[i - 1] + Digit(line[i])
            ELSE number[i - 1]
    IN  IF signed /\ line[before] = "-" THEN 0 - number[Len(line)] ELSE number[Len(line)]

\* nr_children is unsigned: what atol() returns is taken modulo 2^32.
nr_children(line) == atol(line) % UNSIGNED

\* Mutant of Stored: no room for the end of the string.
Stored_Full(line) == SubSeq(line, 1, IF Len(line) < NODE_NAME_SIZE THEN Len(line)
                                                                  ELSE NODE_NAME_SIZE)

\* snprintf(.., NODE_NAME_SIZE, ..), and strncmp(.., .., NODE_NAME_SIZE) = 0.
Stored(line) == SubSeq(line, 1, IF Len(line) < NODE_NAME_SIZE THEN Len(line)
                                                             ELSE NODE_NAME_SIZE - 1)
SameName(name, line) ==
    name = SubSeq(line, 1, IF Len(line) < NODE_NAME_SIZE THEN Len(line) ELSE NODE_NAME_SIZE)

\* find_block_start(): the next line that is neither empty nor a comment.
IsBlockStart(i) ==
    /\ i \in pos + 1 .. Last /\ NonEmpty(i) /\ ~IsComment(i)
    /\ \A l \in pos + 1 .. i - 1 : NonEmpty(l) => IsComment(l)
AtEnd == \A i \in pos + 1 .. Last : ~IsBlockStart(i)

\* Mutant of IsBlock: the names need not agree.
IsBlock_AnyName(i, n) ==
    /\ NonEmpty(i + 1) /\ n = nr_children(Line(i + 1))
    /\ \A l \in i + 2 .. i + 1 + n : NonEmpty(l)
    /\ ~NonEmpty(i + 2 + n)
    /\ \A l \in pos + 1 .. i + 2 + n : l <= Last => ~TooLong(l)

\* The lines from i on are a name that is expected, the number n, n names, and
\* an empty line or the end of the file.
IsBlock(i, n) ==
    /\ expected # <<>> => SameName(Head(expected), Line(i))
    /\ NonEmpty(i + 1) /\ n = nr_children(Line(i + 1))
    /\ \A l \in i + 2 .. i + 1 + n : NonEmpty(l)
    /\ ~NonEmpty(i + 2 + n)
    /\ \A l \in pos + 1 .. i + 2 + n : l <= Last => ~TooLong(l)

\* Mutant of Remaining: the children come after everything else.
Remaining_Later(kids) == IF expected = <<>> THEN kids ELSE Tail(expected) \o kids

\* The call goes on with the children; then the calls around it go on.
Remaining(kids) == IF expected = <<>> THEN kids ELSE kids \o Tail(expected)

ParseNode ==
    /\ status = "reading"
    /\ \E i \in pos + 1 .. Last : \E n \in 0 .. Last :
          /\ IsBlockStart(i) /\ IsBlock(i, n)
          /\ LET kids == [j \in 1 .. n |-> Stored(Line(i + 1 + j))]
             IN  /\ nodes' = Append(nodes, [name |-> Stored(Line(i)), kids |-> kids])
                 /\ expected' = Remaining(kids)
                 /\ status' = IF Remaining(kids) = <<>> THEN "tree" ELSE status
          /\ pos' = IF i + 2 + n > Last THEN Last ELSE i + 2 + n
    /\ file' = file

\* Mutant of Reject: the end of the file is not looked for.
Reject_NotAtEnd ==
    /\ status = "reading" /\ ~AtEnd
    /\ \A i \in pos + 1 .. Last : \A n \in 0 .. Last : ~(IsBlockStart(i) /\ IsBlock(i, n))
    /\ status' = "exit"
    /\ UNCHANGED <<file, pos, expected, nodes>>

\* Every way out with exit(1).
Reject ==
    /\ status = "reading"
    /\ IF AtEnd THEN nodes # <<>> \/ \E l \in pos + 1 .. Last : TooLong(l)
       ELSE \A i \in pos + 1 .. Last : \A n \in 0 .. Last : ~(IsBlockStart(i) /\ IsBlock(i, n))
    /\ status' = "exit"
    /\ UNCHANGED <<file, pos, expected, nodes>>

\* "empty file, do nothing".
EmptyFile ==
    /\ status = "reading" /\ AtEnd /\ nodes = <<>>
    /\ \A l \in pos + 1 .. Last : ~TooLong(l)
    /\ status' = "null"
    /\ UNCHANGED <<file, pos, expected, nodes>>

Next == ParseNode \/ Reject \/ EmptyFile

Spec == Init /\ [][Next]_vars

FairSpec == Spec /\ WF_vars(Next)
-----------------------------------------------------------------------------
\* What a tree is, apart from the reader: nodes in the order of a depth-first
\* walk.  The subtree of node i ends before After[i], and its child j begins
\* where the one before it has ended.

Node  == [name : Seq(STRING), kids : Seq(Seq(STRING))]
Style == [before : Seq(Seq(STRING)), number : Seq(STRING)]

Beyond(ns) == Len(ns) + 2     \* there are not that many nodes

\* Where the children of node i end, the first j of them for each j, when the
\* subtrees of later nodes end before after.
ChildrenEnd(ns, after, i) ==
    LET end[j \in 0 .. Len(ns[i].kids)] == IF j = 0 THEN i + 1 ELSE after[end[j - 1]]
    IN  end

After(ns) ==
    LET after[i \in 1 .. Len(ns) + 2] ==
            IF i > Len(ns) THEN Beyond(ns) ELSE ChildrenEnd(ns, after, i)[Len(ns[i].kids)]
    IN  after

ChildAt(ns, i, j) == ChildrenEnd(ns, After(ns), i)[j - 1]

IsTreeInOrder(ns) ==
    /\ ns # <<>> /\ After(ns)[1] = Len(ns) + 1
    /\ \A i \in 1 .. Len(ns) : \A j \in 1 .. Len(ns[i].kids) :
          ns[ChildAt(ns, i, j)].name = ns[i].kids[j]

\* A file as its own comment describes it: a block for every node, with any
\* comments and empty lines before it and an empty line behind.
Block(node, style) ==
    style.before \o <<node.name, style.number>> \o node.kids \o <<<<>>>>

Layout(ns, style) ==
    LET text[i \in 0 .. Len(ns)] ==
            IF i = 0 THEN <<>> ELSE text[i - 1] \o Block(ns[i], style[i])
    IN  text

IsName(name) == name # <<>> /\ name[1] # "#" /\ Len(name) < NODE_NAME_SIZE

\* The file f is such a text, of which the last empty line may be missing, and
\* whatever comes later is not read.
Describes(f, ns, style) ==
    LET text == Layout(ns, style)[Len(ns)]
    IN  /\ f.newline /\ ns \in Seq(Node) /\ style \in Seq(Style) /\ Len(style) = Len(ns)
        /\ IsTreeInOrder(ns)
        /\ \A i \in 1 .. Len(ns) :
              /\ IsName(ns[i].name) /\ \A j \in 1 .. Len(ns[i].kids) : IsName(ns[i].kids[j])
              /\ style[i].number # <<>> /\ nr_children(style[i].number) = Len(ns[i].kids)
              /\ \A l \in 1 .. Len(style[i].before) :
                    style[i].before[l] # <<>> => style[i].before[l][1] = "#"
        /\ Len(f.lines) >= Len(text) - 1
        /\ \A l \in 1 .. Len(text) : /\ Len(text[l]) + 1 < BUFF_SIZE - 1
                                     /\ l <= Len(f.lines) => f.lines[l] = text[l]
-----------------------------------------------------------------------------
TypeOK ==
    /\ pos \in 0 .. Last
    /\ expected \in Seq(Seq(STRING)) /\ nodes \in Seq(Node)
    /\ status \in {"reading", "tree", "null", "exit"}
    /\ \A i \in 1 .. Len(nodes) : Len(nodes[i].name) < NODE_NAME_SIZE
    /\ \A i \in 1 .. Len(expected) : Len(expected[i]) < NODE_NAME_SIZE
    /\ status \in {"tree", "null"} => expected = <<>>

\* get_tree_from_file() never returns anything but a tree whose nodes agree in
\* name with what their parents announced.
AcceptedIsTree == status = "tree" => IsTreeInOrder(nodes)

\* A file that describes a tree is read as that tree.
LegalAccepted ==
    status # "reading" /\ Describes(file, file.tree, file.style) =>
        status = "tree" /\ nodes = file.tree

\* Reading always comes to an end.
Ends == <>(status # "reading")
=============================================================================
