-------------------------- MODULE SimpleSyncAtomic --------------------------
(***************************************************************************)
(* The build of simplesync.c with the mutex implements the build with      *)
(* atomic operations: lock, load, store and unlock make up one update.     *)
(***************************************************************************)
EXTENDS SimpleSync

Atomic == INSTANCE SimpleSync WITH
    Builds <- {"atomic"},
    build  <- "atomic",
    pc     <- [t \in Threads |-> IF pc[t] \in {"load", "store", "unlock"} THEN "loop" ELSE pc[t]],
    reg    <- [t \in Threads |-> 0],
    mutex  <- "free"

\* simplesync.c compiled either way does the same to the counter: an update of
\* the mutex build takes effect at its store, and no update is lost.
ImplementsAtomic ==
    Atomic!Init /\ [][build # "plain" => [Atomic!Next]_(Atomic!vars)]_vars
=============================================================================
