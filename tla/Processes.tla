----------------------------- MODULE Processes -----------------------------
(***************************************************************************)
(* The life of a child process as its parent sees it through kill(2) and   *)
(* waitpid(2) with WUNTRACED.  The kernel is not part of the repository:   *)
(* these operators say what the programs of lab2 and lab4 rely on.         *)
(*                                                                         *)
(*   none      not forked yet                                              *)
(*   running   executing                                                   *)
(*   stopping  executing, with a SIGSTOP on its way                        *)
(*   stopped   stopped, and the parent has not been told                   *)
(*   waited    stopped, and a waitpid() of the parent has reported it      *)
(*   dying     a SIGKILL is on its way                                     *)
(*   zombie    dead, not reaped                                            *)
(*   gone      dead and reaped: a kill() of its pid fails with ESRCH       *)
(***************************************************************************)

ProcStates == {"none", "running", "stopping", "stopped", "waited",
               "dying", "zombie", "gone"}

Active   == {"running", "stopping"}     \* executes instructions
Halted   == {"stopped", "waited"}       \* executes nothing until SIGCONT
Live     == Active \cup Halted          \* not dead and not doomed
Children == ProcStates \ {"none", "gone"}  \* waitpid() finds a child
Waitable == {"stopped", "zombie"}       \* waitpid(WUNTRACED) has a report
Dead     == {"zombie", "gone"}          \* the file descriptors are closed

\* kill(p, SIGSTOP): takes effect later, and not at all on a halted process.
OnStop(s) == IF s = "running" THEN "stopping" ELSE s

\* kill(p, SIGCONT): discards a SIGSTOP in flight and a stop not reported yet.
OnCont(s) == IF s \in Halted \cup {"stopping"} THEN "running" ELSE s

\* kill(p, SIGKILL): cannot be caught, blocked or undone.
OnKill(s) == IF s \in Live THEN "dying" ELSE s

\* waitpid() reports a child: each stop once, each death once.
OnWait(s) == CASE s = "stopped" -> "waited"
               [] s = "zombie"  -> "gone"
               [] OTHER         -> s
=============================================================================
