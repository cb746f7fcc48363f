----------------------------- MODULE LineOutput -----------------------------
(***************************************************************************)
(* What every version of the mandelbrot program promises: the lines of the *)
(* picture appear from the first to the last, each of them once.           *)
(***************************************************************************)
EXTENDS Naturals, Sequences

CONSTANT y_chars      \* lines of the picture, numbered from 0

VARIABLE out          \* the lines that have been output, in order

Init == out = <<>>

OutputLine == Len(out) < y_chars /\ out' = Append(out, Len(out))

Spec == Init /\ [][OutputLine]_out
=============================================================================
