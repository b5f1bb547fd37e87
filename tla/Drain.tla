------------------------------- MODULE Drain -------------------------------
(* How BOOT looks for an ack in cmd_in: every command is popped, and those   *)
(* that are not drained are pushed on a fresh deque of the same capacity.    *)
EXTENDS Integers, Sequences

\* What the loop keeps of a queue.
Kept(q, drained) ==
  LET keep[n \in 0 .. Len(q)] ==
        IF n = 0 THEN << >>
        ELSE IF q[n] \in drained THEN keep[n - 1] ELSE Append(keep[n - 1], q[n])
  IN  keep[Len(q)]
=============================================================================
