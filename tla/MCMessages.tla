----------------------------- MODULE MCMessages -----------------------------
(* Messages for TLC: its clock's moves, its bounds and its symmetry. *)
EXTENDS Messages, TLC

\* The device's clock steps by one heartbeat either way.
MCMoves == {-2, 2}

\* A report that waits a day for a relay, two presses at once, both routes at once, and a
\* report the home link brings to an app that was long away.
MCUnlockBounds ==
  {[end |-> 5, presses |-> 1, faults |-> 1, front |-> 0 .. 5, link |-> FALSE],
   [end |-> 2, presses |-> 2, faults |-> 1, front |-> 0 .. 2, link |-> FALSE],
   [end |-> 1, presses |-> 1, faults |-> 2, front |-> {0, 1}, link |-> TRUE],
   [end |-> 7, presses |-> 1, faults |-> 0, front |-> {7}, link |-> TRUE]}

MCSymmetry == Permutations(Guardians)
=============================================================================
