----------------------------- MODULE MCLocalLink -----------------------------
(***************************************************************************)
(* Small instances of LocalLink for TLC.                                   *)
(***************************************************************************)
EXTENDS LocalLink

CONSTANTS u1, u2, d1, d2, a1, a2

\* One offer over two sessions; two offers, apart or of one key; one delivery
\* that meets two faults; and two that share a queue.
MCScenes ==
  {[up |-> {u1}, same |-> {}, down |-> {}, addrs |-> {a1, a2}, faults |-> 1],
   [up |-> {u1, u2}, same |-> {}, down |-> {}, addrs |-> {a1}, faults |-> 1],
   [up |-> {u1, u2}, same |-> {u1, u2}, down |-> {}, addrs |-> {a1}, faults |-> 1],
   [up |-> {}, same |-> {}, down |-> {d1}, addrs |-> {a1}, faults |-> 2],
   [up |-> {}, same |-> {}, down |-> {d1, d2}, addrs |-> {a1}, faults |-> 1]}
=============================================================================
