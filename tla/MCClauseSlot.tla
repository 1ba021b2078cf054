----------------------------- MODULE MCClauseSlot -----------------------------
(* Model checking of ClauseSlot on small instances. *)
EXTENDS ClauseSlot, TLC

MCSymmetry == Permutations(Bodies)

=============================================================================
