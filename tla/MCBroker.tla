------------------------------- MODULE MCBroker -------------------------------
(* Model checking of Broker on small instances. *)
EXTENDS Broker, TLC

CONSTANTS c1

MCOneOwner == [r \in Requests |-> c1]
MCSymmetry == Permutations(Requests)

=============================================================================
