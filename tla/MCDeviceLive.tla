---------------------------- MODULE MCDeviceLive ----------------------------
(* DeviceLive for TLC: the scenes of an update. *)
EXTENDS DeviceLive, Sequences

CONSTANTS c1, c2, a, b

\* A clause that changes its mind, one whose package is announced with another hash, one
\* taken back, and a version announced twice.
P(v, h) == [vc |-> v, sha |-> h]

MCUpdateScenes ==
  {[asked |-> <<P(1, a), P(2, a), P(1, a)>>, announced |-> {P(1, a), P(2, a)}, faults |-> 2],
   [asked |-> <<P(1, b), None, P(2, a)>>, announced |-> {P(1, a), P(2, a)}, faults |-> 2],
   [asked |-> <<P(1, a)>>, announced |-> {P(1, a), P(1, b)}, faults |-> 2],
   [asked |-> <<P(2, a)>>, announced |-> {P(1, a), P(2, a)}, faults |-> 3]}
=============================================================================
