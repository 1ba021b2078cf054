------------------------------ MODULE MCExtraTime ------------------------------
(***************************************************************************)
(* Small instances of ExtraTime for TLC.                                   *)
(***************************************************************************)
EXTENDS ExtraTime

CONSTANTS home, east, a1, a2, g1, g2, l1, l2

\* One id to a unit of time; the whole instance shares two timezones.
OneUnit == [i \in Ids |-> 1]
OneZone == [tz \in Tzs |-> 0]
TwoZones == [tz \in Tzs |-> IF tz = east THEN 1 ELSE 0]

\* What an iteration may find of the child's set-up.
AlwaysManaged == {<<TRUE, TRUE>>}
ComesAndGoes == {<<TRUE, TRUE>>, <<FALSE, TRUE>>, <<FALSE, FALSE>>}
InOrOut == {<<TRUE, TRUE>>, <<FALSE, FALSE>>}
================================================================================
