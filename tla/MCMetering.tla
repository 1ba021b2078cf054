----------------------------- MODULE MCMetering -----------------------------
(***************************************************************************)
(* Small instances of Metering for TLC.                                    *)
(***************************************************************************)
EXTENDS Metering

\* The clause as it stands, and with another zone and another week start.
MCConfigs == {[zone |-> 0, weekStart |-> 0], [zone |-> 1, weekStart |-> 1]}
\* A clock that wanders over days, and a disk that fails for long.
MCBounds == {[day |-> 1, use |-> 1, faults |-> 3],
             [day |-> 3, use |-> 1, faults |-> 2], [day |-> 1, use |-> 6, faults |-> 1]}
=============================================================================
