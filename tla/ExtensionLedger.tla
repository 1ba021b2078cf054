---------------------------- MODULE ExtensionLedger ----------------------------
(***************************************************************************)
(* The today-only ledger of extra minutes one child's enforcer keeps       *)
(* (core/crates/charter-schedule/src/extension.rs), as operators on a      *)
(* ledger record.  The state machine that drives it is ExtraTime.          *)
(*                                                                         *)
(* Time is counted in units, DayLen to a day; a timezone is an offset in   *)
(* units.  One bucket and one named time stand for the maps of pools, so   *)
(* the order in which named pools were topped up is not kept.              *)
(***************************************************************************)
EXTENDS Integers

CONSTANTS
    DayLen,     \* units in a day
    Tzs,        \* the timezones a clause can carry
    Offset,     \* the offset of each, in units
    Ids,        \* the ids under which minutes are given or taken back
    Amount      \* the minutes each id carries, in units

ASSUME DayLenAssumption == DayLen \in Nat \ {0}
ASSUME OffsetAssumption == Offset \in [Tzs -> Nat]
ASSUME AmountAssumption == Amount \in [Ids -> Nat \ {0}]

\* The whole-device dimensions, and every pool minutes can land in.
Dims == {"schedule", "budget"}
Pools == Dims \union {"bucket", "time"}

\* The pools a closed window burns by the wall clock; the others are spent
\* through the usage ledger.
Burnable == {"schedule", "time"}

\* The calendar day of an instant, and the instant the day after it begins.
Day(tz, t) == (t + Offset[tz]) \div DayLen
EndOfDay(tz, t) == (Day(tz, t) + 1) * DayLen - Offset[tz]

(***************************************************************************)
(* A ledger.  floored says that the day's first budget grant has fixed the *)
(* floor the budget pool is measured from; credits is history, not part of *)
(* the code's record: how often each id was newly applied, over all days,  *)
(* in the lineage of this ledger.                                          *)
(***************************************************************************)
Ledger == [tz : Tzs, day : Nat, applied : SUBSET Ids, secs : [Pools -> Nat],
           spent : [Burnable -> Nat], deducted : [Dims -> Nat],
           floored : BOOLEAN, credits : [Ids -> Nat]]

EmptyDay(tz, day, credits) ==
    [tz |-> tz, day |-> day, applied |-> {}, secs |-> [p \in Pools |-> 0],
     spent |-> [p \in Burnable |-> 0], deducted |-> [d \in Dims |-> 0],
     floored |-> FALSE, credits |-> credits]

NewLedger(tz, t) == EmptyDay(tz, Day(tz, t), [i \in Ids |-> 0])

\* Every mutator rolls first: another day key, earlier or later, empties the
\* pools and forgets the applied ids.
Rolled(l, t) ==
    IF Day(l.tz, t) = l.day THEN l ELSE EmptyDay(l.tz, Day(l.tz, t), l.credits)

\* Mutant: re-keying re-dates whatever the pools hold.
ReconciledUnrolled(l, tz, t) ==
    IF l.tz = tz THEN l ELSE [l EXCEPT !.tz = tz, !.day = Day(tz, t)]

\* Re-keying to another timezone rolls in the old one, then stamps the day.
Reconciled(l, tz, t) ==
    IF l.tz = tz THEN l
    ELSE [Rolled(l, t) EXCEPT !.tz = tz, !.day = Day(tz, t)]

SameDay(l, a, b) == Day(l.tz, a) = Day(l.tz, b)

\* An id lands once, whichever pool it targets; the day's first budget grant
\* also fixes the floor.
Credit(l, t, id, pool) ==
    LET r == Rolled(l, t)
    IN IF id \in r.applied THEN r
       ELSE [r EXCEPT !.applied = @ \union {id},
                      !.secs[pool] = @ + Amount[id],
                      !.floored = @ \/ pool = "budget",
                      !.credits[id] = @ + 1]

\* The mirror of Credit, under the same applied ids; it never sets a floor.
Deduct(l, t, id, dim) ==
    LET r == Rolled(l, t)
    IN IF id \in r.applied THEN r
       ELSE [r EXCEPT !.applied = @ \union {id},
                      !.deducted[dim] = @ + Amount[id],
                      !.credits[id] = @ + 1]

Lesser(a, b) == IF a < b THEN a ELSE b

\* Burning n units of wall clock saturates at what the pool holds.
Burned(l, t, pool, n) ==
    LET r == Rolled(l, t)
    IN [r EXCEPT !.spent[pool] = Lesser(@ + n, r.secs[pool])]

\* What is left in a pool at t; a ledger of another day has nothing left.
Extra(l, t, pool) ==
    IF Day(l.tz, t) # l.day THEN 0
    ELSE l.secs[pool] - (IF pool \in Burnable THEN l.spent[pool] ELSE 0)
================================================================================
