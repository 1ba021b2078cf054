----------------------------- MODULE UsageLedger -----------------------------
(***************************************************************************)
(* The ledger of time a child has used (charter-schedule/usage.rs), as     *)
(* operators on a ledger value.                                            *)
(*                                                                         *)
(* A ledger keeps two meters, one for the day and one for the week, that   *)
(* obey the same rules with another key and another bound.  A key is the   *)
(* latest day (or start of week) the ledger has seen: a high-water mark.   *)
(* The clock is trusted while the kernel reports it synchronised.  What a  *)
(* roll on an untrusted clock zeroes is kept in the meter's chain, and     *)
(* given back when a trusted clock finds the key ahead of the real day.    *)
(*                                                                         *)
(* Dates are day numbers.  Every day-keyed counter of the code (screen,    *)
(* learning, unrecognised, the minute journal, each named pool) is zeroed, *)
(* set aside and added back together with the others: secs stands for one  *)
(* of them.  Out-of-hours time is kept by the Android warden alone, whose  *)
(* clock is never trusted, and is left out.  A key that does not parse     *)
(* cannot be written by the code and is left out.                          *)
(***************************************************************************)
EXTENDS Integers, Sequences

CONSTANTS
  WeekLen,    \* days in a week
  ChainCap    \* PRE_ROLL_CAP: the most entries a chain keeps

ASSUME WeekLenAssumption == WeekLen \in Nat \ {0}
ASSUME ChainCapAssumption == ChainCap \in Nat \ {0, 1}

\* The local day of a clock that reads c, in a zone that many days ahead.
DayKey(c, zone) == c + zone

\* week_key_of: the latest day, not after this one, a week starts on.
WeekKey(day, weekStart) == day - ((day + WeekLen - weekStart) % WeekLen)

\* Mutation: the two oldest entries are merged, under the later key.
PushMergingOldest(chain, entry) ==
  LET c == Append(chain, entry)
  IN IF Len(c) <= ChainCap THEN c
     ELSE <<[key |-> c[2].key, secs |-> c[1].secs + c[2].secs]>> \o SubSeq(c, 3, Len(c))

\* Mutation: the chain is never merged.
PushUncapped(chain, entry) == Append(chain, entry)

\* push_pre_roll: over the cap, the two newest are merged under the later key.
Push(chain, entry) ==
  LET c == Append(chain, entry)
      n == Len(c)
      later == IF c[n].key > c[n - 1].key THEN c[n].key ELSE c[n - 1].key
  IN IF n <= ChainCap THEN c
     ELSE Append(SubSeq(c, 1, n - 2), [key |-> later, secs |-> c[n - 1].secs + c[n].secs])

\* chain_restores: the chain reaches back to the real day or before it.
Restores(trusted, meter, cur) ==
  /\ trusted
  /\ meter.key > cur
  /\ meter.chain # <<>>
  /\ meter.chain[1].key <= cur

\* take_restorable: what the entries keyed cur or later hold.  (A function,
\* which the proofs can expand.)
Restorable(chain, cur) ==
  LET sum[i \in 0 .. Len(chain)] ==
        IF i = 0 THEN 0
        ELSE IF chain[i].key >= cur THEN sum[i - 1] + chain[i].secs ELSE sum[i - 1]
  IN sum[Len(chain)]

\* Mutation: the key is never pulled back.
DropsBackNever(trusted, meter, cur, bound) == FALSE

\* drop_back: only a trusted clock pulls back a key that is too far ahead.
DropsBack(trusted, meter, cur, bound) == trusted /\ meter.key - cur > bound

\* The three ways a roll moves a meter, or leaves it.
Moved(meter, cur, trusted, bound) ==
  CASE cur > meter.key ->
         [key |-> cur, secs |-> 0,
          chain |-> IF trusted THEN meter.chain
                    ELSE Push(meter.chain, [key |-> meter.key, secs |-> meter.secs])]
    [] Restores(trusted, meter, cur) ->
         [key |-> cur, secs |-> meter.secs + Restorable(meter.chain, cur), chain |-> <<>>]
    [] cur <= meter.key /\ ~Restores(trusted, meter, cur) ->
         IF DropsBack(trusted, meter, cur, bound) THEN [meter EXCEPT !.key = cur] ELSE meter

\* roll, for one meter; a trusted clock on the meter's own key closes the chain.
RolledMeter(meter, cur, trusted, bound) ==
  LET m == Moved(meter, cur, trusted, bound)
  IN IF trusted /\ m.key = cur THEN [m EXCEPT !.chain = <<>>] ELSE m

Meter(key) == [key |-> key, secs |-> 0, chain |-> <<>>]

\* UsageLedger::new, for a clock that reads c.
NewLedger(cfg, c) ==
  LET d == DayKey(c, cfg.zone)
  IN [cfg |-> cfg, day |-> Meter(d), week |-> Meter(WeekKey(d, cfg.weekStart))]

\* The keys a clock that reads c gives this ledger.
DayNow(L, c) == DayKey(c, L.cfg.zone)
WeekNow(L, c) == WeekKey(DayNow(L, c), L.cfg.weekStart)

Rolled(L, c, trusted) ==
  [L EXCEPT !.day = RolledMeter(@, DayNow(L, c), trusted, 1),
            !.week = RolledMeter(@, WeekNow(L, c), trusted, WeekLen)]

\* credit_bucket: roll, then count the seconds only if the activity counts.
Credited(L, c, trusted, secs) ==
  [Rolled(L, c, trusted) EXCEPT !.day.secs = @ + secs, !.week.secs = @ + secs]

\* used_today and used_week: nothing, once the clock has passed the key.
UsedToday(L, c) == IF DayNow(L, c) > L.day.key THEN 0 ELSE L.day.secs
UsedWeek(L, c) == IF WeekNow(L, c) > L.week.key THEN 0 ELSE L.week.secs

\* current_day_key: the key the next roll will leave.
CurrentDayKey(L, c, trusted) ==
  IF \/ DayNow(L, c) > L.day.key
     \/ Restores(trusted, L.day, DayNow(L, c))
     \/ DropsBack(trusted, L.day, DayNow(L, c), 1)
  THEN DayNow(L, c) ELSE L.day.key

\* Mutation: a ledger that changes its zone starts a fresh count.
ReconciledAfresh(L, cfg, c) == IF L.cfg = cfg THEN L ELSE NewLedger(cfg, c)

\* reconcile: a new zone or week start re-anchors both keys and keeps both
\* counts; the chains are keyed in the old zone and go.
Reconciled(L, cfg, c) ==
  IF L.cfg = cfg THEN L
  ELSE [NewLedger(cfg, c) EXCEPT !.day.secs = L.day.secs, !.week.secs = L.week.secs]
\* Mutation: the chains are not serialised.
SnapshotWithoutChains(L) == [L EXCEPT !.day.chain = <<>>, !.week.chain = <<>>]

\* snapshot and from_snapshot: everything but whether the clock is trusted.
Snapshot(L) == L
=============================================================================
