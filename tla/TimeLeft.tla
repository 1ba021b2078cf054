------------------------------ MODULE TimeLeft ------------------------------
(***************************************************************************)
(* What a child is told they have left, and when they are locked: the      *)
(* breakdown of the shared core (charter-schedule/enforcer.rs, budget.rs), *)
(* the named times the Linux daemon folds into it (times_routing.rs), a    *)
(* stand-down and the durable pin of its grace (standdown.rs), and the     *)
(* warnings, as the run loop of runtime.rs calls them once an iteration.   *)
(*                                                                         *)
(* A unit of time is a minute and an iteration.  What a day of the         *)
(* schedule looks like is a label per minute (module Schedule says how it  *)
(* comes about): "closed", "free", "unknown", or a named time.  Usage is   *)
(* kept as the minutes of today's journal plus the minute that ran into    *)
(* midnight, which counts and is not in the journal (mark_span); a minute  *)
(* a clock change repeats has the slot of the one before.  Another device  *)
(* of the child reports through the guardian, who sends its use here as a  *)
(* view that may be as old as one likes.  The other ledger rules           *)
(* (idempotence, restarts, rolls) are module ExtraTime's, and the usage    *)
(* ledger's are module Metering's.                                         *)
(*                                                                         *)
(* -1 is no limit, as it is in the code.                                   *)
(***************************************************************************)
EXTENDS Integers, FiniteSetsExt

CONSTANTS
  DayLen,    \* minutes in a day
  Grace,     \* minutes of warning a stand-down carries
  Ten, One,  \* the two warnings, in minutes left
  NamedTimes, \* the named times the device knows
  Counts,     \* those of them that count against the budget
  OnlyThese, \* those of them that allow only what they list
  None,
  Scenes     \* a day's labels and slots, the caps, what may arrive, and (bound) the minutes

VARIABLES
  setup,     \* what this instance is about; never changes
  todo,      \* what may still arrive, each once
  time,      \* minutes gone by
  slow,      \* minutes the device's clock was set back by
  meter,     \* this device's use: journal of today, midnight minute, rest of the week
  away,      \* the same of the child's other device
  view,      \* the guardian's last account of away, or None
  ledger,    \* today's extensions
  cap,       \* the budget clause
  order,     \* the standing stand-down clause, or None
  gracePin,       \* the durable pin of its grace, and the floor of its slot
  core,      \* EnforcerCore: locked and the two latches
  tracker,   \* WarnTracker
  out,       \* what the last iteration decided
  seen,      \* history: when the order that stood last was first seen and pinned
  told,      \* history: the one-minute warning was given and still stands
  outside,   \* history: minutes begun open outside the windows today, less those given for it
  quiet      \* history: nothing arrived since the last iteration

vars == <<setup, todo, time, slow, meter, away, view, ledger, cap, order, gracePin, core,
          tracker, out, seen, told, outside, quiet>>

Clock == time - slow
Unlimited == -1
AtLeastZero(n) == IF n < 0 THEN 0 ELSE n
MinUnbounded(a, b) == IF a < 0 THEN b ELSE IF b < 0 THEN a ELSE Min({a, b})

-----------------------------------------------------------------------------
\* Budget.

Used(m) == Cardinality(m.own) + m.cross
Slots(minutes) == {setup.slot[i] : i \in minutes}

\* Mutation: the sum of both devices, whatever journals there are.
PooledSummed(m, v, clk) ==
  [day |-> IF v = None \/ v.day # clk \div DayLen THEN Used(m) ELSE Used(m) + v.used,
   week |-> m.past + Used(m) + (IF v = None THEN 0 ELSE v.week)]

\* pooled_used: the union of both journals where there are two, never under this
\* device's own count; the sum where there are not; nothing from a view of another day.
Pooled(m, v, clk) ==
  [day |-> IF v = None \/ v.day # clk \div DayLen THEN Used(m)
           ELSE IF v.slots # None /\ (m.own # {} \/ Used(m) = 0)
             THEN Max({Cardinality(Slots(m.own) \cup v.slots), Used(m)})
           ELSE Used(m) + v.used,
   week |-> m.past + Used(m) + (IF v = None THEN 0 ELSE v.week)]

\* One cap, raised to where the debt stood when the day's first grant landed.
Part(limit, floor, net, used) ==
  IF limit = None THEN None
  ELSE (IF floor = None THEN limit ELSE Max({limit, floor})) + net - used

\* quota_parts_signed_pooled.
QuotaParts(m, v, l, clk) ==
  LET p == Pooled(m, v, clk)
      base == IF l.base = None THEN [day |-> None, week |-> None] ELSE l.base
      net == l.give - l.take
  IN IF cap.is = "unread" THEN {0}
     ELSE IF cap.is \in {"none", "revoked"} THEN {}
     ELSE IF cap.is = "paused" THEN {0}
     ELSE {Part(cap.day, base.day, net, p.day), Part(cap.week, base.week, net, p.week)} \ {None}

BudgetLeft(m, v, l, clk) ==
  LET parts == QuotaParts(m, v, l, clk)
  IN IF parts = {} THEN Unlimited ELSE AtLeastZero(Min(parts))

-----------------------------------------------------------------------------
\* The schedule.

Minute(clk) == clk % DayLen
Label(clk) == setup.label[Minute(clk)]
Until(clk, P(_)) ==
  LET ends == {i \in Minute(clk) + 1 .. DayLen - 1: P(setup.label[i])}
  IN (IF ends = {} THEN DayLen ELSE Min(ends)) - Minute(clk)

\* The classic evaluator's answer, as compute_remaining uses it.
ScheduleBase(clk) ==
  CASE setup.sched = "none" -> Unlimited
    [] setup.sched \in {"paused", "unreadable"} -> 0
    [] setup.sched = "set" -> IF Label(clk) = "closed" THEN 0
                              ELSE Until(clk, LAMBDA b: b = "closed")

\* burn_schedule_extension: the pool counts down while the window is closed.
ScheduleClosed(clk) ==
  setup.sched = "paused" \/ (setup.sched = "set" /\ Label(clk) = "closed")

\* The window's minutes, with the hours given and cut.
ScheduleLeft(base, l, clk) ==
  IF setup.sched = "unreadable" \/ base < 0 THEN base
  ELSE Min({DayLen - Minute(clk), AtLeastZero(base + l.hours - l.cut)})

\* compute_remaining.  down is the stand-down's countdown, or None.
Breakdown(schedule, budget, down) ==
  LET charter == MinUnbounded(schedule, budget)
      left == IF down = None THEN charter ELSE MinUnbounded(charter, down)
  IN [schedule |-> schedule, budget |-> budget, left |-> left, locked |-> left = 0,
      why |-> IF left # 0 THEN None
              ELSE IF setup.sched = "unreadable" THEN "malformed"
              ELSE IF down = 0 THEN "standdown"
              ELSE IF schedule = 0 THEN "schedule"
              ELSE "budget"]

\* Mutation: the extensions are added after the stand-down's cap.
RemainingCappedFirst(m, v, l, clk, down) ==
  LET r == Breakdown(ScheduleLeft(ScheduleBase(clk), l, clk), BudgetLeft(m, v, l, clk), down)
  IN [r EXCEPT !.left = @ + l.give, !.locked = r.left + l.give = 0]

Remaining(m, v, l, clk, down) ==
  Breakdown(ScheduleLeft(ScheduleBase(clk), l, clk), BudgetLeft(m, v, l, clk), down)

-----------------------------------------------------------------------------
\* The times layer.

\* Running under the core's verdict, under a named time, or locked by this layer.
\* span is the minutes left of the span, left those the child has.
Core(span) == [is |-> "core", span |-> span]
LockedOut == [is |-> "locked"]

RunNamed(id, pool, span, left) ==
  IF id \in OnlyThese /\ ~setup.inventory THEN LockedOut
  ELSE [is |-> "named", id |-> id, pool |-> pool, span |-> span, left |-> left,
        limited |-> left >= span]

\* budget_pool_proof.
PoolProof == cap.is \in {"paused", "unread"}

\* most_recent_time_pool: of the pools with minutes left, the one topped up last.
Pools(l) == {id \in NamedTimes: l.pools[id].left > 0}
RecentPool(l) == CHOOSE id \in Pools(l): \A j \in Pools(l): l.pools[j].at <= l.pools[id].at

\* fall_through.
\* Mutation: a budget no extension may lift is lifted by a named pool.
FallThroughProofless(c, l, whys) ==
  IF c.why \in whys /\ Pools(l) # {}
    THEN RunNamed(RecentPool(l), TRUE, l.pools[RecentPool(l)].left, l.pools[RecentPool(l)].left)
  ELSE Core(None)

FallThrough(c, l, whys) ==
  IF ~PoolProof /\ c.why \in whys /\ Pools(l) # {}
    THEN RunNamed(RecentPool(l), TRUE, l.pools[RecentPool(l)].left, l.pools[RecentPool(l)].left)
  ELSE Core(None)

\* decide.
Decide(c, l, clk) ==
  LET label == IF setup.sched = "set" THEN Label(clk) ELSE "free"
      span == Until(clk, LAMBDA b: b # label)
  IN CASE setup.sched = "unreadable" -> Core(None)
       [] label = "closed" \/ setup.sched = "paused" ->
            FallThrough(c, l, {"schedule", "budget"})
       [] setup.sched \in {"none", "set"} /\ label = "unknown" -> LockedOut
       [] setup.sched \in {"none", "set"} /\ label = "free" ->
            IF c.locked THEN FallThrough(c, l, {"budget"})
            ELSE Core(IF setup.sched = "none" THEN None ELSE span)
       [] label \in NamedTimes ->
            IF ~c.locked
              THEN RunNamed(label, FALSE, span,
                            IF label \in Counts THEN Min({span, MinUnbounded(c.budget, span)})
                            ELSE span)
            ELSE IF c.why = "budget" /\ label \notin Counts
              THEN RunNamed(label, FALSE, span, span)
            ELSE IF c.why = "budget" THEN FallThrough(c, l, {"budget"})
            ELSE Core(None)
       [] OTHER -> Core(None)

\* resolve: a free span that ends in nothing more to run is the core's to announce.
Resolved(c, l, clk) ==
  LET v == Decide(c, l, clk)
  IN IF v.is = "core" /\ v.span # None
       THEN IF Minute(clk) + v.span = DayLen \/ Label(clk + v.span) = "closed"
              THEN Core(None) ELSE v
     ELSE v

\* adjusted_remaining, with apply_stand_down: the minutes the child has left.
Left(c, v, down) ==
  CASE v.is = "named" -> IF down = None THEN v.left ELSE Min({v.left, down})
    [] v.is = "locked" -> 0
    [] v.is = "core" -> IF c.locked \/ v.span = None THEN c.left ELSE MinUnbounded(c.left, v.span)

\* Warnings are the times layer's while a label is a named time or an unknown one.
InPlay(v) ==
  \/ setup.sched = "set" /\ \E i \in DOMAIN setup.label: setup.label[i] \notin {"closed", "free"}
  \/ v.is # "core"

\* The times layer's warning stands until the minutes left are this much above it
\* ("a minute of hysteresis"), the core's until they are above it.
Slack(v) == IF InPlay(v) THEN 1 ELSE 0

LockedNow(c, v) == IF v.is = "core" THEN c.locked ELSE v.is = "locked"

-----------------------------------------------------------------------------
\* Stand-down.

Stands(o, clk) == o # None /\ o.until > clk

\* grace_started_at: the pinned first sight of this order, or now.
Started(clk) == IF gracePin.id = order.id THEN gracePin.at ELSE clk

\* stand_down_now: the countdown of a standing order.
Countdown(clk) ==
  IF Stands(order, clk) THEN AtLeastZero(Grace - AtLeastZero(clk - Started(clk))) ELSE None

\* Mutation: the pin is stamped with the clock alone.
PinnedByClock(clk, lost) ==
  IF ~Stands(order, clk) \/ gracePin.id = order.id \/ lost \/ clk <= gracePin.floor THEN gracePin
  ELSE [id |-> order.id, at |-> clk, floor |-> clk]

\* First sight pins the moment, stamped past the slot's floor; a failed write is let be.
Pinned(clk, lost) ==
  IF ~Stands(order, clk) \/ gracePin.id = order.id \/ lost THEN gracePin
  ELSE [id |-> order.id, at |-> clk, floor |-> Max({clk, gracePin.floor + 1})]

-----------------------------------------------------------------------------
\* Warnings.

\* EnforcerCore::tick: the latches after a decision, and what it says.
\* Mutation: the latches are not re-armed when time is added.
CoreTickNoRearm(c) ==
  LET oneDue == ~c.locked /\ c.left \in 0 .. One /\ ~core.one
      tenDue == ~c.locked /\ c.left \in 0 .. Ten /\ ~core.ten
  IN [locked |-> c.locked, ten |-> core.ten \/ tenDue, one |-> core.one \/ oneDue,
      says |-> IF oneDue THEN "one" ELSE IF tenDue THEN "ten" ELSE None]

CoreTick(c) ==
  LET thawed == core.locked /\ ~c.locked
      one == core.one /\ ~thawed /\ (c.locked \/ c.left \in 0 .. One)
      ten == core.ten /\ ~thawed /\ (c.locked \/ c.left \in 0 .. Ten)
      oneDue == ~c.locked /\ c.left \in 0 .. One /\ ~one
      tenDue == ~c.locked /\ c.left \in 0 .. Ten /\ ~ten
  IN [locked |-> c.locked, ten |-> ten \/ tenDue, one |-> one \/ oneDue,
      says |-> IF oneDue THEN "one" ELSE IF tenDue THEN "ten" ELSE None]

Forgotten == [key |-> None, ten |-> FALSE, one |-> FALSE, says |-> None]

\* WarnTracker::observe and reset.
Observed(v, left, locked) ==
  LET key == IF v.is = "named" THEN v.id ELSE "free"
      same == tracker.key = key
      ten == same /\ tracker.ten /\ left <= Ten + 1
      one == same /\ tracker.one /\ left <= One + 1
  IN IF ~InPlay(v) \/ locked THEN Forgotten
     ELSE IF left <= 0 THEN [key |-> key, ten |-> ten, one |-> one, says |-> None]
     ELSE IF left <= One /\ ~one THEN [key |-> key, ten |-> TRUE, one |-> TRUE, says |-> "one"]
     ELSE IF left <= Ten /\ ~ten THEN [key |-> key, ten |-> TRUE, one |-> one, says |-> "ten"]
     ELSE [key |-> key, ten |-> ten, one |-> one, says |-> None]

-----------------------------------------------------------------------------
\* Days.

NoPool == [left |-> 0, at |-> 0]
NewLedger == [give |-> 0, take |-> 0, base |-> None, hours |-> 0, cut |-> 0,
              pools |-> [id \in NamedTimes |-> NoPool]]
NewMeter == [own |-> {}, cross |-> 0, past |-> 0]

\* Both ledgers when the clock passes from a to b.
NewDay(a, b) == a \div DayLen # b \div DayLen
RolledMeter(m, a, b) ==
  IF NewDay(a, b) THEN [own |-> {}, cross |-> 0, past |-> m.past + Used(m)] ELSE m
RolledLedger(l, a, b) == IF NewDay(a, b) THEN NewLedger ELSE l

\* The minute before clk is charged: journaled, unless it ran into midnight.
Charged(m, clk, use) ==
  IF ~use THEN m
  ELSE IF Minute(clk) = 0 THEN [m EXCEPT !.cross = 1]
  ELSE [m EXCEPT !.own = @ \cup {Minute(clk) - 1}]

-----------------------------------------------------------------------------
\* A write of the pin that fails.
Lose == [do |-> "lose"]

Init ==
  /\ setup \in Scenes
  /\ todo = setup.events
  /\ time = 0
  /\ slow = 0
  /\ meter = NewMeter
  /\ away = NewMeter
  /\ view = None
  /\ ledger = NewLedger
  /\ cap = setup.cap
  /\ order = None
  /\ gracePin = [id |-> None, at |-> 0, floor |-> 0]
  /\ core = [locked |-> FALSE, ten |-> FALSE, one |-> FALSE, says |-> None]
  /\ tracker = Forgotten
  /\ out = None
  /\ seen = None
  /\ told = FALSE
  /\ outside = 0
  /\ quiet = FALSE

\* What an iteration does with the core's verdict c and the times layer's v.
Conclude(c, v, l, down) ==
  LET locked == LockedNow(c, v)
      left == Left(c, v, down)
      tick == CoreTick(c)
      track == Observed(v, left, locked)
      says == IF InPlay(v) THEN track.says ELSE tick.says
  IN /\ ledger' = IF v.is = "named" /\ v.pool
                    THEN [l EXCEPT !.pools[v.id].left = AtLeastZero(@ - 1)] ELSE l
     /\ core' = tick
     /\ tracker' = track
     /\ out' = [locked |-> locked, left |-> left, budget |-> c.budget,
                why |-> IF v.is = "core" THEN c.why ELSE IF v.is = "locked" THEN "schedule" ELSE None,
                named |-> v.is = "named", pool |-> v.is = "named" /\ v.pool]
     /\ told' = (~locked /\ (says = "one" \/ (told /\ left \in 0 .. One + Slack(v))))

Concluded(c, l, clk, down) == Conclude(c, Resolved(c, l, clk), l, down)

\* Is the minute before clk one of a named time that does not count?  It is read off
\* the state before the minute is charged.
FreeUnder(v) == v.is = "named" /\ v.id \notin Counts
Free(m, l, clk, down) == FreeUnder(Decide(Remaining(m, view, l, clk, down), l, clk))

\* One iteration of the run loop, a minute after the last.  The child used the device
\* if they could; lost is whether a write of the pin fails.
Iterate(use, elsewhere, lost) ==
  LET was == Clock
      clk == Clock + 1
      l == RolledLedger(ledger, was, clk)
      burnt == IF ScheduleClosed(clk) THEN [l EXCEPT !.hours = AtLeastZero(@ - 1)] ELSE l
      m == RolledMeter(meter, was, clk)
      down == Countdown(clk)
  IN /\ time < setup.minutes
     /\ use => out # None /\ ~out.locked
     /\ elsewhere => setup.away
     /\ lost => Lose \in todo /\ Stands(order, clk) /\ gracePin.id # order.id
     /\ time' = time + 1
     /\ todo' = IF lost THEN todo \ {Lose} ELSE todo
     /\ meter' = Charged(m, clk, use /\ ~Free(m, l, clk, down))
     /\ away' = Charged(RolledMeter(away, was, clk), clk, elsewhere)
     /\ gracePin' = Pinned(clk, lost)
     /\ Concluded(Remaining(meter', view, burnt, clk, down), burnt, clk, down)
     /\ seen' = IF ~Stands(order, clk) THEN seen
                ELSE IF seen # None /\ seen.id = order.id /\ seen.kept THEN seen
                ELSE [id |-> order.id, at |-> clk, kept |-> ~lost]
     /\ outside' = (IF NewDay(was, clk) THEN 0 ELSE outside)
                   + (IF ~out'.locked /\ ScheduleClosed(clk) THEN 1 ELSE 0)
     /\ quiet' = TRUE
     /\ UNCHANGED <<setup, slow, view, cap, order>>

\* What arrives between two iterations.
Takes(e) ==
  /\ e \in todo
  /\ todo' = todo \ {e}
  /\ quiet' = FALSE
  /\ UNCHANGED <<setup, time, meter, away, out, seen, told>>

\* apply_extension: the first budget grant of the day notes where the debt stood.
\* Mutation: it does not.
GiveUnnoted(e) ==
  /\ e.do = "give" /\ Takes(e)
  /\ ledger' = [ledger EXCEPT !.give = @ + e.n]
  /\ UNCHANGED <<slow, view, cap, order, gracePin, core, tracker, outside>>

Give(e) ==
  /\ e.do = "give" /\ Takes(e)
  /\ ledger' = [ledger EXCEPT !.give = @ + e.n,
                              !.base = IF @ # None THEN @
                                       ELSE [day |-> Used(meter), week |-> meter.past + Used(meter)]]
  /\ UNCHANGED <<slow, view, cap, order, gracePin, core, tracker, outside>>

\* deduct_extension.
Take(e) ==
  /\ e.do \in {"take", "cut"} /\ Takes(e)
  /\ ledger' = IF e.do = "take" THEN [ledger EXCEPT !.take = @ + e.n]
               ELSE [ledger EXCEPT !.cut = @ + e.n]
  /\ UNCHANGED <<slow, view, cap, order, gracePin, core, tracker, outside>>

\* A grant past the window's close, or of a named time.
GiveHours(e) ==
  /\ e.do \in {"hours", "pool"} /\ Takes(e)
  /\ ledger' = IF e.do = "hours" THEN [ledger EXCEPT !.hours = @ + e.n]
               ELSE [ledger EXCEPT !.pools[e.id] =
                       [left |-> @.left + e.n,
                        at |-> 1 + Max({ledger.pools[j].at : j \in NamedTimes})]]
  /\ outside' = outside - e.n
  /\ UNCHANGED <<slow, view, cap, order, gracePin, core, tracker>>

\* The guardian's account of the child's other device, as it stands now.
SyncView(e) ==
  /\ e.do = "view" /\ Takes(e)
  /\ view' = [day |-> Clock \div DayLen, used |-> Used(away), week |-> away.past + Used(away),
              slots |-> IF e.journal THEN Slots(away.own) ELSE None]
  /\ UNCHANGED <<slow, ledger, cap, order, gracePin, core, tracker, outside>>

\* A stand-down, or the lift of one (an order that does not stand).
Order(e) ==
  /\ e.do = "order" /\ Takes(e)
  /\ order' = [id |-> e.id, until |-> e.until]
  /\ UNCHANGED <<slow, view, ledger, cap, gracePin, core, tracker, outside>>

\* The guardian edits the budget.
EditCap(e) ==
  /\ e.do = "cap" /\ Takes(e)
  /\ cap' = e.to
  /\ UNCHANGED <<slow, view, ledger, order, gracePin, core, tracker, outside>>

\* The daemon starts again; its clauses, ledgers and the pin are on disk.
Restart(e) ==
  /\ e.do = "restart" /\ e \in todo
  /\ todo' = todo \ {e}
  /\ core' = [locked |-> FALSE, ten |-> FALSE, one |-> FALSE, says |-> None]
  /\ tracker' = Forgotten
  /\ out' = None
  /\ told' = FALSE
  /\ quiet' = FALSE
  /\ UNCHANGED <<setup, time, slow, meter, away, view, ledger, cap, order, gracePin, seen, outside>>

\* The device's clock is set back a minute, not past midnight.
ClockBack(e) ==
  /\ e.do = "back" /\ Minute(Clock) > 0 /\ Takes(e)
  /\ slow' = slow + 1
  /\ UNCHANGED <<view, ledger, cap, order, gracePin, core, tracker, outside>>

Next ==
  \/ \E use \in BOOLEAN, elsewhere \in BOOLEAN, lost \in BOOLEAN: Iterate(use, elsewhere, lost)
  \/ \E e \in todo \ {Lose}: \/ Give(e) \/ Take(e) \/ GiveHours(e) \/ SyncView(e)
                               \/ Order(e) \/ EditCap(e) \/ Restart(e) \/ ClockBack(e)

Spec == Init /\ [][Next]_vars

-----------------------------------------------------------------------------
\* Properties.

\* What the child really used today: minutes used on two devices at once count once.
Spent == Cardinality(meter.own \cup away.own) + meter.cross + away.cross
\* Where the other device sent no journal, the sum is all there is.
SpentAtMost == IF view # None /\ view.slots = None THEN Used(meter) + Used(away) ELSE Spent
SpentThisWeek == meter.past + Used(meter) + away.past + Used(away)

\* A budget lock is never early: whatever the other device did, however old the view
\* of it, a journal that repeats an hour, a grant and a take-back, the child has used
\* up what the day or the week allows ("Absent/stale views only ever UNDER-count").
NeverLocksEarly ==
  quiet /\ out.locked /\ out.why = "budget" /\ cap.is = "plain" =>
    LET net == ledger.give - ledger.take
    IN \/ cap.day # None /\ SpentAtMost >= cap.day + net
       \/ cap.week # None /\ SpentThisWeek >= cap.week + net

\* A grant to a child the budget has locked buys the minutes it says: the first one of
\* a day, on a device whose use is the child's whole use, with nothing taken back.
GrantBuysItsMinutes ==
  [][\A e \in todo:
       /\ Give(e) /\ quiet /\ out.locked /\ out.why = "budget"
       /\ cap.is = "plain" /\ ledger.base = None /\ ledger.take = 0
       /\ view = None
       => BudgetLeft(meter, view, ledger', Clock) = e.n]_vars

\* The same of any child, whatever their other devices did.
GrantBuysItsMinutesAnywhere ==
  [][\A e \in todo:
       /\ Give(e) /\ quiet /\ out.locked /\ out.why = "budget"
       /\ cap.is = "plain" /\ ledger.base = None /\ ledger.take = 0
       => BudgetLeft(meter, view, ledger', Clock) >= e.n]_vars

\* A stand-down bites when its grace is over and not before, counted from its first
\* sight: no grant, named time or pool lifts it, no restart starts it again, and a
\* clock set back does not keep it from ever landing.  A first sight whose pin could
\* not be written starts again.
StandDownBites ==
  quiet =>
    /\ out.why = "standdown" => seen # None /\ Clock - seen.at >= Grace
    /\ seen # None /\ seen.kept /\ Clock - seen.at >= Grace /\ Stands(order, Clock) => out.locked

\* A child who is locked with nothing having arrived since was told a minute before,
\* whichever layer owned the warning when it was due.  Four locks come unannounced: what
\* was given lapses at midnight; what was given for a closed window, or to a pool, is
\* announced as if no boundary cut it short (and the iteration in which the window closes,
\* seconds in the code and a minute here, costs one of its hours besides), a pool's as if
\* the apps of the window it runs in were known; and minutes taken back from the window
\* are not taken from what a named time announces.
LockIsForewarned ==
  [][time' = time + 1 /\ quiet /\ ~out.locked /\ out'.locked =>
       \/ told
       \/ NewDay(Clock, Clock + 1) /\ ledger # NewLedger
       \/ out.pool /\ (Label(Clock) # Label(Clock + 1) \/ ~setup.inventory)
       \/ ledger.hours > 0 /\ ScheduleClosed(Clock) # ScheduleClosed(Clock + 1)
       \/ ledger.cut > 0 /\ out.named]_vars

\* Outside the windows a child has no more minutes than they were given for it, on a
\* budget nothing lifts they have none.
OutsideIsGiven ==
  /\ outside <= 0
  /\ quiet /\ PoolProof /\ ~out.locked => out.named /\ ~out.pool

\* The minutes a child is given are bought, and the last of them announced.
MinutesAreBoughtAndTold == GrantBuysItsMinutes /\ LockIsForewarned

\* A lock is neither early nor late.
LockedInTime == NeverLocksEarly /\ OutsideIsGiven
=============================================================================
