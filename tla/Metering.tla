------------------------------- MODULE Metering -------------------------------
(***************************************************************************)
(* One budgeted child's time being metered by the Linux run loop: the      *)
(* enforcing ledger in memory, its saved copy, the guard that pauses the   *)
(* budget while saves fail, and a clock the child can set in firmware      *)
(* (charterd/runtime.rs, usage_save_guard.rs, charter-spine/multi_child.rs,*)
(* charter-schedule/usage.rs).                                             *)
(*                                                                         *)
(* The unit of time used is what one iteration of the loop charges.  The   *)
(* wall clock counts days.  The caps, the schedule and the extensions can  *)
(* only close the machine sooner and belong to Enforcement: here the child *)
(* may use it while the save guard does not pause the budget.              *)
(***************************************************************************)
EXTENDS UsageLedger, Naturals

CONSTANTS
  Configs,      \* what the guardian's budget clause may say: zone, week start
  SlowEvery,    \* iterations to a slow tick, which saves
  Grace,        \* USAGE_UNSAVED_AFTER_SECS, in iterations
  MaxDay,       \* bounds of the instance: real days, and
  Bounds        \* how many days, charges and faults a behaviour may have: a
                \* fault sets the clock, restarts the daemon, edits the clause
                \* or leaves the child out of a tick

\* Days are counted in the westernmost zone, where the date is at most two days
\* behind the others; a week starts on one of its days.
ASSUME ConfigsAssumption == Configs \subseteq [zone : 0 .. 2, weekStart : 0 .. WeekLen - 1]
ASSUME BoundsAssumption == MaxDay \in Nat \ {0} /\ Bounds \subseteq [day : 1 .. MaxDay, use : Nat, faults : Nat]
ASSUME CadenceAssumption == SlowEvery \in Nat \ {0} /\ Grace \in Nat

VARIABLES
  today,     \* the real day
  clk,       \* the day the wall clock reads
  trusted,   \* wall_clock_synchronised
  cfg,       \* the clause in force
  led,       \* the child's ledger in the loop's memory, or None
  disk,      \* the saved ledger, or None
  guard,     \* UsageSaveGuard: iterations since the first failure, tripped
  open,      \* the last decision: the child may use the machine
  wait,      \* iterations since the last slow tick; Never before the first save
  loose,     \* history: time charged that no saved ledger holds
  stretch,   \* history: how the saves have gone since one landed: "first" while
             \* none has in this run, "later", or "mild" with a plain error
  due,       \* history of led, for each meter: what its latest real day, or week,
             \* was charged since the key was first no later than the real one,
             \* and since an edit
  diskDue,   \* the same for disk
  steady,    \* history: the day the clock has been trusted since, ticks and all
  left       \* what is left of the bounds of the instance

vars == <<today, clk, trusted, cfg, led, disk, guard, open, wait,
          loose, stretch, due, diskDue, steady, left>>

None == <<>>    \* no ledger
Never == -1     \* no count yet
Uncharged == [sound |-> FALSE, at |-> 0, secs |-> 0]
NothingDue == [day |-> Uncharged, week |-> Uncharged]
Settled == [age |-> Never, tripped |-> FALSE]

\* The real local day in a ledger's zone, and its week.
RealDay(L) == DayKey(today, L.cfg.zone)
RealWeek(L) == WeekKey(RealDay(L), L.cfg.weekStart)

\* What a history says the real day or week was charged.
Charged(history, real) == IF history.at = real THEN history.secs ELSE 0

Init ==
  /\ today = 1
  /\ clk \in 1 .. MaxDay
  /\ trusted \in BOOLEAN
  /\ trusted => clk = today
  /\ cfg \in Configs
  /\ led = None /\ disk = None
  /\ guard = Settled /\ open = TRUE /\ wait = Never
  /\ loose = 0 /\ stretch = "first" /\ due = NothingDue /\ diskDue = NothingDue
  /\ steady = 0
  /\ left \in Bounds

-----------------------------------------------------------------------------
(* The world outside the daemon. *)

\* A real midnight.
NextDay ==
  /\ today < left.day
  /\ today' = today + 1
  /\ clk' = clk + 1
  /\ UNCHANGED <<trusted, cfg, led, disk, guard, open, wait, loose,
                 stretch, due, diskDue, steady, left>>

\* NTP reaches the machine: the clock is right and the kernel says so.
Synchronise ==
  /\ ~trusted
  /\ trusted' = TRUE
  /\ clk' = today
  /\ UNCHANGED <<today, cfg, led, disk, guard, open, wait, loose,
                 stretch, due, diskDue, steady, left>>

\* Somebody sets a clock nothing vouches for: in firmware, or as administrator.
SetClock ==
  /\ ~trusted
  /\ left.faults > 0
  /\ \E c \in (1 .. MaxDay + 1) \ {clk} : clk' = c
  /\ left' = [left EXCEPT !.faults = @ - 1]
  /\ UNCHANGED <<today, trusted, cfg, led, disk, guard, open, wait, loose,
                 stretch, due, diskDue, steady>>

\* The daemon dies and starts again: nothing of its memory is left, and with the
\* machine's restart the kernel no longer vouches for the clock.
Restart ==
  /\ left.faults > 0
  /\ trusted' \in {trusted, FALSE}
  /\ led' = None
  /\ guard' = Settled /\ open' = TRUE /\ wait' = Never
  /\ loose' = 0 /\ stretch' = "first" /\ steady' = 0
  /\ due' = diskDue
  /\ left' = [left EXCEPT !.faults = @ - 1]
  /\ UNCHANGED <<today, clk, cfg, disk, diskDue>>

\* The guardian's clause changes its zone or its week start.
EditClause ==
  /\ left.faults > 0
  /\ \E c \in Configs \ {cfg} : cfg' = c
  /\ left' = [left EXCEPT !.faults = @ - 1]
  /\ UNCHANGED <<today, clk, trusted, led, disk, guard, open, wait,
                 loose, stretch, due, diskDue, steady>>

-----------------------------------------------------------------------------
(* The run loop. *)

\* sync: the child tracked, or rebuilt from the saved ledger.
Tracked == CASE led # None -> led
             [] led = None /\ disk # None -> disk
             [] led = None /\ disk = None -> NewLedger(cfg, clk)

Ages(g) == IF g.age = Never THEN g ELSE [g EXCEPT !.age = IF @ < Grace THEN @ + 1 ELSE @]

\* Mutation: a full disk gets the grace too.
RecordedPatiently(g, result) ==
  CASE result = "ok" -> Settled
    [] result # "ok" /\ g.age = Never -> [age |-> 0, tripped |-> FALSE]
    [] result # "ok" /\ g.age # Never -> [g EXCEPT !.tripped = @ \/ g.age >= Grace]

\* UsageSaveGuard::record: a full disk trips it at once, another error when it
\* has failed without a break for the grace, and only a save settles it.
Recorded(g, result) ==
  CASE result = "ok" -> Settled
    [] result = "full" -> [age |-> IF g.age = Never THEN 0 ELSE g.age, tripped |-> TRUE]
    [] result = "error" /\ g.age = Never -> [age |-> 0, tripped |-> g.tripped]
    [] result = "error" /\ g.age # Never -> [g EXCEPT !.tripped = @ \/ g.age >= Grace]

\* The meter of one iteration: reconcile to the clause, roll, charge.
MeteredLedger(use) == Credited(Reconciled(Tracked, cfg, clk), clk, trusted, use)

\* The history of one meter m, charged on the real day or week.
Noted(history, m, real, use) ==
  LET sound == history.sound \/ m.key <= real
  IN IF sound /\ m.key >= real
     THEN [sound |-> TRUE, at |-> real, secs |-> Charged(history, real) + use]
     ELSE [history EXCEPT !.sound = sound]

\* What the day and the week have been charged: a clause edit, or a ledger born
\* with the clock ahead, starts the history again.
MeteredDue(L, use) ==
  LET kept == IF Tracked.cfg = cfg THEN due ELSE NothingDue
  IN [day |-> Noted(kept.day, L.day, RealDay(L), use),
      week |-> Noted(kept.week, L.week, RealWeek(L), use)]

\* Step 4: on a slow tick, and on the first iteration that gets there.
Saves(slow) == slow \/ wait = Never

\* One iteration: the child has used the machine since the last one or not,
\* the tick is slow or not, and a save lands or fails one way or another.
Iterate(use, slow, result) ==
  LET L == MeteredLedger(use)
      g == Ages(guard)
  IN /\ use = 1 => open /\ left.use > 0
     /\ wait # Never /\ wait + 1 >= SlowEvery => slow
     /\ ~Saves(slow) => result = "ok"
     /\ led' = L
     /\ due' = MeteredDue(L, use)
     /\ open' = ~guard.tripped
     /\ steady' = IF ~trusted THEN 0
                  ELSE IF steady = 0 \/ Tracked.cfg # cfg THEN today ELSE steady
     /\ left' = [left EXCEPT !.use = @ - use]
     /\ IF Saves(slow)
        THEN /\ guard' = Recorded(g, result)
             /\ stretch' = CASE result = "ok" -> "later" [] result = "error" -> "mild"
                             [] result = "full" -> stretch
             /\ IF result = "ok" THEN disk' = Snapshot(L) /\ diskDue' = due' /\ loose' = 0
                ELSE UNCHANGED <<disk, diskDue>> /\ loose' = loose + use
        ELSE /\ guard' = g /\ loose' = loose + use
             /\ UNCHANGED <<disk, diskDue, stretch>>
     /\ wait' = IF slow THEN 0 ELSE IF wait = Never THEN 1 ELSE wait + 1
     /\ UNCHANGED <<today, clk, trusted, cfg>>

\* An iteration that finds no policy for the child: sync forgets its ledger and
\* retain its record in the guard; the first save of the run is now behind.
IterateWithout ==
  /\ left.faults > 0
  /\ led' = None
  /\ due' = diskDue
  /\ guard' = Settled /\ open' = TRUE
  /\ loose' = 0 /\ stretch' = "later" /\ steady' = 0
  /\ wait' = IF wait = Never THEN 0 ELSE wait
  /\ left' = [left EXCEPT !.faults = @ - 1]
  /\ UNCHANGED <<today, clk, trusted, cfg, disk, diskDue>>

-----------------------------------------------------------------------------
Results == {"ok", "full", "error"}

Next ==
  \/ NextDay \/ Synchronise \/ SetClock \/ Restart \/ EditClause \/ IterateWithout
  \/ \E use \in {0, 1}, slow \in BOOLEAN, result \in Results : Iterate(use, slow, result)

Spec == Init /\ [][Next]_vars

-----------------------------------------------------------------------------
(* Properties. *)

Keys == 1 - WeekLen .. 2 * MaxDay + 2
Entries == [key : Keys, secs : Nat]
Meters == {m \in [key : Keys, secs : Nat, chain : Seq(Entries)] : Len(m.chain) <= ChainCap}
Ledgers == [cfg : Configs, day : Meters, week : Meters]
Histories == [sound : BOOLEAN, at : Keys, secs : Nat]

\* The types of the variables; the chain of a ledger that is saved and restored
\* for years stays within its cap.
TypeOK ==
  /\ today \in 1 .. MaxDay /\ clk \in 1 .. MaxDay + today /\ trusted \in BOOLEAN
  /\ cfg \in Configs
  /\ led \in Ledgers \union {None} /\ disk \in Ledgers \union {None}
  /\ guard \in [age : {Never} \union 0 .. Grace, tripped : BOOLEAN]
  /\ open \in BOOLEAN /\ wait \in {Never} \union 0 .. SlowEvery
  /\ loose \in Nat /\ stretch \in {"first", "later", "mild"}
  /\ due \in [day : Histories, week : Histories]
  /\ diskDue \in [day : Histories, week : Histories]
  /\ steady \in 0 .. MaxDay
  /\ left \in [day : 1 .. MaxDay, use : Nat, faults : Nat]

\* A trip of the clock into the future is worth nothing once the clock is right
\* again: whatever excursions, restarts and returns there were, what was used
\* today, and this week, is counted today, and this week (the pre-roll chains).
TimeSpentIsCounted ==
  led # None /\ trusted =>
    LET R == Rolled(led, clk, trusted)
    IN /\ R.day.secs >= Charged(due.day, RealDay(led))
       /\ R.week.secs >= Charged(due.week, RealWeek(led))

\* A wrong clock locks nobody for good: two midnights after the clock was put
\* right the meter holds exactly what today was charged (drop_back).
MeterRecovers ==
  led # None /\ steady # 0 /\ today >= steady + 2 =>
    UsedToday(led, clk) = Charged(due.day, RealDay(led))

\* The key a device announces for its usage is the key its next roll leaves: the
\* two places that decide it agree (current_day_key mirrors roll).
AnnouncedKeyIsTheRolledOne ==
  led # None => CurrentDayKey(led, clk, trusted) = Rolled(led, clk, trusted).day.key

\* The meter is right in both directions: what was used counts, and no more for good; and
\* it is the meter of the day the device names.
MeterIsRight == TimeSpentIsCounted /\ MeterRecovers /\ AnnouncedKeyIsTheRolledOne

\* Time no saved ledger holds, which a restart gives back, is bounded.  While the
\* disk is full: what is charged before the first save of a run and the decision
\* after it, or a slow tick's worth and that decision.  Else by the grace as well.
LossIsBounded ==
  loose <= CASE stretch = "first" -> 2
             [] stretch = "later" -> SlowEvery + 1
             [] stretch = "mild" -> Grace + 2 * SlowEvery + 1

\* That is all a restart gives back of today: the saved ledger, once the clock
\* is right, counts the rest of what was used.
RestartGivesBackOnlyTheLoose ==
  led # None /\ trusted /\ (disk # None => disk.cfg = led.cfg) =>
    Charged(due.day, RealDay(led)) <=
      loose + IF disk = None THEN 0 ELSE Rolled(disk, clk, trusted).day.secs

\* A restart gives back what was bound to be lost, and nothing else.
RestartLosesLittle == LossIsBounded /\ RestartGivesBackOnlyTheLoose

\* Nothing refills a ledger but a later day: a count only falls when the clock
\* has passed its key under the same clause, never by an edit, a trip of the
\* clock backwards or a pull-back; and an untrusted clock never moves a key back.
OnlyALaterDayRefills ==
  [][led # None /\ led' # None =>
       /\ led'.day.secs < led.day.secs => led'.cfg = led.cfg /\ DayNow(led, clk) > led.day.key
       /\ led'.day.key < led.day.key => trusted \/ led'.cfg # led.cfg]_vars

\* Only a save that lands lifts the pause of a child whose saves fail, short of
\* a restart: not a tick that found no policy for it.
OnlyASaveLiftsThePause ==
  [][guard.tripped /\ ~guard'.tripped /\ wait' # Never
     => led' # None /\ disk' = Snapshot(led')]_vars
=============================================================================
