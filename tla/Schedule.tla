------------------------------ MODULE Schedule ------------------------------
(***************************************************************************)
(* The two evaluators of a schedule clause: the classic one every device   *)
(* enforces (charter-schedule/schedule_eval.rs), which reads a window as   *)
(* open time whatever its tag, and the one that honours tags (times.rs).   *)
(* Both are here as operators on a schedule, a timezone and an instant,    *)
(* with the countdowns they announce; Now is a clock that runs through     *)
(* them.                                                                   *)
(*                                                                         *)
(* An instant counts minutes, and so does the wall: a local day has DayLen *)
(* of them, day 0 begins at wall 0.  A timezone is one change of offset:   *)
(* from the instant jump on the wall is shift ahead of what it was, so a   *)
(* positive shift skips wall minutes and a negative one repeats them.      *)
(*                                                                         *)
(* A schedule keeps a sequence of windows for each day of the week and for *)
(* the dates its overrides name.  version is whether the build implements  *)
(* the clause's version, zoned whether its timezone can be read.  A day    *)
(* without an entry and a day with an empty one are the same to both       *)
(* evaluators.                                                             *)
(***************************************************************************)
EXTENDS Integers, Sequences, FiniteSetsExt, SequencesExt

CONSTANTS
  DayLen,    \* wall minutes in a day
  WeekLen,   \* days in a week
  None,      \* the absent tag, and a countdown to nothing
  Known,     \* the tags the device's times clause defines
  Schedules, \* the clauses the clock is run through
  Zones,     \* the timezones
  Horizon    \* bound: the last instant the clock reaches

ASSUME DayLenAssumption == DayLen \in Nat \ {0}
ASSUME WeekLenAssumption == WeekLen \in Nat \ {0}
ASSUME NoneAssumption == None \notin Known

\* A window starts and ends at a minute of the day, and so is over before its last one is
\* (parse_hhmm).
ASSUME SchedulesAssumption ==
  \A s \in Schedules:
    /\ DOMAIN s.weekly = 0 .. WeekLen - 1
    /\ {s.version, s.paused, s.zoned} \subseteq BOOLEAN
    /\ \A wins \in Range(s.weekly) \cup Range(s.overrides):
         /\ Len(wins) \in Nat /\ DOMAIN wins = 1 .. Len(wins)
         /\ \A i \in DOMAIN wins: {wins[i].start, wins[i].end} \subseteq 0 .. DayLen - 1

\* A change of offset moves the wall by a day at most, and never before day 0.
ASSUME ZonesAssumption ==
  \A z \in Zones: z.jump \in Nat /\ z.shift \in -DayLen .. DayLen /\ z.jump + z.shift >= 0

VARIABLES
  sched,     \* the clause in force
  zone,      \* its timezone
  now        \* the instant

vars == <<sched, zone, now>>

-----------------------------------------------------------------------------
\* Wall time.

Wall(z, t) == IF t < z.jump THEN t ELSE t + z.shift
DayOf(z, t) == Wall(z, t) \div DayLen
MinuteOf(z, t) == Wall(z, t) % DayLen

\* local_wall_ts: the earlier instant of a repeated wall minute, the first after the
\* gap of a skipped one.
LocalWallTs(z, day, minute) ==
  LET w == day * DayLen + minute
  IN IF w < z.jump THEN w
     ELSE IF w - z.shift >= z.jump THEN w - z.shift
     ELSE z.jump

-----------------------------------------------------------------------------
\* The windows of a day.

\* windows_for and day_windows: an override replaces the weekly entry, and a window
\* that does not end after it starts is dropped; the others keep their order.
DayWindows(s, day) ==
  LET raw == IF day \in DOMAIN s.overrides THEN s.overrides[day]
             ELSE s.weekly[day % WeekLen]
  IN [i \in {i \in DOMAIN raw: raw[i].start < raw[i].end} |-> raw[i]]

Covers(w, minute) == w.start <= minute /\ minute < w.end

Boundaries(wins) == {wins[i].start : i \in DOMAIN wins} \cup {wins[i].end : i \in DOMAIN wins}

\* Nothing in the clause constrains any day.
IsUnbounded(s) ==
  /\ \A d \in DOMAIN s.weekly: s.weekly[d] = <<>>
  /\ DOMAIN s.overrides = {}

\* Mutation: the search stops before the same weekday comes round again.
ProbedShort(z, t) == DayOf(z, t) .. DayOf(z, t) + WeekLen - 1

\* The days a search for the next opening looks at: this one and a week more.
Probed(z, t) == DayOf(z, t) .. DayOf(z, t) + WeekLen

\* The least countdown to one of these instants, the first of them first.
SecondsTo(instants, t) ==
  LET later == {i \in instants: i > t}
  IN IF later = {} THEN None ELSE Min(later) - t

-----------------------------------------------------------------------------
\* The classic evaluator.

\* next_open_secs of schedule_eval.rs.
NextStart(s, z, t) ==
  SecondsTo(UNION {{LocalWallTs(z, d, w.start) : w \in Range(DayWindows(s, d))}
                   : d \in Probed(z, t)}, t)

\* evaluate_grant_schedule.
EvaluateGrantSchedule(s, z, t) ==
  LET wins == DayWindows(s, DayOf(z, t))
      covering == {i \in DOMAIN wins: Covers(wins[i], MinuteOf(z, t))}
  IN IF ~s.version THEN [is |-> "unparseable"]
     ELSE IF s.paused THEN [is |-> "locked", opens |-> None]
     ELSE IF ~s.zoned THEN [is |-> "unparseable"]
     ELSE IF IsUnbounded(s) THEN [is |-> "unbounded"]
     ELSE IF covering # {}
       THEN [is |-> "open",
             left |-> Max({0, LocalWallTs(z, DayOf(z, t), wins[Min(covering)].end) - t})]
     ELSE [is |-> "locked", opens |-> NextStart(s, z, t)]

\* evaluate_app_rule: an app with hours of its own may run inside them only.
MayRun(blocked, s, z, t) ==
  ~blocked /\ (s # None => EvaluateGrantSchedule(s, z, t).is \in {"unbounded", "open"})

-----------------------------------------------------------------------------
\* The evaluator that honours tags.

Closed == [is |-> "closed"]
Free == [is |-> "runs", time |-> None]
Named(tag) == [is |-> IF tag \in Known THEN "runs" ELSE "unknown", time |-> tag]

\* Mutation: a window still covers the minute it ends at.
LabelAtInclusive(wins, minute) ==
  LET covering == {i \in DOMAIN wins: wins[i].start <= minute /\ minute <= wins[i].end}
      tagged == {i \in covering: wins[i].time # None}
  IN IF tagged # {} THEN Named(wins[Min(tagged)].time)
     ELSE IF covering # {} THEN Free
     ELSE Closed

\* label_at: a tagged window beats every untagged one, among tagged the one that
\* started first wins, and only then is its tag looked up.
LabelAt(wins, minute) ==
  LET covering == {i \in DOMAIN wins: Covers(wins[i], minute)}
      tagged == {i \in covering: wins[i].time # None}
      winner == CHOOSE i \in tagged: \A j \in tagged:
                  \/ wins[i].start < wins[j].start
                  \/ wins[i].start = wins[j].start /\ i <= j
  IN IF tagged # {} THEN Named(wins[winner].time)
     ELSE IF covering # {} THEN Free
     ELSE Closed

Runnable(label) == label.is = "runs"

\* Mutation: the span ends where its own window does, whatever carves it.
SpanEndMinuteUncarved(wins, minute) ==
  Max({b \in Boundaries(wins): b > minute /\ \E i \in DOMAIN wins: wins[i].end = b /\ Covers(wins[i], minute)})

\* span_end_minute: the first later boundary with another label, or the day's end.
SpanEndMinute(wins, minute) ==
  LET ends == {b \in Boundaries(wins): b > minute /\ LabelAt(wins, b) # LabelAt(wins, minute)}
  IN IF ends = {} THEN DayLen ELSE Min(ends)

\* next_open_secs of times.rs: the next boundary a runnable label holds at.
NextOpen(s, z, t) ==
  SecondsTo(UNION {{LocalWallTs(z, d, b) : b \in {b \in Boundaries(DayWindows(s, d)):
                                                   Runnable(LabelAt(DayWindows(s, d), b))}}
                   : d \in Probed(z, t)}, t)

\* evaluate_times.
EvaluateTimes(s, z, t) ==
  LET wins == DayWindows(s, DayOf(z, t))
      label == LabelAt(wins, MinuteOf(z, t))
      end == LocalWallTs(z, DayOf(z, t), SpanEndMinute(wins, MinuteOf(z, t)))
  IN IF ~s.version THEN [is |-> "unparseable"]
     ELSE IF s.paused THEN [is |-> "locked", why |-> "paused", opens |-> None]
     ELSE IF ~s.zoned THEN [is |-> "unparseable"]
     ELSE IF IsUnbounded(s) THEN [is |-> "unbounded"]
     ELSE IF Runnable(label)
       THEN [is |-> "open", time |-> label.time, until |-> Max({end, t})]
     ELSE [is |-> "locked", why |-> label.is, opens |-> NextOpen(s, z, t)]

Readable(s) == s.version /\ ~s.paused /\ s.zoned /\ ~IsUnbounded(s)

\* The label a boundary brings, where it brings one.
Starts(wins, b) ==
  /\ Runnable(LabelAt(wins, b))
  /\ b > 0 => LabelAt(wins, b - 1) # LabelAt(wins, b)

\* next_window: the next start of a runnable span, today or tomorrow.
NextWindow(s, z, t) ==
  LET On(d) == {[time |-> LabelAt(DayWindows(s, d), b).time,
                 start |-> LocalWallTs(z, d, b),
                 hhmm |-> b,
                 day |-> d - DayOf(z, t)] :
                b \in {b \in Boundaries(DayWindows(s, d)):
                         /\ d = DayOf(z, t) => b > MinuteOf(z, t)
                         /\ Starts(DayWindows(s, d), b)
                         /\ LocalWallTs(z, d, b) > t}}
      offered == On(DayOf(z, t)) \cup On(DayOf(z, t) + 1)
  IN IF ~Readable(s) \/ offered = {} THEN None
     ELSE CHOOSE w \in offered: \A v \in offered:
            w.day * DayLen + w.hhmm <= v.day * DayLen + v.hhmm

\* Mutation: the span that ended first today, not last.
DefaultAskTimeFirst(s, z, t) ==
  LET wins == DayWindows(s, DayOf(z, t))
      spans == {[from |-> b, to |-> SpanEndMinute(wins, b), time |-> LabelAt(wins, b).time] :
                b \in {b \in Boundaries(wins): Starts(wins, b)}}
  IN IF ~Readable(s) \/ spans = {} THEN None
     ELSE (CHOOSE p \in spans: \A q \in spans: p.from <= q.from).time

\* default_ask_time: of today's runnable spans the one that ended last, else the next
\* one up.
DefaultAskTime(s, z, t) ==
  LET wins == DayWindows(s, DayOf(z, t))
      spans == {[from |-> b, to |-> SpanEndMinute(wins, b), time |-> LabelAt(wins, b).time] :
                b \in {b \in Boundaries(wins): Starts(wins, b)}}
      ended == {p \in spans: p.to <= MinuteOf(z, t)}
      coming == {p \in spans: p.from > MinuteOf(z, t)}
  IN IF ~Readable(s) THEN None
     ELSE IF ended # {} THEN (CHOOSE p \in ended: \A q \in ended: q.to <= p.to).time
     ELSE IF coming # {} THEN (CHOOSE p \in coming: \A q \in coming: p.from <= q.from).time
     ELSE None

-----------------------------------------------------------------------------
\* The clock.

Init ==
  /\ sched \in Schedules
  /\ zone \in Zones
  /\ now = 0

\* A minute passes, and every caller evaluates again.
Tick ==
  /\ now < Horizon
  /\ now' = now + 1
  /\ UNCHANGED <<sched, zone>>

Next == Tick

Spec == Init /\ [][Next]_vars

-----------------------------------------------------------------------------
\* Properties.

\* The wall minutes the change of offset skips or repeats.
Disturbed(z) ==
  IF z.shift > 0 THEN z.jump + 1 .. z.jump + z.shift - 1 ELSE z.jump + z.shift .. z.jump - 1

Days == 0 .. DayOf(zone, now) + WeekLen

\* The wall minutes at which a window starts or ends.
Edges == UNION {{d * DayLen + b : b \in Boundaries(DayWindows(sched, d))} : d \in Days}

\* None of them is skipped or repeated, and what is skipped is not just what lies between two.
Undisturbed ==
  /\ Edges \cap Disturbed(zone) = {}
  /\ zone.shift > 0 => ~({zone.jump, zone.jump + zone.shift} \subseteq Edges)

Times(t) == EvaluateTimes(sched, zone, t)
Classic(t) == EvaluateGrantSchedule(sched, zone, t)

\* The instants of this day and of a week more.
Ahead == {t \in now + 1 .. now + (WeekLen + 2) * DayLen: DayOf(zone, t) <= DayOf(zone, now) + WeekLen}

FirstAhead(P(_)) == LET i == {t \in Ahead: P(t)} IN IF i = {} THEN None ELSE Min(i) - now

\* The instants a runnable span begins at, today or tomorrow.
Begins ==
  {t \in Ahead: /\ DayOf(zone, t) <= DayOf(zone, now) + 1
                /\ Times(t).is = "open"
                /\ Times(t - 1).is = "open" => Times(t - 1).time # Times(t).time}

\* The countdown of a lock ends at the first instant something may run, and there is
\* none only if nothing may run for a week: "access resumes in", by both evaluators.
\* The span the lock card names is the first to begin today or tomorrow, under its own
\* name.  The exception is real: a window that begins in a repeated hour is announced
\* for its first pass alone, and one inside a skipped hour, or that is all of it, for an
\* instant it is not open at.
AnnouncedOpeningIsTrue ==
  Undisturbed /\ Readable(sched) =>
    /\ Times(now).is = "locked" =>
         Times(now).opens = FirstAhead(LAMBDA t: Times(t).is = "open")
    /\ Classic(now).is = "locked" =>
         Classic(now).opens = FirstAhead(LAMBDA t: Classic(t).is = "open")
    /\ LET next == NextWindow(sched, zone, now)
       IN IF Begins = {} THEN next = None
          ELSE next.start = Min(Begins) /\ next.time = Times(Min(Begins)).time

\* The end an open span is announced with is the first instant another time begins, or
\* nothing may run; the classic countdown never promises more time than there is.  The
\* exception is real: a span that both begins and ends around a repeated hour closes
\* in between.
AnnouncedEndIsTrue ==
  Undisturbed =>
    /\ Times(now).is = "open" =>
         Times(now).until - now =
           FirstAhead(LAMBDA t: Times(t).is # "open" \/ Times(t).time # Times(now).time)
    /\ Classic(now).is = "open" =>
         Classic(now).left <= FirstAhead(LAMBDA t: Classic(t).is # "open")

\* What a device that honours tags allows, a device that does not know them allows too:
\* a named time is carved out of the schedule, it never adds to it, and a name the
\* device does not know opens nothing.
TagsOnlyNarrow ==
  /\ Times(now).is = "open" => Classic(now).is = "open"
  /\ Times(now).is = "unparseable" <=> Classic(now).is = "unparseable"
  /\ Times(now).is = "unbounded" <=> Classic(now).is = "unbounded"
  /\ Times(now).is = "open" => Times(now).time \in Known \cup {None}

\* The time a child asks more of by default: the one that ran last and has ended today,
\* else the next one today.
AskDefaultIsToday ==
  LET wins == DayWindows(sched, DayOf(zone, now))
      minute == MinuteOf(zone, now)
      \* Minutes whose end is the end of a runnable span, and those that begin one.
      last == {m \in 0 .. minute - 1: /\ Runnable(LabelAt(wins, m))
                                      /\ LabelAt(wins, m + 1) # LabelAt(wins, m)}
      first == {m \in minute + 1 .. DayLen - 1: /\ Runnable(LabelAt(wins, m))
                                                /\ LabelAt(wins, m - 1) # LabelAt(wins, m)}
  IN Readable(sched) =>
       DefaultAskTime(sched, zone, now) =
         IF last # {} THEN LabelAt(wins, Max(last)).time
         ELSE IF first # {} THEN LabelAt(wins, Min(first)).time
         ELSE None

\* Every instant and every time a child or a guardian is shown is the right one.
WhatIsShownIsTrue ==
  AnnouncedOpeningIsTrue /\ AnnouncedEndIsTrue /\ AskDefaultIsToday
=============================================================================
