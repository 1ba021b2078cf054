----------------------------- MODULE StatusFeed -----------------------------
(***************************************************************************)
(* A device's STATUS feed, from the warden's loop (status_emit.rs,          *)
(* status_seq.rs, runtime.rs, warden.rs) to the reading the guardian's app  *)
(* shows (deviceStatusAdmit.ts).  The device's clock moves, the counter's   *)
(* file fails or is lost, publishes fail or land unconfirmed, the daemon    *)
(* restarts and is upgraded from one that sent no seq, and the guardian     *)
(* gets what the relays hold in any order, any number of times.             *)
(*                                                                         *)
(* A reading is its number, its ts and seq, and one displayable bit.        *)
(***************************************************************************)
EXTENDS Integers, FiniteSets, FiniteSetsExt

CONSTANTS
  None,
  Heartbeat,    \* STATUS_HEARTBEAT_SECS
  Scale,        \* milliseconds in a second
  Tolerance,    \* UPGRADE_TS_TOLERANCE_SECS
  FlagAge,      \* FLAG_MAX_AGE_MS
  Moves,        \* the steps the device's clock may be moved by
  MaxReal, MaxReadings, MaxMishaps   \* bounds; a mishap is a move, a failed write or a restart

\* A status (StatusPayload), with the note the guardian's app may put on it.
Readings ==
  [n : Nat, ts : Nat, locked : BOOLEAN, stepped : Nat \cup {None}, seq : Nat \cup {None},
   flagAt : Nat \cup {None}]

ASSUME NoneAssumption == None \notin Int /\ None \notin Readings
ASSUME TimesAssumption ==
  Heartbeat \in Nat /\ Scale \in Nat \ {0} /\ Tolerance \in Nat /\ FlagAge \in Nat
ASSUME MovesAssumption == Moves \subseteq Int
ASSUME BoundsAssumption == MaxReal \in Nat /\ MaxReadings \in Nat /\ MaxMishaps \in Nat

VARIABLES
  platform,     \* linux, whose loop throttles by what it emitted, or android, by what a relay took
  real,         \* passes since the start
  wall,         \* the device's clock
  locked,       \* what there is to display
  sequenced,    \* the build in force stamps seq
  mem,          \* StatusSeq.last
  stored,       \* its file, or None
  last,         \* the last status emitted, as the throttle holds it, or None
  carried,      \* status_step_undelivered, or None
  flight,       \* the status being published, or None
  count,        \* readings emitted
  onRelays,     \* the readings some relay holds
  cur,          \* deviceStatus of the guardian's app: a reading with its note, or None
  got,          \* the readings this session of the app has taken in
  mishaps,
  slipped,      \* whether the file ever failed or was lost
  movedBack,    \* whether the clock ever moved back
  silent,       \* passes with no emission and none in flight
  lag           \* what the clock's moves may add to them: how far it was moved back and stayed
                \* ahead of the last reading, and all of the silence so far where it fell behind
                \* that reading and was set forward again before a pass

wardVars == <<platform, real, wall, locked, sequenced, mem, stored, last, carried, flight, count,
              mishaps, slipped, movedBack, silent, lag>>
guardianVars == <<cur, got>>
vars == <<wardVars, onRelays, guardianVars>>

Highest(x, y) == IF x = None THEN y ELSE IF y = None THEN x ELSE Max({x, y})
Mishap == mishaps < MaxMishaps /\ mishaps' = mishaps + 1
Distance(x, y) == IF x < y THEN y - x ELSE x - y

-----------------------------------------------------------------------------
\* The device.

\* StatusSeq::resume.
\* Mutation: the file wins whenever there is one, the clock only without it.
ResumeFromFile(clk) == IF stored = None THEN Scale * clk ELSE stored
Resume(clk) == Highest(stored, Scale * clk)

\* clock_stepped_back_from.
SteppedBackFrom ==
  Highest(IF last # None /\ wall < last.ts THEN last.ts ELSE None, carried)

\* should_emit_status.
\* Mutation: only a clock that moved forward makes a heartbeat.
DueForward ==
  last # None => last.locked # locked \/ wall - last.ts >= Heartbeat
Due ==
  last # None => \/ last.locked # locked
                 \/ wall < last.ts
                 \/ Distance(wall, last.ts) >= Heartbeat

Reading ==
  [n |-> count + 1, ts |-> wall, locked |-> locked, stepped |-> SteppedBackFrom,
   seq |-> IF sequenced THEN mem + 1 ELSE None, flagAt |-> None]

\* next_durable: the value is taken whether or not its write lands.
TakeSeq(lands) ==
  IF sequenced
    THEN /\ mem' = mem + 1
         /\ IF lands THEN stored' = mem + 1 /\ UNCHANGED <<mishaps, slipped>>
            ELSE Mishap /\ slipped' = TRUE /\ UNCHANGED stored
    ELSE lands /\ UNCHANGED <<mem, stored, mishaps, slipped>>

\* A pass that emits, and the time to the next: the publish runs on its own task.
Emit(lands) ==
  /\ Due /\ flight = None /\ count < MaxReadings
  /\ TakeSeq(lands)
  /\ flight' = Reading
  /\ last' = IF platform = "linux" THEN Reading ELSE last
  /\ count' = count + 1
  /\ real' = real + 1
  /\ wall' = wall + 1
  /\ silent' = 0
  /\ lag' = 0
  /\ UNCHANGED <<platform, locked, sequenced, carried, movedBack, onRelays, guardianVars>>

\* The publish ends.  A relay may hold what was not confirmed.
Landed(held, accepted) ==
  /\ flight # None
  /\ accepted => held
  /\ onRelays' = IF held THEN onRelays \cup {flight} ELSE onRelays
  /\ flight' = None
  /\ last' = IF platform = "android" /\ accepted THEN flight ELSE last
  /\ carried' = IF accepted THEN None
                ELSE IF flight.stepped # None THEN flight.stepped ELSE carried
  /\ UNCHANGED <<platform, real, wall, locked, sequenced, mem, stored, count, mishaps,
                 slipped, movedBack, silent, lag, guardianVars>>

\* Time passes, by one pass that has nothing to emit or is still publishing.
Pass ==
  /\ real < MaxReal
  /\ flight # None \/ ~Due
  /\ real' = real + 1
  /\ wall' = wall + 1
  /\ silent' = IF flight = None THEN silent + 1 ELSE silent
  /\ UNCHANGED <<platform, locked, sequenced, mem, stored, last, carried, flight, count,
                 mishaps, slipped, movedBack, lag, onRelays, guardianVars>>

\* The device locks or opens.
Change ==
  /\ count > 0 /\ last # None /\ last.locked = locked
  /\ locked' = ~locked
  /\ UNCHANGED <<platform, real, wall, sequenced, mem, stored, last, carried, flight, count,
                 mishaps, slipped, movedBack, silent, lag, onRelays, guardianVars>>

MoveClock(d) ==
  /\ Mishap /\ wall + d >= 0
  /\ wall' = wall + d
  /\ movedBack' = (movedBack \/ d < 0)
  /\ lag' = IF last = None \/ wall + d < last.ts THEN lag
            ELSE IF wall < last.ts THEN lag + silent
            ELSE IF d < 0 THEN lag - d ELSE lag
  /\ UNCHANGED <<platform, real, locked, sequenced, mem, stored, last, carried, flight, count,
                 slipped, silent, onRelays, guardianVars>>

\* The counter's file is lost or torn.
LoseFile ==
  /\ stored # None /\ Mishap
  /\ stored' = None
  /\ slipped' = TRUE
  /\ UNCHANGED <<platform, real, wall, locked, sequenced, mem, last, carried, flight, count,
                 movedBack, silent, lag, onRelays, guardianVars>>

\* The daemon starts again, on a build that stamps seq if the old one did; what was being
\* published may have reached a relay.
Restart(upgraded, held) ==
  /\ Mishap
  /\ sequenced => upgraded
  /\ held => flight # None
  /\ real' = real + 1
  /\ wall' = wall + 1
  /\ sequenced' = upgraded
  /\ mem' = Resume(wall + 1)
  /\ last' = None
  /\ carried' = None
  /\ flight' = None
  /\ onRelays' = IF held THEN onRelays \cup {flight} ELSE onRelays
  /\ silent' = 0
  /\ lag' = 0
  /\ UNCHANGED <<platform, locked, stored, count, slipped, movedBack, guardianVars>>

-----------------------------------------------------------------------------
\* The guardian's app.

\* carryOrClearFlag.
CarryOrClear(s) ==
  IF cur.flagAt = None \/ s.ts >= cur.stepped \/ real - cur.flagAt >= FlagAge THEN s
  ELSE [s EXCEPT !.stepped = cur.stepped, !.flagAt = cur.flagAt]

\* admitWithBackwardCheck.
\* Mutation: only a vouched step is noted.
AdmitVouched(s) == IF s.stepped = None THEN CarryOrClear(s) ELSE [s EXCEPT !.flagAt = real]
Admit(s) ==
  IF s.stepped = None /\ s.ts >= cur.ts THEN CarryOrClear(s)
  ELSE [s EXCEPT !.stepped = IF @ = None THEN cur.ts ELSE @, !.flagAt = real]

Vouched(s) == s.stepped # None /\ s.stepped >= cur.ts

\* admitByTsRule.
AdmitByTs(s) ==
  IF s.ts > cur.ts THEN CarryOrClear(s)
  ELSE IF s.ts < cur.ts /\ Vouched(s) THEN [s EXCEPT !.flagAt = real]
  ELSE cur

\* admitOnUpgrade.
AdmitOnUpgrade(s) == IF s.ts >= cur.ts - Tolerance \/ Vouched(s) THEN Admit(s) ELSE cur

\* mergeDeviceStatus.
Merged(s) ==
  CASE cur = None -> s
    [] cur # None /\ s.seq # None /\ cur.seq # None -> IF s.seq <= cur.seq THEN cur ELSE Admit(s)
    [] cur # None /\ s.seq # None /\ cur.seq = None -> AdmitOnUpgrade(s)
    [] cur # None /\ s.seq = None /\ cur.seq # None -> cur
    [] OTHER -> AdmitByTs(s)

\* ingestDeviceStatus: a wrap the app reads, again or for the first time.
Ingest(s) ==
  /\ cur' = Merged(s)
  /\ got' = got \cup {s.n}
  /\ UNCHANGED <<wardVars, onRelays>>

\* The live map is not kept: a new session starts without one.
Reload ==
  /\ cur # None
  /\ cur' = None
  /\ got' = {}
  /\ UNCHANGED <<wardVars, onRelays>>

-----------------------------------------------------------------------------
Init ==
  /\ platform \in {"linux", "android"}
  /\ sequenced \in BOOLEAN
  /\ real = 0
  /\ wall = 1
  /\ locked = FALSE
  /\ mem = Scale
  /\ stored = None
  /\ last = None
  /\ carried = None
  /\ flight = None
  /\ count = 0
  /\ onRelays = {}
  /\ cur = None
  /\ got = {}
  /\ mishaps = 0
  /\ slipped = FALSE
  /\ movedBack = FALSE
  /\ silent = 0
  /\ lag = 0

Next ==
  \/ \E lands \in BOOLEAN: Emit(lands)
  \/ \E held \in BOOLEAN, accepted \in BOOLEAN: Landed(held, accepted)
  \/ Pass
  \/ Change
  \/ \E d \in Moves: MoveClock(d)
  \/ LoseFile
  \/ \E upgraded \in BOOLEAN, held \in BOOLEAN: Restart(upgraded, held)
  \/ \E s \in onRelays: Ingest(s)
  \/ Reload

Spec == Init /\ [][Next]_vars

-----------------------------------------------------------------------------
\* Properties.

\* The sequence is broken only by a file that failed or was lost on a device whose clock
\* was moved back (R3-3, the accepted residual).
Broken == slipped /\ movedBack

\* An app that has taken in all the relays hold shows the newest of it, whatever the order:
\* of a device that sends a seq in all of it, or whose clock was never moved back.
ShowsTheNewest ==
  onRelays # {} /\ got = {s.n : s \in onRelays} /\ ~Broken
    /\ (~movedBack \/ \A s \in onRelays: s.seq # None)
    => \A s \in onRelays: s.n <= cur.n

\* And once a device is known to send a seq, what the app shows of it never goes back to an
\* older reading: not by what a relay serves again, nor by an order of arrival, a step of
\* the device's clock, or a restart of it.
TheNewestIsShown ==
  [][/\ cur # None /\ cur' # None /\ cur.seq # None => cur'.n >= cur.n \/ Broken
     /\ ShowsTheNewest']_vars

\* Of a step of the clock the guardian is told, and is told of none that did not happen.
ClockNoteIsTrue ==
  [][/\ cur' # None /\ cur'.flagAt # None => movedBack'
     /\ cur # None /\ cur' # None /\ cur'.ts < cur.ts => cur'.flagAt # None]_vars

\* "Silence is the one failure the guardian cannot see": whatever is done to its clock, a
\* device says something every heartbeat, longer only by what the clock lost between two
\* passes, neither of which found it behind the last reading.
NeverSilent == silent <= Heartbeat + lag
=============================================================================
