----------------------------- MODULE BreakGlass -----------------------------
(***************************************************************************)
(* The report of an emergency unlock, from the press on the ward's phone   *)
(* to the guardian's Activity history: the journal and its flush           *)
(* (breakglass.rs, the poll of warden.rs), the relays and the home link as *)
(* two routes, and the app's read window, intake and consumption           *)
(* (relayWindow.ts, ingestWrap.ts, localDrain.ts, store.tsx).  Journal     *)
(* writes fail, publishes fail or land unconfirmed, the ward and the app   *)
(* start again at any point, a relay is out of the app's reach.            *)
(*                                                                         *)
(* A press is a number, which stands for its `at`; a wrap is its press,    *)
(* the date it was built and the build.  Both clocks agree; a unit of time *)
(* is longer than a read, a round of publishing or an effect.              *)
(***************************************************************************)
EXTENDS Integers, FiniteSets, FiniteSetsExt

CONSTANTS
  None,
  Rebuild,      \* REBUILD_AFTER_SECS
  Jitter,       \* MAX_JITTER_SECS, MAX_WRAP_JITTER_SECS
  Floor,        \* WINDOW_FLOOR_SECS
  Sweep,        \* SWEEP_INTERVAL_SECS
  Overlap,      \* CURSOR_OVERLAP_SECS
  Bounds        \* what a behaviour is held to: the time it ends, the presses and faults it
                \* may have, when the app is in front, and whether there is a home link

VARIABLES
  bounds,       \* one of Bounds
  now,
  pressed,      \* presses so far
  journaled,    \* those whose journal write landed
  spool,        \* pending-audits.json: a press and its wrap, or None
  round,        \* the flush of a poll: wraps still to publish, wraps a relay took; or None
  faults,       \* writes, builds, publishes and reads that went wrong, and starts of the app
  relays,       \* what some relay holds: a wrap and when it first got there
  offered,      \* wraps ever offered to the home link
  arrived,      \* those that reached the guardian's carrier
  inbox,        \* what the carrier keeps for the app
  claimed,      \* when the guardian's app came to know the device, or None
  lines,        \* Activity lines of a press in the app's state
  ref,          \* the same, in stateRef: the state as of the last effect
  saved,        \* the same, in storage
  persistedOk,
  handled,      \* handledWraps
  seen,         \* seenAudits
  cursor,       \* pollCursor, or None
  sweptAt,      \* lastSweepAt, or None
  queue,        \* ConsumeQueue: a wrap and the press that must be in storage first, or None
  lastRead,     \* when the last read that reached the relays began, in this session, or None
  lastBlind,    \* when the last one began that completed without reaching them
  stale         \* wraps the app met too late to unwrap

wardVars == <<pressed, journaled, spool, round, offered>>
stored == <<lines, ref, saved, persistedOk>>
intake == <<handled, seen, queue, stale>>
reads == <<cursor, sweptAt, lastRead, lastBlind>>
appVars == <<claimed, stored, intake, reads>>
vars == <<bounds, now, faults, wardVars, relays, arrived, inbox, appVars>>

Presses == 1 .. Max({b.presses : b \in Bounds})
FaultIf(bad) ==
  IF bad THEN faults < bounds.faults /\ faults' = faults + 1 ELSE UNCHANGED faults
Distance(x, y) == IF x < y THEN y - x ELSE x - y
Fresh(w) == Distance(now, w.date) <= Jitter
OnRelay(w) == \E r \in relays: r.wrap = w

-----------------------------------------------------------------------------
\* The ward.

\* break_glass: the unlock is immediate, its report is journaled.
Press(lands) ==
  /\ pressed < bounds.presses
  /\ FaultIf(~lands)
  /\ pressed' = pressed + 1
  /\ spool' = IF lands THEN spool \cup {[press |-> pressed + 1, wrap |-> None]} ELSE spool
  /\ journaled' = IF lands THEN journaled \cup {pressed + 1} ELSE journaled
  /\ UNCHANGED <<bounds, now, round, offered, relays, arrived, inbox, appVars>>

\* An entry with no wrap, or with one that has waited a day, gets a new one.
DueForBuild(e) == e.wrap # None => Distance(now, e.wrap.date) > Rebuild
Rewrapped(e) ==
  IF DueForBuild(e)
    THEN [e EXCEPT !.wrap = [press |-> e.press, date |-> now, build |-> faults]] ELSE e

\* wraps_to_publish: a new wrap is offered to the link only once the journal holds it, and
\* published whether or not it does.
\* Mutation: it is offered all the same.
OfferedAnyway(wraps, lands) == offered \cup wraps
Offered(wraps, lands) == IF lands THEN offered \cup wraps ELSE offered
Flush(builds, lands) ==
  LET next == IF builds THEN {Rewrapped(e) : e \in spool} ELSE spool
      new == {e.wrap : e \in next} \ {e.wrap : e \in spool}
  IN /\ round = None /\ spool # {}
     /\ new = {} => lands
     /\ FaultIf(~lands \/ ~builds)
     /\ spool' = IF lands THEN next ELSE spool
     /\ offered' = Offered(new, lands)
     /\ round' = [todo |-> {w \in {e.wrap : e \in next}: w # None /\ Fresh(w)}, sent |-> {}]
     /\ UNCHANGED <<bounds, now, pressed, journaled, relays, arrived, inbox, appVars>>

\* publish_wrap of the oldest one left; the first failure ends the round's publishing.
Publish(held, accepted) ==
  /\ round # None /\ round.todo # {}
  /\ accepted => held
  /\ FaultIf(held /\ ~accepted)
  /\ LET w == CHOOSE w \in round.todo: \A v \in round.todo: w.press <= v.press
     IN /\ relays' = IF held /\ ~OnRelay(w) THEN relays \cup {[wrap |-> w, at |-> now]} ELSE relays
        /\ round' = [todo |-> IF accepted THEN round.todo \ {w} ELSE {},
                     sent |-> IF accepted THEN round.sent \cup {w} ELSE round.sent]
  /\ UNCHANGED <<bounds, now, pressed, journaled, spool, offered, arrived, inbox, appVars>>

\* mark_sent.
\* Mutation: the journal is cleared of all that was there to send.
AllCleared(sent) == {}
Unsent(sent) == {e \in spool: e.wrap \notin sent}
MarkSent(lands) ==
  /\ round # None /\ round.todo = {}
  /\ round' = None
  /\ round.sent = {} => lands
  /\ FaultIf(~lands)
  /\ spool' = IF lands /\ round.sent # {} THEN Unsent(round.sent) ELSE spool
  /\ UNCHANGED <<bounds, now, pressed, journaled, offered, relays, arrived, inbox, appVars>>

\* The ward's process ends and starts again.
Crash ==
  /\ round # None
  /\ round' = None
  /\ UNCHANGED <<bounds, now, faults, pressed, journaled, spool, offered, relays, arrived, inbox, appVars>>

\* The home link delivers a wrap to the guardian's carrier.
Arrive(w) ==
  /\ bounds.link /\ w \notin arrived
  /\ arrived' = arrived \cup {w}
  /\ inbox' = inbox \cup {w}
  /\ UNCHANGED <<bounds, now, faults, wardVars, relays, appVars>>

-----------------------------------------------------------------------------
\* The guardian's app.

Held(p) == p \in seen \/ ref[p] > 0

\* Presses that get a line from wraps taken in together.
\* Mutation: every wrap of a press not yet in the state gets one.
NewLinesPerWrap(wraps, p) ==
  IF claimed = None \/ ref[p] > 0 THEN 0 ELSE Cardinality({w \in wraps: w.press = p})
NewLines(wraps, p) ==
  IF claimed = None \/ Held(p) \/ \A w \in wraps: w.press # p THEN 0 ELSE 1

\* The wraps a pass of ingestWrap over a set leaves for later.
Unlanded(wraps) ==
  {w \in wraps \ handled: Fresh(w) /\ claimed = None /\ ~Held(w.press)}

\* ingestWrap, of each wrap of a set.
Take(wraps) ==
  LET open == {w \in wraps \ handled: Fresh(w)}
  IN /\ lines' = [p \in Presses |-> lines[p] + NewLines(open, p)]
     /\ seen' = IF claimed = None THEN seen ELSE seen \cup {w.press : w \in {v \in open: ~Held(v.press)}}
     /\ handled' = handled \cup (wraps \ Unlanded(wraps))
     /\ stale' = stale \cup ((wraps \ handled) \ open)

\* sweepDue.
\* Mutation: only the first read of a session sweeps.
SweepFirst(forced) == forced \/ sweptAt = None
SweepDue(forced) == forced \/ sweptAt = None \/ (sweptAt # None /\ now - sweptAt >= Sweep)

\* windowSince.
WindowSince == Max({IF cursor = None THEN 0 ELSE cursor, now - Floor})

\* pollRelayOnce.  A read that fails throws and covers nothing, so it changes nothing; one
\* that no relay answers completes with nothing.
Read(forced, reaches) ==
  LET sweep == SweepDue(forced)
      since == IF sweep THEN now - Floor ELSE WindowSince
      wraps == IF reaches THEN {r.wrap : r \in {x \in relays: x.wrap.date >= since}} ELSE {}
  IN /\ now \in bounds.front
     /\ FaultIf(~reaches)
     /\ Take(wraps)
     /\ cursor' = IF Unlanded(wraps) # {} THEN cursor ELSE now - Overlap
     /\ sweptAt' = IF sweep THEN now ELSE sweptAt
     /\ lastRead' = IF reaches THEN now ELSE lastRead
     /\ lastBlind' = IF reaches THEN lastBlind ELSE now
     /\ UNCHANGED <<bounds, now, wardVars, relays, arrived, inbox, claimed, ref, saved,
                    persistedOk, queue>>

\* What the queue lets the carrier forget, judged by a state.
\* Mutation: whatever has been handled.
ReadyAtOnce(q, state) == q
Ready(q, state) == {e \in q: e.needs # None => state[e.needs] > 0}

\* ConsumeQueue.add of a wrap, after ingestWrap: a handled one asks for nothing, unless it
\* was asked for before.
Queued ==
  LET done == inbox \ Unlanded(inbox)
      need == [w \in done |-> IF w \in handled \/ ~Fresh(w) THEN None ELSE w.press]
      kept == {e \in queue: e.needs # None \/ e.wrap \notin done}
  IN kept \cup {[wrap |-> w, needs |-> need[w]] : w \in {v \in done: \A e \in kept: e.wrap # v}}

\* drainLocalOnce.
Drain ==
  LET ready == IF persistedOk THEN Ready(Queued, ref) ELSE {}
  IN /\ now \in bounds.front /\ inbox # {}
     /\ Take(inbox)
     /\ queue' = Queued \ ready
     /\ inbox' = inbox \ {e.wrap : e \in ready}
     /\ UNCHANGED <<bounds, now, faults, wardVars, relays, arrived, claimed, ref, saved,
                    persistedOk, reads>>

\* The effects of a change of state: stateRef follows, the state is written, the queue is
\* flushed.
Persist(ok) ==
  LET ready == IF ok THEN Ready(queue, lines) ELSE {}
  IN /\ lines # saved \/ ref # lines
     /\ FaultIf(~ok)
     /\ ref' = lines
     /\ persistedOk' = ok
     /\ saved' = IF ok THEN lines ELSE saved
     /\ queue' = queue \ ready
     /\ inbox' = inbox \ {e.wrap : e \in ready}
     /\ UNCHANGED <<bounds, now, wardVars, relays, arrived, claimed, lines, handled, seen,
                    stale, reads>>

\* The app is closed, or killed, and opened again.
Reload ==
  /\ lastRead # None \/ handled # {}
  /\ FaultIf(TRUE)
  /\ lines' = saved
  /\ ref' = saved
  /\ persistedOk' = TRUE
  /\ handled' = {}
  /\ seen' = {}
  /\ queue' = {}
  /\ cursor' = None
  /\ sweptAt' = None
  /\ lastRead' = None
  /\ lastBlind' = 0
  /\ UNCHANGED <<bounds, now, wardVars, relays, arrived, inbox, claimed, saved, stale>>

\* The guardian adds the device.
Claim ==
  /\ claimed = None
  /\ claimed' = now
  /\ UNCHANGED <<bounds, now, faults, wardVars, relays, arrived, inbox, stored, intake, reads>>

Tick ==
  /\ now < bounds.end /\ pressed > 0 /\ round = None /\ ref = lines
  /\ now' = now + 1
  /\ UNCHANGED <<bounds, faults, wardVars, relays, arrived, inbox, appVars>>

-----------------------------------------------------------------------------
Init ==
  /\ bounds \in Bounds
  /\ now = 0
  /\ pressed = 0
  /\ journaled = {}
  /\ spool = {}
  /\ round = None
  /\ faults = 0
  /\ relays = {}
  /\ offered = {}
  /\ arrived = {}
  /\ inbox = {}
  /\ claimed \in {None, 0}
  /\ lines = [p \in Presses |-> 0]
  /\ ref = lines
  /\ saved = lines
  /\ persistedOk = TRUE
  /\ handled = {}
  /\ seen = {}
  /\ cursor = None
  /\ sweptAt = None
  /\ queue = {}
  /\ lastRead = None
  /\ lastBlind = 0
  /\ stale = {}

Next ==
  \/ \E lands \in BOOLEAN: Press(lands)
  \/ \E builds \in BOOLEAN, lands \in BOOLEAN: Flush(builds, lands)
  \/ \E held \in BOOLEAN, accepted \in BOOLEAN: Publish(held, accepted)
  \/ \E lands \in BOOLEAN: MarkSent(lands)
  \/ Crash
  \/ \E w \in offered: Arrive(w)
  \/ \E forced \in BOOLEAN, reaches \in BOOLEAN: Read(forced, reaches)
  \/ Drain
  \/ \E ok \in BOOLEAN: Persist(ok)
  \/ Reload
  \/ Claim
  \/ Tick

Spec == Init /\ [][Next]_vars

-----------------------------------------------------------------------------
\* Properties.

\* "Breaking it is LOUD": a journaled press stays in the journal until a relay holds its
\* report, whatever is pressed or fails while a round is publishing.
StaysUntilSent ==
  \A p \in journaled: (\E e \in spool: e.press = p) \/ (\E r \in relays: r.wrap.press = p)

\* "Once a day is one extra alert at most": the home link is offered two reports of one
\* press only more than a day apart.
OneAlertADay ==
  \A w \in offered, v \in offered:
    w.press = v.press /\ w # v => Distance(w.date, v.date) > Rebuild

UnlockIsLoud == StaysUntilSent /\ OneAlertADay

\* A report some relay holds is in the Activity of an app that knows the device once it
\* has read for a sweep's time since: however late the report got there, and whatever the
\* app could not reach, could not attribute yet or lost by starting again.
ShownInTime ==
  \A r \in relays:
    /\ claimed # None /\ lastRead # None
    /\ r.wrap.date >= now - Floor
    /\ lastRead >= Max({r.at, IF claimed = None THEN 0 ELSE claimed, lastBlind}) + Sweep
    => lines[r.wrap.press] > 0

\* However often a press is reported, and by whichever route, it is one line.
OneLine == \A p \in Presses: lines[p] <= 1 /\ saved[p] <= 1

\* What the carrier was told to forget is in storage, or it came by a relay as well, or
\* it was too old to be read.
ForgottenIsKept ==
  \A w \in arrived \ inbox: saved[w.press] > 0 \/ OnRelay(w) \/ w \in stale

UnlockIsShown == ShownInTime /\ OneLine /\ ForgottenIsKept

\* "An id is only consumed once whatever it produced has been PERSISTED" (localDrain.ts).
ConsumedIsPersisted ==
  [][\A w \in inbox \ inbox': saved'[w.press] > 0 \/ w \in stale']_vars

\* "So the next read covers that wrap again instead of stepping over it" (nextCursor): a
\* wrap a read could not land is within the window of the next one.
NextReadCovers ==
  [][\A r \in relays:
       r.wrap \in Unlanded({x.wrap : x \in relays}) /\ lastRead' = now /\ cursor' = cursor
         /\ r.wrap.date >= now - Floor /\ cursor # None
         => r.wrap.date >= cursor]_vars
=============================================================================
