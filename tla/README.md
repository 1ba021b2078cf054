# Charter, modelled in TLA+

This directory is the verification development of Charter: a guardian's phone
sets rules and answers requests; a warden (a Linux daemon, or an Android device
owner) on the ward's machine keeps them. The two talk over Nostr relays, or over
a local link, in signed, encrypted events. Nothing on the wire is trusted for
order, timeliness or uniqueness, the daemon may die at any moment, and the rules
must hold all the same.

All paths below are relative to the repository (`src/`).

## The system

| Part | State | Operations | Talks to |
|---|---|---|---|
| Request broker (`charter-spine/broker.rs`) | requests in memory, per-caller submit windows, relay cursor, the handler turn, the released flag | `submit_as`, `cancel`, `on_grant`, `on_clause`, `on_usage_sync`, `on_release`, `poll_once`, `ingest_local`, boot | stores, transport, enactors |
| Lifecycle reducer (`charter-spine/lifecycle.rs`) | none | `transition` | the broker |
| Verifiers (`charter-verify`) | none (consumes through a store) | `verify_grant`, `verify_clause`, `verify_usage_sync`, `verify_release` | consumed-id store |
| Persistence (`charter-sys/persistence.rs`) | consumed ids, pending records, clause records with replay-floor sidecars, usage ledgers, extension ledger, pairing | put, get, list, remove, floors | files, by temp-file and rename (`fsutil.rs`) |
| Guardian's clock and delivery (`charter-app/signer`, `store`) | last `issuedAt`, queue of undelivered clauses | sign, publish, confirm, drain | relays, local link |
| Enactors (`charter-spine/enactors`, `charterd/enactors`) | exec rules, installed apps, the inbox of granted minutes | `enact` | platform, run loop |
| Extra minutes (`charter-schedule/extension.rs`, `runtime.rs`, `multi_child.rs`, `local_adjust.rs`) | per ward a ledger for today, in memory and saved; inbox, gift slot, adjustment file | grant, deduct, roll, reconcile, burn, drain, restore, save | run loop, enforcer |
| Budget and usage (`charter-schedule/usage.rs`, `budget.rs`, `buckets.rs`, `minutes.rs`) | minutes used today and this week, per group, with what an untrusted midnight set aside | credit, roll over, restore, pool with other devices | enforcer, usage sync |
| Enforcer (`charter-schedule/enforcer.rs`, `charter-spine/multi_child.rs`, `enforcer_runtime.rs`) | per ward: locked, the warnings given | tick, freeze and thaw | platform effects, usage |
| Schedules (`schedule_eval.rs`, `times.rs`, `tethering.rs`, `debugging.rs`, `connections.rs`) | none | evaluate | enforcer |
| Stand-down (`charter-spine/standdown.rs`) | the pin of its grace | evaluate, pin, unpin | enforcer |
| Child policy, local limits (`child_policy.rs`, `local_limits.rs`, `device_limits.rs`, `local_adjust.rs`) | merged limits, the owner's own limits | resolve, adjust | enforcer |
| Usage save guard (`charterd/usage_save_guard.rs`) | per uid: failing since when | record, is_unsaved, retain | usage |
| Pairing (`charter-transport/pairing.rs`, `pair_offer.rs`, `charterd/pair_*.rs`) | token, the child's binding, pinned guardian | offer, accept, commit, re-pair, release | broker, stores |
| Local link (`charter-link`, `charterd/local_link.rs`) | outbox, sessions, queue, inbox, delivery records | handshake, deliver, ack, flush | broker |
| Self-update (`self_update.rs`, `release_check.rs`, `install.rs`) | staged file, attempt record, install result | check, stage, attempt, install | platform |
| Break-glass (`breakglass.rs`, `unlock.rs`, `device_code.rs`) | the open window, the journal of unlocks to report | press, flush | enforcer, relays |
| Status (`status_emit.rs`, `status_seq.rs`) | last reading, its sequence and its file | emit, publish | relays, the app's view |
| Linux run loop and platform (`charterd/runtime.rs`, `focus.rs`, `web_content.rs`, ...) | wiring, lock screen, freezer, console | poll, tick | everything |
| Android warden (`android/jni`, Kotlin) | a second host of the same broker and stores, one lock, three threads | tick, poll round, home link, pair, release | the same |
| Front ends, guardian app, console, site | views | | IPC, wire |

`PROJECT.json` lists each part with its files, and whether it is modelled.

### How the parts interact

* An **ask** goes from a local account through the broker (persisted, then
  published) to the guardian, and comes back as a **grant** that is verified,
  consumed, enacted and acknowledged. A grant may come from a relay, inside a
  poll round, or over the local link, at any time.
* A **clause** is signed by the guardian with a rising `issuedAt`, delivered any
  number of times, verified against the slot's replay floor, and stored. What
  the enforcer does follows from the stored clauses, usage and extensions.
* **Extra minutes** reach a ward's ledger by three doors: an enacted ask (an
  in-memory inbox between the broker's tasks and the run loop), a gift clause,
  and a file an administrator writes at the computer. The run loop takes all
  three on every iteration, and relies on the ledger's list of applied ids to
  make that harmless.
* **Usage** is metered by the run loop against a clock the child may set, saved
  on slow ticks, and pooled with what the guardian says other devices used. The
  decision that follows reaches the ward as a warning, a lock screen and a
  frozen slice.
* A **pairing** is written in several files, by the daemon's listener or by the
  parent's tool, and a **release** takes it back: everything after it is
  refused, the stores are cleared and the daemon is restarted.
* **Readings and reports** go the other way: STATUS, audits, usage and asks, by
  relays that keep everything in no order, and by the home link, whose both ends
  keep bounded stores.
* Handlers run one at a time under the broker's *handler turn*. `submit` and
  `cancel` run on D-Bus threads without it, and share the memory map (under the
  state lock) and the disk (under nothing). On Android one lock covers the tick,
  and a round or a wrap from the link holds it only before and after the broker.

### What is hard

Interleavings of the turn-holding handlers with submit and cancel; state cloned
before an `await` and written back after it; crashes between two durable writes;
writes that are best-effort; deliveries repeated, late and out of order; files
that stop being readable; a clock the ward can set, and a day that skips or
repeats an hour; caps and windows at their edge; a release that races work in
progress; effects that fail (a lock screen that does not start, an install that
reports late); and the promise that every ask is resolved, every lock bites and
every report arrives in the end. `PROJECT.json` lists each hazard at its line,
with the properties for it.

### What makes each part correct

* Broker: authority is spent at most once and only as decided; a published ask
  survives crashes until it is resolved; a resolved ask stays resolved; what is
  shown as enacted was enacted, and what is shown as denied or expired was not;
  after a release nothing happens; caps hold; everything ends.
* Clause stores: never an older clause than one already enforced; the guardian's
  newest clause can always land; acknowledgements are true.
* Extension ledger: a grant extends once, today, and never past the day's end.
* Usage: minutes are counted once, days roll over once, a clock set back gives
  nothing away, a disk that fails to save costs the ward, not the record.
* Schedule and time left: what is open is what the clause says minute by minute,
  what is announced is true, a ward out of time is locked at once, a grant buys
  its minutes.
* Enforcer: a decision is what the machine shows, in the end and whatever fails;
  the console always comes back.
* Stand-down: pinned to its clause, with one grace, lifted by nothing else.
* Pairing: one token, one guardian; no rule of a released guardian stays.
* Local link: what is told delivered was stored; records only advance;
  everything leaves.
* Self-update: two keys agree, one attempt in a window, an update lands.
* Break-glass: an unlock is in the guardian's history, once, whatever fails.
* Android warden: a released guardian decides nothing more, and nothing that
  fails to read opens the phone.

## The modules

| Module | What it is |
|---|---|
| `ClauseSlot` | One slot of the clause store with its sidecar, and the handler that fills it |
| `ClauseSlotProofs` | Its invariants, and of the clause that updates the daemon the invariant of `SelfUpdate`, proved |
| `GrantAuthority` | What the broker promises, with no records, disks, threads or crashes |
| `Broker` | The request broker and its environment; implements `GrantAuthority` |
| `BrokerProofs` | Its invariants, action properties and the refinement, proved |
| `ExtensionLedger` | The operators of the ledger of extra minutes: roll, reconcile, credit, deduct, burn |
| `ExtraTime` | The three doors by which minutes reach that ledger, and the run loop that takes, burns and saves them |
| `ExtraTimeProofs` | What those operators do to any ledger, and what the loop makes of it, over days, restarts and moved timezones, proved |
| `UsageLedger` | The operators of the ledger of used time: roll, restore, pull back, credit, the caps' readings |
| `Metering` | The run loop that charges, saves and restores that ledger, and the guard that pauses the budget while saves fail |
| `MeteringProofs` | Its invariants and the action property, proved |
| `Schedule` | Both evaluators of a schedule clause, their countdowns, and a clock that runs through them |
| `TimeLeft` | What a child is told they have left and when they are locked: caps, pools, named times, grants, stand-down |
| `Enforcement` | What the loop does with a decision: freezer, lock screen, VT hold, console repair |
| `Pairing` | Token, listener, tool, commit, settings and release of a computer |
| `LocalLink` | A ward's outbox, a carrier's stores, and the sessions between |
| `LocalLinkProofs` | Its invariant and what follows from it, proved |
| `FoldProofs` | Lemmas about finite folds and least numbers, for the proofs that meet a loop, a countdown or a greatest of a set |
| `SelfUpdate` | The guarded update of the daemon and its install helper |
| `StatusFeed` | A device's readings, from the throttle to what the guardian's app shows |
| `BreakGlass` | The report of an emergency unlock, from the press to the Activity line |
| `Warden` | The Android host: tick, poll round and home link around one lock |
| `Device` | `Schedule`, `TimeLeft` and `Pairing`, of which a behaviour is about one, with what is assumed of their scenes |
| `DeviceProofs` | The invariants of `TimeLeft` and `Pairing` and what follows from them, and that what `Schedule` announces is so, proved |
| `Messages` | `StatusFeed`, `BreakGlass` and `Warden`, the same way |
| `DeviceLive` | `Enforcement` and `SelfUpdate`, the same way, with their fairness |
| `MessagesProofs` | The invariants of all three and what follows from them, proved |
| `MCClauseSlot`, `MCBroker`, `MCExtraTime`, `MCMetering`, `MCLocalLink`, `MCDevice`, `MCMessages`, `MCDeviceLive` | Instances for TLC: symmetry sets, scenes and small constants |

`Device`, `Messages` and `DeviceLive` are not compositions: their parts share no
state in the code at this level of detail. `part` says which of the CONSTANT `Parts` a behaviour is
about; the variables of the others keep one of their initial values, so the run
is the union of the parts' own state spaces. Set `Parts` to one of them to check
it alone.

Several modules have a `Scenes` or `Bounds` constant: who takes part in a
behaviour and how many faults it may see, chosen at Init and never changed.
A scene keeps what cannot meet apart, where one large bound would multiply it.

Operators whose comment begins with *Mutation* are not part of a model: each is
a definition the way a plausible bug would have it, kept to show that a property
would notice (`PROJECT.json` "mutants").

### ClauseSlot

`record` is `<kind>.json` (absent, torn, or a stamp and a body) and `sidecar` is
`floor-<kind>`. `FloorOf`, `Admits` and `NeedsBackfill` are `floor_of` and
`ReplayFloor::admits`. A delivery is `Receive` (floor read under the store lock,
event verified after it), then `PutFloor` and `PutRecord` (the two atomic writes
of `put_rec`) or `PutRefused`. `Crash` may come between any two, `WriteFails`
ends a put at either write, `TearRecord` and `TearSidecar` make a file
unreadable. `Issue` is the guardian's `nextIssuedAt`: never backwards, though
two phones holding the key can tie. `SlotKind = "sync"` is the usage-sync slot:
the same store, another handler.

Slots share nothing but locks, so one slot is the store. Events that do not
authenticate change nothing and are left out.

### Broker

`mem` is `State.requests`, `disk` the `PendingStore`. `submit[r]` is the program
counter of one `submit_as` call: caps checked and stamped, persisted, inserted,
published. `CancelMark` and `CancelPersist` are the two halves of `cancel`.
`turn` is the handler turn with the handler's own clone of the record:
`RelayGrant`/`LocalGrant` (routing, verifying and consuming), `GrantPersist`,
`EnactSucceeds`/`EnactRetries`/`EnactFails`, `OutcomePersist`, `GrantFinish`
(the live re-check, write-back and prune). `PollSweep` and `PollEnd` bracket a
poll round; a relay grant needs a round, a local one does not. `Settle` is what
every terminal transition ends in: the prune of memory and disk. `Crash` loses
what is in memory; `Boot` is `Broker::new`, with the M9 repair, the sweep and
the prune. Every persist but the submit's own may be lost (`lost` counts them).

Abstracted: why a grant is rejected (`RejectGrant` keeps what a rejected grant
still does), the grant's own expiry, the platform effect of an enact, audits and
notifications. `spent` is the consumed-id store, with the decision as history;
`resolved` is a history variable. Records are never unreadable here, and the
directory listing at boot never fails.

### ExtensionLedger and ExtraTime

`ExtensionLedger` is `extension.rs` as operators on a ledger record: `Rolled`,
`Reconciled`, `Credit` (`grant_schedule`, `grant_budget`, ... all of which share
one list of applied ids), `Deduct`, `Burned`, `Extra`. Time is in units, `DayLen`
to a day; a timezone is an offset. One bucket and one named time stand for the
maps of named pools. The budget floor is only "set or not" here; `TimeLeft` has
the usage it is measured from.

`ExtraTime` drives it. `led` is the enforcing ledger of the one child (`None`
while untracked), `disk` the saved one, `inbox` the pending extensions,
`gift` the gift slot, `adjust` the adjustment file, `asking` a grant between
the broker's consume and its enact. `Iterate` is one iteration of the run loop,
its phases in their order: `Synced` (drop or rebuild the child), `Drained`,
`Gifted`, `Adjusted`, `Ticked` (reconcile, then burn), and the save when one is
due. It is one step because each phase reads one shared variable once: a write
that falls between two phases is as good as one before or after, and a crash
inside an iteration is one before its save. `Skip` is an iteration that stops
early. `Crash` keeps the clause, the consumed ids, the file and `disk`.

Which pool minutes are routed to, which pools a closed window burns, and what
part of the elapsed time it charges are free choices: they come from the
schedules and the usage ledger. `credits` (inside the ledger), `givenAt`,
`burnt`, `unsaved` and `lost` are history. The copy of the ledger that
`EnforcerRuntime` keeps for its readout is left out.

### UsageLedger and Metering

`UsageLedger` is `usage.rs` on a ledger value: two meters (day and week) with a
key, a count and a chain of what untrusted rolls set aside. `Rolled` is
`roll_over_if_needed` with its three moves (a later key, a restore, a pull-back
by a trusted clock), `Push` is `push_pre_roll` with its cap. `secs` stands for
every day-keyed counter, which the code rolls together.

`Metering` is the loop around it: `Iterate` charges an iteration, saves on slow
ticks (`SlowEvery`) and feeds `UsageSaveGuard` (`guard`: failing since, tripped);
`Restart` loads `disk`. The clock may be set forward and back, become trusted
(NTP) and stop being so; the clause may change zone and week start. `due`,
`loose`, `stretch` and `steady` are history; `due` is kept for each meter, what
its latest real day, or week, was charged. `MeterIsRight` says that the meter
holds what was used, on the day it was used, as far as its keys allow. The
exceptions in it are real: a meter first created or re-anchored while the clock
was ahead (until it is `sound`) does not get a forward trip's time back; a clock
set back before midnight charges yesterday's key. One more tick is charged after
the first save that fails for want of space, and `LossIsBounded` counts it.

### Schedule and TimeLeft

`Schedule` has `evaluate_grant_schedule` and `evaluate_times` as operators on a
clause, a zone with one change of offset, and an instant, with their windows,
openings and countdowns. `HoursAreRight` compares both with a reference that
walks minute by minute through days that skip or repeat some. Excepted from the
countdowns is a clause with a window that starts or ends in what is skipped or
repeated, or that is exactly what is skipped (`Undisturbed`): `local_wall_ts` maps
both ends of it to the instant of the jump, at which an opening is announced that
never comes. The classic countdown uses the first window that
covers the minute, so that overlapping windows announce an early close. Parsing
HH:MM and dates is left out.

`TimeLeft` is one iteration of the enforcing loop for a child: pooled use, caps
with their floors (`multi_child.rs`), named times and their pools
(`times_routing.rs`), the stand-down and the pin of its grace (`standdown.rs`),
lock and the two warnings (`enforcer.rs`). A day is a label per minute; `todo`
is what may still arrive: grants, gifts of hours, take-backs, views of another
device, orders, clauses, restarts, and a clock set back. A later grant of the same
day keeps the first baseline, and may be swallowed: an exception of
`MinutesAreBoughtAndTold`. So are the four locks that come without a warning in the
code: what was given lapses at midnight; hours given for a closed window, and a
pool's minutes, are announced as if no boundary of the schedule cut them short (and
an iteration in which a window closes, seconds in the code and a minute here, costs
one of the hours besides); a pool's minutes are announced as if the apps of the
window it runs in were known; and minutes taken back from a window are not taken
from what a named time in it announces (`decide` and `run_named` look at the span
alone; `apply_stand_down` mends the same for a stand-down). The history `told`
follows the two trackers: the times layer's warning stands a minute longer than the
core's (the hysteresis of `observe`, `Slack`).

### Enforcement

`want` is the decision per child, `slice` its `app.slice`, `glass` what the
foreground VT shows, `card` the lock screen's process, `held` the hold on VT
switching, `heal` the repair of a console left on a dead session. `DoTick` is
one pass over both: spawn, replace or take down the card, freeze and thaw,
`heal` (press, restart the display manager, give up). Sessions begin, end and
change places; spawning, freezing and restarting may fail; the daemon may die
and be paused. Not promised, because the code does not: the glass after the
repair was given up, or when the card could not be spawned or a pause or a death
takes it down (the repair is not armed then); a child whose limits are removed
while frozen stays frozen until a pause or a restart.

### Pairing

Every file a commit touches is a variable (`bound`, `pin`, `token`, `store`),
and `commit[a]` the program counter of `commit_pin` for the listener and the
tool: read what was there, bind, pin or roll back, clear, spend, restart.
`daemon` is what it runs as since its boot, with the release floor it read;
`settings` is `charter-settings` between its read and its write. A crash may
fall between any two. `OneGuardianRules` says that pin, binding and rules agree.
What it excepts (`torn`, `leftover`, `kept`) are real races: a crash between
bind and pin in a re-pair; two commits that cross; the settings tool's
read-modify-write over a new binding; a failed spend, which leaves the pairing
written but the daemon not restarted; a crash between pin and spend, which
leaves the token alive; a failed `clear_for`, which leaves rules enforced; a
daemon not yet restarted, which carries out the old guardian's release.

### LocalLink

`outbox`, `wstaged`, `wdisk` are the ward's side; `mem`, `staged`, `disk` the
carrier's four stores (queue, delivery, inbox, seen), each with one writer and
one staged snapshot as in `store.rs`, and `saving`, `flushing`, `console`,
`orphans` the flushes under way, in their order. Two addresses give two
sessions to one ward; a new session at an address replaces the old one. Frames
are in order within a session and lost with it. Either process may crash, and a
write may fail. What `CarrierKeepsItsWord` excepts is history: `early` (a
duplicate answered before the first copy was written), `unlanded` (a failed
write, or a crash before the queue's), `evicted`. Held by the code, and so by the model: a
wrap goes to the newest session only; after a crash between the queue file and
the delivery file a record may stay at sent or queued; aged entries stay until
the next prune; the seen file is flushed before the inbox file.

Left out: the handshake's proofs, rates and session caps, the seen and delivery
caps with their age limit, byte bounds, several wards, the console's events.

### SelfUpdate

`round` is the updater's place (each stretch between two awaits is an action),
`rec` `attempts.json`, `staged` the updates directory, `check` the release
check's fetch, `helpers` and `result` the install helper and its file.
`UpdatesAreMeasured` says that two keys named what runs, an attempt is recorded
before it is made, and a version is attempted once in a window. A clause that
goes A, B, A drops the record, and a record that could not be saved forgets
(`renewed`): there the comment "At most one attempt per versionCode" is not so.
Helpers share one result file.

### StatusFeed

The device's side is the throttle (`should_emit_status`), `StatusSeq` with its
file, and the publish; the app's side is `deviceStatusAdmit.ts` over what the
relays hold. `platform` is Linux or Android, which throttle by what was emitted
and by what a relay took. `TheNewestIsShown` excepts a sequence file that
failed or was lost together with a clock moved back (`Broken`), and readings
that tie in the arrival order after an upgrade. `ClockNoteIsTrue` says when a
reading carries the note that the clock was set back, and how long it stays. A
second small step back lowers the threshold, so that the note clears early; the
first reading of a session is not flagged. Several children on one machine, the
paused path and `lastSeenAt` are left out.

### BreakGlass

`spool` is `pending-audits.json`, `round` one flush of it; `offered`, `arrived`,
`inbox` the home link; the rest is the app: its read window (`cursor`,
`sweptAt`), intake (`handled`, `seen`), the state, its copy as of the last
effect, and storage, and `queue`, which lets the carrier forget. `UnlockIsLoud`
is the ward's half: a journaled press is spooled until a relay took it, and
reported again after a day. `UnlockIsShown`: a report in reach of a completed
read is an Activity line, one, and what the carrier forgot is stored. A report
that reaches the relays when almost a day old can fall out of the floor of the
read window (24 h) before the next sweep: `ShownInTime` claims only what was
within it. Left out: the unlock window (one file), two presses in one second,
overlapping reads, clock skew between the two (what `CURSOR_OVERLAP_SECS` is
for), the removal of a device.

### Warden

`record`, `rules`, `mirror` are on disk; `pin`, `blind`, `inbox`, `locked`,
`latch` are the `Warden`; `baselineOn` and `phone` are Kotlin's memory and the
phone's restrictions, which outlive the process. The tick is one of four
actions: `TickFree` (no charter), `TickHeld` (rules that do not read),
`TickEnforced`, and none while the pairing does not read. A poll round is
`RoundStarts` (or `RoundReleases`, the deferred release it finds first),
`RoundEnters`, `RoundHandles`, `RoundEnds`, and a wrap of the home link the
same: the broker they hold works without the lock, while `Pair`, `UpdateRelays`
and a release replace or mark it (`is`). `Restart` loads what reads;
`RestartReleasing` finishes a release.

A broker honours what its guardian signed once (`Broker` says so); of clauses
only the last rules matter; the verdict of a tick is open (`Schedule`,
`TimeLeft`). After a restart whose first read of the rules fails, the hold opens
the lock, since the enforcer and the latch are in memory (`sighted`). Left out:
what a tick charges and warns of, the readouts, the maintenance account, the
boot watch, installs, the outbox, the wire, and the machine key's degraded mode.

## Runs

| Run | Shows |
|---|---|
| `ClauseSlot` | A slot under crashes, failed writes, unreadable files and replays: never rolled back (`NoRollback`), the floor covers what landed and never locks the newest clause out (`FloorIsRight`), acknowledgements are true (`AnswersAreTrue`); once faults stop, the newest clause lands (`NewestLands`) |
| `Broker` | Safety of two requests, with two crashes and a lost write: effects are consumed allows, once, and what is shown agrees (`EffectsAreRight`); what was published is durable; resolved once; nothing after a release; and the refinement of `GrantAuthority` |
| `BrokerLive` | Every published ask is resolved and the turn comes back; the history and submit caps hold (`CapsHold`), with two requests against caps of one |
| `ExtraTime` | In one timezone, a gift and two adjustments land once each, and no more is enjoyed than was given or forgotten, over a midnight, a crash, a failed save and a child that comes and goes |
| `ExtraTimeAsks` | Granted asks: what is drained is credited and what is saved survives a restart (`GrantsAreKept`), every enacted ask reaches the ledger unless a crash empties the inbox |
| `ExtraTimeZones` | No minutes of a past day come back when the timezone moves |
| `Metering` | The meter counts what was used and recovers from a wrong clock, and announces the key its next roll leaves (`MeterIsRight`); what a restart gives back is bounded (`RestartLosesLittle`); only a later day refills |
| `LocalLink` | What the carrier answers and reports is so (`CarrierKeepsItsWord`), delivery records only advance, everything offered or held leaves in the end |
| `Device` | Hours against the minute-by-minute reference; locks neither early nor late (`LockedInTime`); the stand-down; pairing and release (`OneGuardianRules`); a grant buys its minutes and a lock is announced |
| `DeviceLive` | Locks bite, lift and say why; a dead console comes back; updates are measured, and land |
| `Messages` | A device is never silent, the newest reading is shown, the clock note is true; an emergency unlock is reported and shown, once; on Android a released guardian decides nothing, and no failed read opens the phone |
| `TimeLeftPooledGrant` | *violation*: a grant to a ward overdrawn on another device buys nothing |

### Bounds, and why they are enough

* Stamps, bodies: three stamps give older, equal and newer around any held
  clause; two bodies make a tie between different clauses possible. Three
  faults are a crash in a put, a record that then goes bad, and one more.
* Requests: the handler works on one request at a time, and requests meet only
  in the prune and in the caps. Two make one the victim of the other's prune,
  and one too many for a cap of one (`BrokerLive`). Requests are symmetric where
  no liveness is checked.
* Clock: `MaxNow = 2` with a TTL of 1 has an ask born at 0 or 1 expire inside
  the run. `SubmitCheck` refuses to start an ask that could not expire before
  the clock's bound, so that the bound never keeps a promise from being due.
* Crashes and lost writes: two and one. A crash before and after one outcome
  is the longest story the boot repair knows; the proofs have no such bound.
* `MaxAttempts = 2` (3 in the code) has a first, a repeated and a last attempt.
* Extra minutes: a day of two units, so that both "later today" and "tomorrow"
  are near; `MaxTime = 2` and `3` pass one midnight, `MaxTime = 5` of
  `ExtraTimeZones` lets a moved timezone be followed by a whole day. A charge is
  at most one unit (`MaxCharge`), like the code's clamp on an iteration; each id
  carries one unit, so that a pool is emptied by one burn. `SlowEvery = 2` has
  iterations that save and that do not. One crash, one timezone edit, one failed
  save. `Setups` says whether the child's config is bound and the child managed.
  The passing runs leave out three things, each because the code does break the
  property there (see below): `ExtraTime` has one timezone and no asks beside
  the gift, and the asks' run has no child that is bound but not managed.
* Metering: weeks of two days and `MaxDay = 3`, so that both meters roll and roll
  again; `ChainCap = 2`, so that the chain merges. Three shapes of behaviour
  (`MCBounds`): a clock that wanders within a day, one that wanders over days,
  and a disk that fails for six iterations against a `Grace` of one.
* Local link: caps of one, so that every insertion may evict; one wrap over two
  addresses, two over one (apart, or one replacing the other), one with two
  faults, two that share a queue.
* Schedule: days of four minutes and weeks of two, so that the same weekday
  comes round inside the probe; every pair of windows on one of them, one to two
  a day, an override of a date with none or two, days that skip one minute (a whole window
  among them) or two, or repeat two; every instant up to 8.
* Time left: days of four minutes, five to seven minutes a behaviour, so that a
  midnight is passed; caps of one to three, grants of one or two; each scene is
  a set of events that may arrive at any minute, each once. A clock set back is
  among them beside a stand-down, and beside minutes given for a closed window,
  which it lets the child enter twice.
  Hours, a pool's minutes and a grant also arrive alone beside each kind of
  boundary they may be spent across (`GivenLate`).
* Pairing: two guardians, one token, two commits, and up to two faults; a token
  lives for the tick it was minted in, which is enough to expire, and enough for
  a release to be older than a pairing.
* Enforcement: two children, which is one in front and one behind; two ticks
  without a greeter before a restart of the display manager, two restarts before
  the repair is given up; two faults.
* Self-update: two versions and two hashes; a clause that goes there and back,
  one taken back, one whose hash differs, a version announced twice; two or
  three faults.
* Status: three readings, four passes, moves by one heartbeat either way, two
  mishaps: the shortest story of a lost file and a clock that moved back.
* Break-glass: a unit is a quarter of a day (`Rebuild` and `Floor` are four);
  one press that waits a day for a relay, two at once, both routes at once, and
  an app that comes back after seven units.
* Warden: two guardians and two pairings, so that one follows another; one
  change of relays, one mishap.

### Fairness, and why the code justifies it

* `Broker` — `Tick`: time passes. `PollSweep`, `PollEnd`: `runtime.rs` polls in
  a loop. The handler's own steps: a handler that holds the turn runs on; the
  enact loop has a budget, so that one of its three outcomes happens is fair as
  one. `Boot`: the service manager restarts a stopped daemon.
* `ClauseSlot`: a put runs on (weak), and each signed clause keeps being
  delivered (strong: the relay's look-back window is read again at every poll,
  but the handler may be busy with another clause each time it is tried).
* `ExtraTime`: an iteration that finds the child set up (the loop never stops, is
  not paused for ever, and the child is managed again and again: nothing else
  could be promised to one who is not) and `Boot`, both weakly fair.
* `LocalLink`: weak fairness on `TaskStep`, the disjunction of what the tasks of
  either end do unasked (pumps, readers, flushers, reconnects, ageing): the
  runtime runs some task while one is ready. That is less than fairness of each.
* `Enforcement`: `DoTick` (the loop ticks) and `Start` (the service manager).
* `SelfUpdate`: the loop hands in the clause (`SetClause`), an attempt's window
  ends (`Lapse`), the updater comes round (`RoundStep`), and an install that was
  started ends, for each version: systemd runs it outside the daemon.
* No fairness is given to submits, cancels, grants, sessions, faults or crashes.

## Proofs

`ClauseSlotProofs` proves `ReplayInv` inductive: besides the types, that the
sidecar covers what has landed, that a record is never behind it, that a put in
flight is at or above both, and that nothing above the newest issued clause is
anywhere. From it: `NeverRolledBack`, `SidecarAlwaysCovers` and, for clause
slots, `NewestNeverLockedOut` (together `FloorAlwaysRight`); for all stamps,
bodies and fault counts. What the guardian is told needs one more:
`VerifiedIsAdmitted`, that a clause verified outside the store's lock is still
above both files when its put reads them again, whatever has gone bad between.
So a put refuses only a floor it cannot read (`RefusalIsFailure`), no newest
clause is called superseded, and `AnswersAlwaysTrue` follows, for clause slots;
`SidecarNeverFalls` is for both kinds.

The second part of `ClauseSlotProofs` is about `SelfUpdate`, as `DeviceLive` runs
it: `UpdatesAreMeasuredHolds`, for any clauses, announcements, numbers of faults and
installs under way. The updater holds a record it read before several awaits and
writes it back after them; meanwhile the daemon may restart, an install may end and
the release check may stage another file. The invariant (`UpdateInv`) says why that
loses nothing:

* `RoundInv`: while a round is under way the record on disk is of the round's own
  version, or there is none, because a round starts by dropping any other; from the
  attempt on, the round holds a record that counts it. So what a note or a failed
  attempt writes over is of the same version.
* `KeptInv`: a version attempted in this window is that of the record, and its
  window is open (`due` is off). Hence a round that finds it due cannot start, and no
  second attempt follows (`OnlyAttempts`).
* `StagedInv`: whatever is staged was announced, whoever staged it, and what an
  install takes is of a version both keys named. If it is not the file the clause
  names, two files of that version were announced (`AptUpdates`, `Twice`), which is the
  property's exception and the trace of `OnlyTheAgreedFileRuns` below.

`BrokerProofs` builds its invariant in layers, each proved inductive with the
help of those below it, one step per action:

1. `TypeInv`: the types, which all else needs.
2. `AuthorityInv`: effects follow from a consumed allow, and the handler's
   program counter says whether the effect has happened. It gives `AtMostOnce`
   and `OnlyIfAllowed`.
3. `FreshInv`: an ask not yet inserted has left no trace. With it a submit
   cannot overwrite a resolved record: `ResolvedStays`.
4. `TurnInv`: a record whose grant is in flight is Pending or Cancelled in
   memory, or pruned; nothing else can have touched it. It gives
   `SweepSparesInFlight` and `ReleasedIsInert`.
5. `OutcomeInv`: a record that says Enacted, in memory or on disk, was
   enacted. It gives `ShownEnactedWasEnacted`; `PendingStays` follows the same
   way.
6. `DurableInv`: what is in memory and unresolved is on disk. It gives
   `PublishedStaysDurable`.
7. `LedgerInv`: with no lost write, disk and memory agree on every outcome as
   far as the handlers have got. It gives `UnansweredHasNoEffect`.
8. `HistoryInv`: however a prune picks its victims, what it leaves is within the
   cap (`SettleBounds`), and a marked cancel waits no more, so that each record
   above the cap is the record of a cancel of its own. With the count that
   `SubmitCheck` takes under the lock it stamps under, it gives `CapsAlwaysHold`.

`EffectsAlwaysRight` and `ResolvedOnceOnly` put them together as the runs state
them. `ImplementsAuthority` maps every step to an ask, a decision, an effect or a
stutter. Each layer was checked by TLC as an invariant before it was proved.

`ExtraTimeProofs` begins with sums over a finite set (`SumFacts`): the sum is
the number of units laid out one by one, and a count knows no order. Then come
the operators of `ExtensionLedger` alone. A ledger is *sound* when it
has its types and no pool is burned beyond what it holds; every operator keeps
it so, for any length of the day and any amounts. On that rest
`CreditLandsOnce` (the applied list, within one day), `CreditAddsItsMinutes` and
`ReKeyingRevivesNothing` (what the roll in `reconcile` is for). They say what the
run loop may rely on; the rest is about whether its doors respect the
one condition, the same day (and see the stale drain below).

That rest takes whole iterations apart, for any length of the day, any
timezones, ids, amounts, setups and bounds. An iteration folds the inbox and the
adjustment file into a ledger. The folds (`Drained`, `Adjusted`, `Pruned`) are
recursive functions, so that the provers can expand them; the lemmas `Least`,
`FoldExists` and `FoldReaches` of `FoldProofs` say, by the least index that would refute it, that
what each step of a fold keeps holds at its end. Three invariants are carried
through the phases of an iteration on that:

* `DayInv`: everything under way (an ask in a handler or in the inbox, an entry
  of the file, the gift in the slot) carries an instant its id was not given
  before, and every applied id was given within `Days(tzEdits + 1)` of any instant
  of its ledger's day. What makes it inductive is that a ledger not yet re-keyed
  to the clause's timezone has one of those days in hand, which the re-key uses.
  Within an iteration a weaker `Mid` holds: a drain at its own instant may have
  rolled the ledger back to a day the tick will drop. It gives `OnlyTodaysTime`.
* `OnceInv`: each id was credited at most once, and one that is not applied any
  more was given on a day before the ledger's; the ledger is not behind the saved
  one. It is kept from every state in which `Prompt` holds: no timezone has moved,
  and no ask waits in the inbox over midnight. Without that premise it is false
  (the stale drain and the moved timezone below), so the premise says exactly how
  far "the ledger's id keeps it to one application" goes. The run `ExtraTime`, one
  timezone and no asks, meets it in every state. It gives `OnceGivenOnceCredited`
  and, for setups in which a bound child is tracked, `GrantsStay`.
* `SpentInv`: what was burned in a ledger's lineage, with what is left in its
  burnable pools, is no more than what the ids it was credited with are worth.
  For the enforcing ledger what was forgotten is taken off, for the saved one also
  what it does not show yet; with no saved ledger, all that was burned is one or
  the other. It rests on `OnceInv`: an id whose minutes are added was not counted
  before. It gives `SpentWithinGivenHolds`, under `Prompt`.

`LocalLinkProofs` follows a wrap through the carrier's stores, for any wraps,
addresses, caps, scenes and numbers of faults. What makes the answers hard is
that a flush writes the newest state of its file, whoever staged it, so that
the file may hold more or (after a consume) less than the state its caller
meant. Three parts are inductive together with the types:

* *Types*, of which one is not shape: a staged snapshot is the newest state of
  its store.
* *The inbox*: what its file holds is in memory, consumed or evicted; what
  memory holds is on file, staged, or known to have been lost; and while
  something is staged, the last wrap in is one the seen list knows. A reader
  about to answer has the inbox's flush ahead of it, or its wrap is stored
  already. The third clause is needed for the reader whose append left the inbox
  as it was (a cap of one), and which therefore flushes nothing of it.
* *The records*: every OK and ACK on its way is true, every record in memory and
  on disk is, and a queue that is not on its file is staged or known lost.

`KeepsItsWord` and `RecordsAdvance` follow; the second from the types alone, one
step per caller of `set_delivery`. `Without`, `SelectSeq` in the code's terms, is
a recursive function here; its lemmas are proved by the least length and the
least index that would refute them, from the well-foundedness of the naturals,
which stands in for the induction theorems.

`MessagesProofs` is three proofs in one module, since the parts of a `Messages`
run share no state. The first numbers the readings of the STATUS feed in the order they were emitted. Every
one of them that still exists anywhere (in flight, at a relay, at the app) bears
its number; while no clock was moved back, `ts` rises with the number; unless
the counter was lost with a clock moved back (`Broken`), `seq` does, because the
counter in memory and in its file stays ahead of every reading (`SeqAhead`). A
second layer says what the app's merge leaves: what it shows is the newest taken
in, a note of a clock step is never false, and the silence since the last
emission is at most what the clock has lost unseen. From them `NewestIsShown`,
`NoteIsTrue` and `DeviceSpeaks`. The proof corrected the model once: a clock set
behind the last reading and forward again between two passes is a loss the
throttle cannot see, and `lag` now counts it.

`MeteringProofs` follows a ledger through every clock a child may set, for any
length of the week, cap of the chains, clauses, cadence, grace and bounds. The
two meters of a ledger obey the same rules, so what is hard is proved of one
meter with any real key and any bound, and used for both:

* `Right` ties a meter to its history. A key behind the real one was charged
  nothing of the real day; a key that is the real one holds it all; a key ahead
  of it holds it together with what its chain gives back, and the chain reaches
  back far enough (its first entry is not later than the real key) for a trusted
  clock to restore. `RollKeepsRight`, `ChargeKeepsRight` and `LaterIsRight` keep
  it over a roll, a charge and a midnight. The hard case is a push onto a full
  chain: merging the two newest entries under the later key must give back no
  less, which is false of the two oldest (the mutant of the run).
* `MeterInv`: both meters, in memory and on disk, are right, a trusted clock is
  the real one, and what is due is loose or saved.
* `SteadyInv`: since the clock was put right the day's key is at most a day ahead
  of where it was, or not ahead at all. Two midnights on, the roll has zeroed the
  count, and from then it is exact.
* `LossInv`: how much may be loose for each way the saves have gone, and for how
  far the guard is from its grace.

They give `MeterAlwaysRight` (with `AnnouncedIs`: `current_day_key`, which decides
for itself what a roll would do, agrees with the roll) and `LossAlwaysBounded`;
`NothingElseRefills` follows from the types and `MeterInv`, one case per way a roll
moves a meter. What a chain gives back is a recursive function (`Restorable`); its
lemmas are proved on its partial sums. The proof corrected the model once: the
history took both meters for sound together, which a week of four days refutes
in TLC.

The second part of `MessagesProofs` follows the brokers that work on the stores outside the host's
lock, for any guardians, pairings, relay changes and mishaps. What a handler
stores is its broker's guardian's, whoever the phone is paired to by then; so the
invariant says of either thread that a broker in service, or replaced, is of the
guardian in force until a release leaves a replaced one at work (`outlived`), and
that one a release stopped is in no handler (`OfTheGuardian`: why `mark_released`
waits). With it go that the pairing in memory is the one on disk, or none while
that does not read (`PinIsRecord`), and that without a ward in memory every store
still there is one a release could not clear (`NothingWithoutAWard`: what the
next pairing finds). They give `OnlyOneDecides`. `SightInv`, that a phone whose
rules were once read is locked or known to have had a charter, gives
`NothingUnreadOpens`.

The third follows a press of an emergency unlock from the journal to the
Activity. Both halves of its path store what they have seen and act on it later,
so both invariants are about copies that are behind:

* `WardInv`, on the phone: a press has one entry at most, which bears its own
  report (`JournalInv`); what a round that began earlier has sent is at a relay,
  so that it strikes out no press that is not (`RoundInv`); and what the home link
  was offered of a press is what its entry bears, or was built more than a day
  before that (`OfferedInv`). `PressIsLoud` follows.
* `AppInv`, at the guardian's: a sweep that completed has shown what the relays
  held when it began, as far back as it read (`SweepInv`, `ReadInv`); what was
  handled is a line on the screen or so old that nothing reads it again
  (`HandledShown`); and the carrier keeps it, or holds a place in the queue that
  waits for its line to be stored, or a relay has it (`HandledKept`, `QueueInv`).
  `ReportIsShown` follows. That a handled report is not taken for new again rests
  on `Floor \in 0 .. Jitter` (`WINDOW_FLOOR_SECS` is a day, the jitter of a wrap
  two).

`DeviceProofs` does the same for the parts of `Device`. *Pairing*: the listener
and the tool commit over the same files with nothing between them, so no file
says by itself who rules. `AloneIsAlone` says it of a commit: one that nobody
disturbed since it read the binding knows that the binding is its own and that
what it would roll back to is right; a disturbed one leaves the pairing `torn`
if it ends between its writes. With `ReadIsCurrent` that makes `BoundIsRight`
inductive: bound, outside a commit, is the pin's subject, or nobody's rules.
`TokenInv` (a token that pinned is spent, or about to be, unless a crash kept it)
and `FloorHolds` (a release the daemon carries out is no older than the pairing
it found) give the other half of `OneGuardianRulesHolds`. The proof
corrected the model once: a roll-back onto a binding that another commit had
written in between counted as sound in the history.

*Time*: `StandDownHolds` and `LockedInTimeHolds`, for any length of the day, caps,
named times, scenes, and any order of what arrives. An iteration is taken apart
once: `BudgetIs` and `ScheduleIs` say what a limit of zero means, `BreakdownIs`
that a lock has the cause it names, `ResolvedIs` what the times layer may say to
it. Four invariants, each between two accounts, make of that what a child sees:

* `TimeTypes`: besides the types, that the minutes used are of the day, and the
  pools' numbers are bounded (the latest topped-up pool exists).
* `SightInv` with `OrderTypes`: an order whose first sight was pinned has the pin
  on disk with that very instant, and a pin of the standing order on disk was
  seen then. So the countdown, which reads the pin, is over when the sight is a
  grace ago and not before, across restarts and a clock set back
  (`StandDownHolds`); a first sight whose pin was lost is not pinned, and counts
  anew.
* `ViewInv`: the view of the other device is never ahead of that device. So the
  union of the journals and the sum under-count (`PooledBehind`), and a budget
  lock is never early. The premise the code states only as "absent/stale views".
* `PaidInv`: the minutes begun outside the windows today, with the hours and the
  pools' minutes still to come, are no more than were given. A pool's minutes are
  the numbered ones of a finite set, so that a top-up adds as many elements as it
  says and a charge takes one away, and no sum over the pools is needed.

*Warnings*: `MinutesAreBoughtAndToldHolds`, the one theorem about two readings of
the same accounts a minute apart. What was shown as left is `left_of` the
verdict; whether a lock follows is `decide` over the next minute's windows,
allowance and grace. So the lemmas follow each part through a minute: `SpanIs` and
`TagNext` (a label goes on until its span is over), `WindowsLast` (the window's
minutes fall by one, unless a boundary or the midnight comes between),
`AllowanceLasts` (the allowance falls by one at most, for a union of journals too,
since a minute adds one slot at most: `MinuteMore`), `WarningLasts` (the grace). `VerdictSays` and
`LeftIs` say what each verdict of `decide` stands for. The invariant is `WarnInv`:

* `OpenInv`: an unlocked minute that does not show zero or one minute left has
  something to run on in the next: the core's windows, allowance and grace (`CoreRuns`), a
  named time of one's own (`OwnRuns`), or a pool (`PoolRuns`). `CoreRunsOn`,
  `OwnRunsOn` and `PoolRunsOn` then show that the next minute is not locked, each
  under the exceptions the property states.
* `OneInv`: each of the two latches, the core's and the tracker's, stands for a
  warning the child has been given. A latch set for another verdict would swallow
  the next one.
* `SpentLock` and `BaseInv`: a budget that locks is spent, and a day whose first
  grant has not come has been given nothing. With them the floor a first grant
  notes is the debt it has to clear (`GrantBuys`).

The proofs of a child's time corrected the model four times. The exceptions of
`LockIsForewarned` named too few of the ways a minute is announced that is not there
(hours for a closed window, minutes cut from one, the apps of a pool's window), and
the history of a warning ended at the warning itself, where the tracker holds it for
"a minute of hysteresis" above (`observe`). The history of the minutes
outside counted a minute when it ended; after a clock set back, a free minute was charged
as one outside (TLC shows it, now that a clock set back is among the events of
the windows' scenes). The history of a stand-down's sight was dropped whenever the
order lapsed, and a clock set back into the order found the pin but no sight. And
two guards of `decide`'s CASE overlapped for a schedule that does not read, which
TLC resolves by the order they are written in and a prover may not.

*Hours*: `HoursAreRightHolds`, for any clause, timezone, tags and length of a day
and a week. Nothing changes but the clock, so its invariant (`HoursInv`) is no more
than that; the work is in comparing two ways to read the same windows. The
evaluators look at boundaries only, day by day, and turn them into instants; the
reference asks at every instant. Both meet on the wall, a line of minutes across
the days:

* `OnWall` is the label of a wall minute. It changes at edges only (`WallGoesOn`,
  also past a midnight, since a window ends on its day and a day so ends closed), so
  that between two minutes of different labels there is an edge that brings the
  second (`WallEdge`).
* `Inst` is `local_wall_ts` of a wall minute. An edge that is not disturbed is past
  at an instant if and only if its own is (`EdgePast`), has its label there and the
  minute before it its own before (`AtInst`, `AtBefore`): this is where a window
  that is exactly what is skipped fails. An instant whose label is another than at an
  earlier one is at or after an edge that brings it (`AtEdge`), the wall's jump back
  included.
* The first instant to have a label is therefore that of the first edge to bring it
  (`FirstEdge`), which is what every countdown picks: `NextOpen` among all
  boundaries, `NextStart` among starts (`StartsAre`), `SpanEndMinute` among today's,
  `NextWindow` among today's and tomorrow's (`BeginsEdge`, `NextsBegin`).

`TagsNarrow` needs of the labels only that a runnable one is not closed (`LabelIs`),
and `AskIs` that a span's last minute and its first are those of its boundaries
(`EndedIs`, `ComingIs`). The proof corrected the property: `Undisturbed` had not
excepted the window that is exactly what is skipped, which no instance of the run
contained; one does now.

Assumptions: `None` is no guardian, no rules, no pairing and no thread of the host
(`NoneIsNothing` of `Messages`, `NoneIsNoPairing` of `Device`), no number, name of a
reason, debt or sight of an order (`NamesAssumption`); a zone is at most two days ahead
of the westernmost (the zones of the world span 26 hours), a week starts on one
of its days, `WeekLen`, `MaxDay` and `SlowEvery` are positive, `ChainCap` is at
least two, `Grace` of `Metering` is a natural number; the caps of the link are
natural numbers and the members of a scene come from the constants; `None` is no
wrap, sequence, set or record; the times a clock may be moved to and the bounds
are natural numbers; `DayLen` and each `Amount` are positive; `None` is no number
and no ledger, and no ask has the id of a gift or an adjustment, and no gift that
of an adjustment (the code prefixes those two); `Requests` is finite; the numbers are natural numbers, `TTL`
and `MaxAttempts` positive; `SlotKind` is one of its two values. Of an unlock
(`UnlockAssumption`): the app reads back no further than the jitter of a wrap, a
sweep takes time, and of the bounds one has the most presses. Of a child's time:
grants, cuts and caps are whole minutes and a pool's are of a named time the
device knows (`ScenesAssumption`); no named time is called "closed", "free" or
"unknown" (`NamesAssumption`: the code's labels are variants of an enum); a
stand-down carries some warning, an order's id is its own, and a lift, which has
none, stands at no time (`StandDownAssumption`); the labels of a day are known ones
(`ScenesAssumption`), and the later warning is some minutes before a lock
(`WarningsAssumption`; `enforcer.rs` has ten and one). Of a clause: a weekday each
has its windows, and they start and end at minutes of the day
(`SchedulesAssumption`, `parse_hhmm`); a change of offset is of a day at most and
does not go back before the first day (`ZonesAssumption`). Of an update: versions are
numbers, `None` and `Unknown` are no clause, and finitely many packages are announced
(`UpdatesAssumption` of `DeviceLive`).

Only model-checked: liveness, with the fairness it needs (out of the prover's
reach), which is all of `DeviceLive` but `UpdatesAreMeasured`, and
`EnactedReachesLedger`, `NewestLands`, `EveryAskResolved`, `TurnComesBack` and
`EverythingLeaves` of the others; the caps and the injectivity in `LocalLink`'s
`TypeOK`; and the module `Enforcement` as a whole, whose properties are both of
that kind.

## Where code and documents differ

Each is a sentence of a comment or a document that a property restates and that
the model, written from the code, does not satisfy. None was looked for.

One has a run, `TimeLeftPooledGrant`, and an entry in `PROJECT.json`
"findings". The others below whose property is named are kept in the modules
without a run; to see the trace, add the property to the configuration named,
with the change given (`OutstandingBounded`, `CreditedOnce`, `AnsweredIsOnDisk`,
`OnlyTheAgreedFileRuns` and `NothingOutlivesARelease` as an INVARIANT, the others
as a PROPERTY; `Messages` without its SYMMETRY).

| Property | Configuration | What the trace shows |
|---|---|---|
| `CrashFloorRefusesOlder` | `ClauseSlot` | A floor left by a crash before the first record landed refuses nothing; `put_rec` says it "refuses anything older" |
| `StaleSyncIsHeld` | `ClauseSlot`, `SlotKind = "sync"` | A stale sync is acknowledged as held when it is not |
| `DurableOutcomeStands` | `Broker` | A cancel's late persist overwrites a recorded outcome on disk |
| `OutstandingBounded` | `Broker`, `MaxPending = 1` | Two submits pass the outstanding cap together |
| `CreditedOnce` | `ExtraTime`, `Asks = {a1}`, `Gives` and `Takes` empty, `Ids = {a1, g1}`, `MaxTime = 4`, no crash | A grant of before midnight drained after it rolls the ledger back, and today's gift lands twice |
| `SecondGiftAdds` | `ExtraTime`, `Gifts = {g1, g2}`, `Gives` and `Takes` empty, `Ids = {g1, g2}` | A second gift overwrites one the loop has not read |
| `OnlyASaveLiftsThePause` | `Metering` | A tick that finds no policy for the child drops the guard's record (`runtime.rs:2466`, `usage_saves.retain`), and the pause of a child whose saves fail is lifted without one |
| `AnsweredIsOnDisk` | `LocalLink` | A duplicate is answered before the first copy is on disk (`guardian.rs:1274`), and a crash then loses what the ward has dropped |
| `OnlyTheAgreedFileRuns` | `DeviceLive` (as `U!OnlyTheAgreedFileRuns`) | A version announced twice: the release check replaces the staged file between the updater's comparison and the install |
| `ConsumedIsPersisted` | `Messages` (as `B!ConsumedIsPersisted`) | The carrier forgets a wrap whose line, taken in by the relay route, is not in storage yet |
| `NextReadCovers` | `Messages` (as `B!NextReadCovers`) | A read that could not land a wrap is followed by one whose window begins after it |
| `NothingOutlivesARelease` | `Messages` (as `W!NothingOutlivesARelease`) | `apply_release` stops the broker in service; one that `update_relays` replaced, still in a handler, stores the released guardian's rules after the wipe (`warden.rs:862`, `broker.rs:1340`) |
| `HeldAsItWas` | `Messages` (as `W!HeldAsItWas`) | A tick that cannot read the rules locks again a phone that an emergency unlock had opened; `hold_decision` says "hold the current lock state" |

Met while modelling, seen in a trace, with no property of their own:

* *A grant lands on an ask past its TTL.* `expire_stale_pending` sweeps at the
  top of a poll round only, and the relay path does not sweep again
  (`broker.rs:1374`); its comment says a late grant "cannot land on an ask that
  has already aged out". `PollSweep`, `Tick`, `RelayGrant` is the trace.
* *A failed remove is not retried by the next prune* (`broker.rs:144`): the
  record has left the map the next prune looks at; only a restart sees it again.
* *A gift outlives the ledger's midnight* when the timezone moves after it was
  given (`extension.rs:193`): the applied ids are forgotten, the gift's expiry is
  not reached, and it lands on both days. `ExtraTime` with two timezones and one
  edit violates `CreditedOnce`.
* *Yesterday's adjustment is of today again*: `reconcile` rolls in the old
  timezone and stamps the new day (`extension.rs:174`), in which an adjustment
  made before midnight may fall. The same property, the same configuration with an adjustment.
* *The inbox of a child who is bound but not managed is emptied into nothing*
  (`runtime.rs:2603`): `GrantsAreKept` with `<<TRUE, FALSE>>` among `Setups`.
* *A restart after failed saves gives spent minutes back* (`runtime.rs:834`): the
  save before them may hold a gift unspent, where the comment at 831-833 calls a
  lost save "fail-closed for the ward".

Read in the code beside a module, and not in a model:

* On Android, `baselineApplied` is process memory: a process that dies between a
  release and its first tick leaves the baseline on a released phone
  (`WardenController` 410-417 says "no Kintrinsic restriction at all").
* The use of a whole break-glass window is charged to neither counter, and the
  tick at which it expires credits the open interval to out-of-hours.
* Saved extension and usage ledgers survive a release, so that the former
  guardian's minutes of the day carry over to the next.
* "kill -9 can never lose accrued time" (`persist_ledgers`) does not hold after a
  failed save.

## Plan

1. `ExtraTime` composed with `Broker`'s enact, so that a redo after a crash is
   shown to give the minutes once.
2. `AtomicFile`: the temp-file protocol and two writers on one name, refining
   the atomic write the other modules use.
3. `LocalLink` composed with `ClauseSlot`, so that "applied" implies "held or
   superseded".
4. The bucket layer: app buckets, learning and out-of-hours counters; what a
   tick of the Android warden charges and warns of.
5. `focus.rs` and `exec_guard.rs`: the verdict cache and the reapers' decisions.
6. Consumed-id retention; the relay cursor of the broker.

## Not modelled

Cryptography and parsing (an event either authenticates or changes nothing);
relay and D-Bus I/O beyond loss, repetition and reordering; platform effects
themselves (how a slice is frozen, a firewall rule written, a package
installed); user interfaces; formatting and wording. Large parts of the source
are of this kind: `focus.rs`, `effects.rs`, the web content and inventory rounds
and the front ends are platform calls around small decisions, and most of
`warden.rs` is readouts and the wire between Rust and Kotlin. Device windows,
child policy and local limits are pure functions of a clause, the owner's file
and the clock. Parts planned above are listed as partly or not modelled until
they are.
