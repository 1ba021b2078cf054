------------------------------- MODULE ExtraTime -------------------------------
(***************************************************************************)
(* How minutes somebody gave a child reach the ledger that unlocks the     *)
(* device, and stay there.  There are three doors:                         *)
(*                                                                         *)
(*   - an ask the guardian granted: the broker's enactor pushes it onto an *)
(*     in-memory inbox, with the instant its handler began;                *)
(*   - a gift: one clause slot per child, re-read on every iteration;      *)
(*   - an adjustment an administrator typed at the computer: a file of     *)
(*     entries, re-read on every iteration.                                *)
(*                                                                         *)
(* The enforcement loop of charterd (linux/crates/charterd/src/runtime.rs) *)
(* takes all three into the child's ExtensionLedger, burns what a closed   *)
(* window spends, and saves the ledger on its slow cadence.  The broker    *)
(* runs on tasks of its own, so an enact interleaves with the loop.        *)
(*                                                                         *)
(* One child.  An iteration of the loop is one step: each phase of it      *)
(* reads one shared variable once, so a write that falls between two       *)
(* phases has the effect of one before or after the iteration, and a crash *)
(* inside an iteration that of a crash before its save.                    *)
(***************************************************************************)
EXTENDS ExtensionLedger, FiniteSets, SequencesExt

CONSTANTS
    Asks, Gifts, Gives, Takes,  \* the ids of each door; Takes are adjustments
                                \* that take minutes back
    None,           \* no ledger, no record, no instant
    SlowEvery,      \* every SlowEvery-th iteration is a slow one
    MaxCharge,      \* the most one iteration may charge
    Setups,         \* the pairs <<bound, tracked>> an iteration may find
    Routes,         \* bound: the pools minutes are routed to
    MaxTime, MaxCrashes, MaxSaveFailures, MaxTzEdits

ASSUME IdsAssumption == Ids = Asks \union Gifts \union Gives \union Takes
\* An id names its door (the code prefixes a gift's "gift:", an entry's "local:").
ASSUME AsksAssumption == Asks \intersect (Gifts \union Gives \union Takes) = {}
ASSUME GiftsAssumption == Gifts \intersect (Gives \union Takes) = {}
ASSUME SlowAssumption == SlowEvery \in Nat \ {0} /\ MaxCharge \in Nat
ASSUME SetupsAssumption == Setups \subseteq BOOLEAN \X BOOLEAN
ASSUME NoneAssumption == None \notin Nat /\ None \notin Ledger
ASSUME RoutesAssumption == Routes \subseteq Pools
ASSUME BoundsAssumption ==
    /\ MaxTime \in Nat
    /\ MaxCrashes \in Nat
    /\ MaxSaveFailures \in Nat
    /\ MaxTzEdits \in Nat

VARIABLES
    now,            \* the wall clock
    clauseTz,       \* the timezone of the policy in force
    asking,         \* the granted ask being enacted: [id, at], or None
    consumed,       \* the asks whose id is burned (durable)
    inbox,          \* the enacted asks the loop has not drained
    gift,           \* the gift clause in the child's slot: [id, exp], or None
    adjust,         \* the adjustment file: a sequence of [id, at]
    up,             \* the daemon is running
    led,            \* the enforcing ledger, None while the child is untracked
    disk,           \* the saved ledger
    iter,           \* the iteration counter, modulo SlowEvery
    savedThisRun,   \* this run has reached a save
    last,           \* when the previous iteration observed the clock
    crashes, failures, tzEdits,
    givenAt,        \* history: when each id was given
    burnt,          \* history: all the pool time the child has enjoyed
    unsaved,        \* history: the part of it the saved ledger does not show
    lost            \* history: the part a crash or an eviction forgot

guardian == <<clauseTz, gift, tzEdits>>
broker == <<asking, consumed>>
loop == <<led, iter, savedThisRun, last, failures, burnt>>
vars == <<now, guardian, broker, inbox, adjust, up, loop, disk, crashes,
          givenAt, unsaved, lost>>

Init ==
    /\ now = 0
    /\ clauseTz \in Tzs
    /\ asking = None
    /\ consumed = {}
    /\ inbox = <<>>
    /\ gift = None
    /\ adjust = <<>>
    /\ up = TRUE
    /\ led = None
    /\ disk = None
    /\ iter = 0
    /\ savedThisRun = FALSE
    /\ last = None
    /\ crashes = 0
    /\ failures = 0
    /\ tzEdits = 0
    /\ givenAt = [i \in Ids |-> None]
    /\ burnt = 0
    /\ unsaved = 0
    /\ lost = 0

--------------------------------------------------------------------------------
(* The world and the three doors. *)

Advance ==
    /\ now < MaxTime
    /\ now' = now + 1
    /\ UNCHANGED <<guardian, broker, inbox, adjust, up, loop, disk, crashes,
                   givenAt, unsaved, lost>>

\* The guardian edits the timezone of the schedule.
EditTz(tz) ==
    /\ tz # clauseTz
    /\ tzEdits < MaxTzEdits
    /\ clauseTz' = tz
    /\ tzEdits' = tzEdits + 1
    /\ UNCHANGED <<now, gift, broker, inbox, adjust, up, loop, disk, crashes,
                   givenAt, unsaved, lost>>

\* The broker's handler takes the grant of an ask: it reads the clock, and the
\* id is burned on disk.  One handler runs at a time.
GrantBegin(id) ==
    /\ up
    /\ asking = None
    /\ id \notin consumed
    /\ consumed' = consumed \union {id}
    /\ asking' = [id |-> id, at |-> now]
    /\ givenAt' = [givenAt EXCEPT ![id] = now]
    /\ UNCHANGED <<now, guardian, inbox, adjust, up, loop, disk, crashes,
                   unsaved, lost>>

\* The enactor hands the grant to the loop, stamped with the handler's instant.
GrantEnact(pool) ==
    /\ up
    /\ asking # None
    /\ inbox' = Append(inbox, [id |-> asking.id, at |-> asking.at, pool |-> pool])
    /\ asking' = None
    /\ UNCHANGED <<now, guardian, consumed, adjust, up, loop, disk, crashes,
                   givenAt, unsaved, lost>>

\* A gift clause lands in the slot, over the one that was there.  It dies at
\* the end of the day in the timezone the guardian knows the child to be in.
GuardianGives(id) ==
    /\ up
    /\ givenAt[id] = None
    /\ gift' = [id |-> id, exp |-> EndOfDay(clauseTz, now)]
    /\ givenAt' = [givenAt EXCEPT ![id] = now]
    /\ UNCHANGED <<now, clauseTz, tzEdits, broker, inbox, adjust, up, loop, disk,
                   crashes, unsaved, lost>>

\* What an append keeps of the file: the entries of the last two days.  (This
\* and the folds below are functions, which the proofs can expand.)
Pruned(entries) ==
    LET kept[i \in 0..Len(entries)] ==
            IF i = 0 THEN <<>>
            ELSE IF now - entries[i].at < 2 * DayLen
                 THEN Append(kept[i - 1], entries[i]) ELSE kept[i - 1]
    IN kept[Len(entries)]

\* charter-time appends an entry and prunes those older than two days.  It is
\* a process of its own: the daemon need not be running.
AdminAdjusts(id) ==
    /\ givenAt[id] = None
    /\ adjust' = Append(Pruned(adjust), [id |-> id, at |-> now])
    /\ givenAt' = [givenAt EXCEPT ![id] = now]
    /\ UNCHANGED <<now, guardian, broker, inbox, up, loop, disk, crashes,
                   unsaved, lost>>

--------------------------------------------------------------------------------
(* The enforcement loop: the phases of one iteration, in their order. *)

\* Mutants: a restored ledger has nothing spent; nothing is restored.
RestoredUnspent ==
    IF disk = None THEN NewLedger(clauseTz, now)
    ELSE [disk EXCEPT !.spent = [p \in Burnable |-> 0]]
RestoredEmpty == NewLedger(clauseTz, now)

\* A saved ledger is restored as it was saved; a child with none starts empty.
Restored == IF disk = None THEN NewLedger(clauseTz, now) ELSE disk

\* sync: drop the child who is no longer managed, rebuild the one who is back.
Synced(tracked) ==
    IF ~tracked THEN None ELSE IF led = None THEN Restored ELSE led

\* Mutant: the drain knows no typed grants.
DrainedUntyped(l) ==
    FoldLeft(LAMBDA acc, p : IF p.pool = "time" THEN acc
                             ELSE Credit(acc, p.at, p.id, p.pool), l, inbox)

\* 1b: the inbox, in its order, each grant at its own instant.
Drained(l) ==
    LET acc[i \in 0..Len(inbox)] ==
            IF i = 0 THEN l
            ELSE Credit(acc[i - 1], inbox[i].at, inbox[i].id, inbox[i].pool)
    IN acc[Len(inbox)]

\* 1c: the gift in the slot, unless it has died.
Gifted(l, pool) ==
    IF gift = None THEN l
    ELSE IF gift.exp <= now THEN l ELSE Credit(l, now, gift.id, pool)

\* Mutant: the whole file is replayed, whatever its day.
AdjustedAnyDay(l, dims) ==
    FoldLeft(LAMBDA acc, e :
                 IF e.id \in Takes THEN Deduct(acc, now, e.id, dims[e.id])
                 ELSE Credit(acc, now, e.id, dims[e.id]),
             l, adjust)

\* 1d: the entries made on the ledger's current day.
AdjustedBy(l, e, dims) ==
    IF ~SameDay(l, e.at, now) THEN l
    ELSE IF e.id \in Takes THEN Deduct(l, now, e.id, dims[e.id])
    ELSE Credit(l, now, e.id, dims[e.id])
Adjusted(l, dims) ==
    LET acc[i \in 0..Len(adjust)] ==
            IF i = 0 THEN l ELSE AdjustedBy(acc[i - 1], adjust[i], dims)
    IN acc[Len(adjust)]

\* 2: the enforcing tick re-keys the ledger, then burns the pools in use.
Ticked(l, burning, elapsed) ==
    LET r == Reconciled(l, clauseTz, now)
        s == IF elapsed > 0 /\ "schedule" \in burning
             THEN Burned(r, now, "schedule", elapsed) ELSE r
    IN IF "time" \in burning THEN Burned(s, now, "time", elapsed) ELSE s

\* The child's ledger before the burn.
Taken(l, bound, pool, dims) ==
    LET drained == IF bound THEN Drained(l) ELSE l
        gifted == IF bound THEN Gifted(drained, pool) ELSE drained
    IN Adjusted(gifted, dims)

\* What an iteration may charge: awake time since the last one, clamped; the
\* first charges nothing.
Chargeable == IF last = None THEN 0 ELSE Lesser(now - last, MaxCharge)

\* 4: saved on a slow iteration, and on the first that gets this far.
SaveDue == iter = 0 \/ ~savedThisRun

\* What the burning from one ledger to the next took out of the pools; a burn
\* that found the day over rolled them and took nothing.
Enjoyed(from, to) ==
    IF from.day # to.day THEN 0
    ELSE MapThenSumSet(LAMBDA p : to.spent[p] - from.spent[p], Burnable)

(***************************************************************************)
(* One iteration.  bound: a child's config names the brokered subject and  *)
(* its user exists; tracked: the child is managed, so the enforcer holds   *)
(* it.  The inbox is taken whenever the child is bound.  pool and dims are *)
(* where the gift and the adjustments are routed, burning the pools that   *)
(* are what keeps the device open.                                         *)
(***************************************************************************)
Iterate(bound, tracked, pool, dims, burning, elapsed, saved) ==
    LET taken == IF tracked THEN Taken(Synced(TRUE), bound, pool, dims) ELSE None
        ticked == IF tracked THEN Ticked(taken, burning, elapsed) ELSE None
        enjoyed == IF tracked THEN Enjoyed(Ticked(taken, {}, 0), ticked) ELSE 0
        writes == SaveDue /\ tracked
    IN /\ up
       /\ saved \/ (writes /\ failures < MaxSaveFailures)
       /\ led' = ticked
       /\ inbox' = IF bound THEN <<>> ELSE inbox
       /\ iter' = (iter + 1) % SlowEvery
       /\ savedThisRun' = TRUE
       /\ last' = now
       /\ disk' = IF writes /\ saved THEN ticked ELSE disk
       /\ failures' = IF saved THEN failures ELSE failures + 1
       /\ burnt' = burnt + enjoyed
       /\ unsaved' = IF ~tracked \/ (writes /\ saved) THEN 0 ELSE unsaved + enjoyed
       /\ lost' = IF tracked THEN lost ELSE lost + unsaved
       /\ UNCHANGED <<now, guardian, broker, adjust, up, crashes, givenAt>>

IterationFor(setups) ==
    \E setup \in setups, pool \in Routes,
       dims \in [Gives \union Takes -> Dims \intersect Routes],
       burning \in SUBSET Burnable, elapsed \in 0..Chargeable, saved \in BOOLEAN :
        Iterate(setup[1], setup[2], pool, dims, burning, elapsed, saved)

Iteration == IterationFor(Setups)

\* An iteration that is skipped: paused by an administrator, or the user
\* database could not be read.  The time it covers is never charged.
Skip ==
    /\ up
    /\ iter' = (iter + 1) % SlowEvery
    /\ last' = now
    /\ UNCHANGED <<now, guardian, broker, inbox, adjust, up, led, disk,
                   savedThisRun, crashes, failures, givenAt, burnt, unsaved, lost>>

--------------------------------------------------------------------------------
(* Crash and restart: the clause store, the burned ids, the adjustment file *)
(* and the saved ledger are what is left.                                   *)

Crash ==
    /\ up
    /\ crashes < MaxCrashes
    /\ up' = FALSE
    /\ crashes' = crashes + 1
    /\ led' = None
    /\ inbox' = <<>>
    /\ asking' = None
    /\ lost' = lost + unsaved
    /\ unsaved' = 0
    /\ UNCHANGED <<now, guardian, consumed, adjust, iter, savedThisRun, last,
                   failures, burnt, disk, givenAt>>

Boot ==
    /\ ~up
    /\ up' = TRUE
    /\ iter' = 0
    /\ savedThisRun' = FALSE
    /\ last' = None
    /\ UNCHANGED <<now, guardian, broker, inbox, adjust, led, failures, burnt,
                   disk, crashes, givenAt, unsaved, lost>>

Next ==
    \/ Advance
    \/ \E tz \in Tzs : EditTz(tz)
    \/ \E id \in Asks : GrantBegin(id)
    \/ \E pool \in Routes : GrantEnact(pool)
    \/ \E id \in Gifts : GuardianGives(id)
    \/ \E id \in Gives \union Takes : AdminAdjusts(id)
    \/ Iteration
    \/ Skip
    \/ Crash
    \/ Boot

Spec == Init /\ [][Next]_vars

\* The loop never stops, the child is set up again and again, and a daemon that
\* died is started again.
FairSpec == Spec /\ WF_vars(IterationFor({<<TRUE, TRUE>>})) /\ WF_vars(Boot)

--------------------------------------------------------------------------------
(* Properties. *)

\* Minutes given once are applied once, however often the loop re-reads the
\* gift and the adjustment file, over midnights, restarts and evictions
\* (runtime.rs:2654 "the ledger's id keeps it to one application").
CreditedOnce ==
    led # None => \A id \in Ids : led.credits[id] <= 1

\* The time the child enjoys from the pools is never more than what was given,
\* but for what was burned after the last save and then forgotten in a crash
\* or an eviction (restore_extension: a reboot must not refill a gift).
Given == {id \in Ids \ Takes : givenAt[id] # None}
SpentWithinGiven ==
    burnt <= MapThenSumSet(LAMBDA id : Amount[id], Given) + lost

\* Time that is still there to spend was given within the day, or within one
\* more day for each time the clause's timezone moved meanwhile (reconcile:
\* re-keying must not revive yesterday's grant).
YesterdaysTimeIsGone ==
    led # None /\ Day(led.tz, now) = led.day =>
        \A id \in led.applied : now - givenAt[id] < DayLen * (1 + tzEdits)

\* What was saved today is in force today: a restart, or a child dropped and
\* rebuilt, loses no grant that reached the disk (restore_extension).
SavedGrantStands ==
    /\ led # None
    /\ disk # None
    /\ led.tz = disk.tz
    /\ led.day = disk.day
    /\ led.day = Day(led.tz, now)
    => disk.applied \subseteq led.applied

\* A granted ask leaves the inbox only into the child's ledger (runtime.rs:2600
\* "a not-yet-set-up child never loses an extension").
DrainedIsCredited ==
    [][up' /\ inbox # <<>> /\ inbox' = <<>> =>
         led' # None /\ \A i \in DOMAIN inbox : led'.credits[inbox[i].id] >= 1]_vars

\* A second gift adds to the first: the slot gives up a gift that is still
\* alive only once the ledger has it (clause.rs:1080 "a SECOND gift is a new id
\* and therefore genuinely adds again").
SecondGiftAdds ==
    [][gift # None /\ gift' # gift /\ gift.exp > now =>
         led # None /\ led.credits[gift.id] >= 1]_vars

\* A grant is kept from the inbox to the disk and back.
GrantsAreKept == []SavedGrantStands /\ DrainedIsCredited

\* Every enacted ask of a child who is set up again and again is taken into the
\* child's ledger, unless a crash empties the inbox first.
EnactedReachesLedger ==
    \A id \in Asks, c \in 0..MaxCrashes :
        (crashes = c /\ \E i \in DOMAIN inbox : inbox[i].id = id)
            ~> (crashes > c \/ (led # None /\ led.credits[id] >= 1))
================================================================================
