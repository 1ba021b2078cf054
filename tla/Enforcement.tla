------------------------------ MODULE Enforcement ------------------------------
(***************************************************************************)
(* What the Linux run loop does with its decisions: the freeze of each     *)
(* child's processes, the lock screen in front of the child in the         *)
(* foreground, the hold on VT switching while it is up, and the repair of  *)
(* a console left on a session that died under that hold                   *)
(* (charterd/runtime.rs).                                                  *)
(*                                                                         *)
(* A decision is a level: whether the child is locked, and whether by a    *)
(* stand-down.  Freezing, spawning the lock screen and restarting the      *)
(* display manager may fail.  Sessions begin, end and change places at any *)
(* time; the daemon may die, and an administrator may pause it.            *)
(***************************************************************************)
EXTENDS Integers, FiniteSets

CONSTANTS
  Children,     \* the managed children
  GiveUpTicks,  \* VT_HEAL_GIVE_UP_TICKS
  MaxRestarts,  \* VT_HEAL_MAX_DM_RESTARTS
  MaxFaults     \* bound on failed effects, deaths of the daemon, pauses and
                \* changes of the set of tracked children

VARIABLES
  want,     \* the decision on each child: open, or locked by a limit or a stand-down
  tracked,  \* the children with a policy
  slice,    \* each child's app.slice: absent, running or frozen
  glass,    \* what the foreground VT shows: a child's session, the greeter, or
            \* the VT of a session that died
  greeter,  \* whether a greeter's X server is up
  held,     \* VT switching is disabled
  card,     \* LockState.proc with proc_stood_down, or NoCard
  heal,     \* LockState: vt_heal_pending, vt_heal_misses, vt_dm_restarts, and as
            \* history whether the last repair was given up
  running,  \* the daemon runs
  paused,   \* the administrator's pause flag
  mishaps

vars == <<want, tracked, slice, glass, greeter, held, card, heal, running, paused, mishaps>>

Decisions == {"open", "limit", "down"}
NoCard == <<>>
Cards == [uid : Children, stoodDown : BOOLEAN, alive : BOOLEAN]
Healthy == [pending |-> FALSE, misses |-> 0, restarts |-> 0, conceded |-> FALSE]

Init ==
  /\ want \in [Children -> {"open", "limit"}]
  /\ tracked = Children
  /\ slice = [c \in Children |-> "absent"]
  /\ glass = "greeter" /\ greeter = TRUE /\ held = FALSE
  /\ card = NoCard /\ heal = Healthy
  /\ running = TRUE /\ paused = FALSE /\ mishaps = 0

-----------------------------------------------------------------------------
(* The world: decisions, sessions, the display manager, the administrator. *)

Fault == mishaps < MaxFaults /\ mishaps' = mishaps + 1

\* Time passes, a clause or a grant arrives: the decision on a child changes.
Decide(c, d) ==
  /\ d # want[c]
  /\ want' = [want EXCEPT ![c] = d]
  /\ UNCHANGED <<tracked, slice, glass, greeter, held, card, heal,
                 running, paused, mishaps>>

LogIn(c) ==
  /\ glass = "greeter" /\ slice[c] = "absent"
  /\ slice' = [slice EXCEPT ![c] = "running"]
  /\ glass' = c /\ greeter' = FALSE
  /\ UNCHANGED <<want, tracked, held, card, heal, running, paused, mishaps>>

\* A session ends.  The display manager starts a greeter, which can claim a VT
\* only while switching is enabled.
LogOut(c) ==
  /\ slice[c] # "absent"
  /\ slice' = [slice EXCEPT ![c] = "absent"]
  /\ greeter' \in {greeter, TRUE}
  /\ glass' = IF glass # c THEN glass
              ELSE IF greeter' /\ ~held THEN "greeter" ELSE "dead"
  /\ IF card # NoCard THEN card' = [card EXCEPT !.alive = @ /\ glass # c] ELSE UNCHANGED card
  /\ UNCHANGED <<want, tracked, held, heal, running, paused, mishaps>>

\* The display manager's greeter comes up late.
GreeterStarts ==
  /\ glass = "dead" /\ ~greeter
  /\ greeter' = TRUE
  /\ glass' = IF held THEN "dead" ELSE "greeter"
  /\ UNCHANGED <<want, tracked, slice, held, card, heal, running, paused, mishaps>>

\* Another session comes to the foreground.
SwitchTo(g) ==
  /\ ~held /\ g # glass
  /\ IF g = "greeter" THEN greeter' = TRUE
     ELSE slice[g] # "absent" /\ UNCHANGED greeter
  /\ glass # "dead"
  /\ glass' = g
  /\ UNCHANGED <<want, tracked, slice, held, card, heal, running,
                 paused, mishaps>>

\* The lock screen's process dies.
CardDies ==
  /\ card # NoCard /\ card.alive /\ Fault
  /\ card' = [card EXCEPT !.alive = FALSE]
  /\ UNCHANGED <<want, tracked, slice, glass, greeter, held, heal,
                 running, paused>>

\* A child's limits are removed, or come back.
Retrack(c) ==
  /\ Fault
  /\ tracked' = IF c \in tracked THEN tracked \ {c} ELSE tracked \cup {c}
  /\ UNCHANGED <<want, slice, glass, greeter, held, card, heal,
                 running, paused>>

Pause ==
  /\ paused' = ~paused
  /\ paused' => mishaps < MaxFaults
  /\ mishaps' = IF paused' THEN mishaps + 1 ELSE mishaps
  /\ UNCHANGED <<want, tracked, slice, glass, greeter, held, card, heal,
                 running>>

\* thaw_all: every slice thaws, the lock screen goes, VT switching comes back.
ThawAll ==
  /\ slice' = [c \in Children |-> IF slice[c] = "frozen" THEN "running" ELSE slice[c]]
  /\ card' = NoCard
  /\ held' = FALSE

\* The daemon dies; its unit's ExecStopPost thaws what it left frozen.
Die ==
  /\ running /\ Fault
  /\ running' = FALSE
  /\ ThawAll /\ heal' = Healthy
  /\ UNCHANGED <<want, tracked, glass, greeter, paused>>

\* It starts again, and thaws once more before it enforces.
Start ==
  /\ ~running
  /\ running' = TRUE
  /\ ThawAll
  /\ UNCHANGED <<want, tracked, glass, greeter, heal, paused, mishaps>>

-----------------------------------------------------------------------------
(* One iteration of the loop: apply_child_decisions. *)

Locked(c) == want[c] # "open"

\* Mutation: the freeze follows the edge, which a failed attempt consumes.
ReconciledOnEdge(c, fails) ==
  CASE slice[c] = "absent" -> "absent"
    [] slice[c] # "absent" /\ Locked(c) /\ ~fails ->
         IF card # NoCard /\ card.uid = c THEN slice[c] ELSE "frozen"
    [] slice[c] # "absent" /\ ~Locked(c) /\ ~fails -> "running"
    [] OTHER -> slice[c]

\* reconcile_freeze, on the level and only for a slice that exists.
Reconciled(c, fails) ==
  CASE slice[c] = "absent" -> "absent"
    [] slice[c] # "absent" /\ fails -> slice[c]
    [] slice[c] # "absent" /\ ~fails -> IF Locked(c) THEN "frozen" ELSE "running"

\* The active session's user, if it is a tracked child that is locked.
Behind == {c \in tracked : glass = c /\ Locked(c)}

StoodDown(c) == want[c] = "down"

\* Mutation: a running card is left alone whatever it shows.
CardIsCurrentByUid(c) == card # NoCard /\ card.alive /\ card.uid = c

\* running_lock_is_current, and the process still runs.
CardIsCurrent(c) ==
  card # NoCard /\ card.alive /\ card.uid = c /\ card.stoodDown = StoodDown(c)

\* Somebody locked is in front: the right card is up, or another is spawned in
\* its place, and VT switching is held either way.
DriveLock(c, spawnFails) ==
  /\ card' = IF CardIsCurrent(c) THEN card
             ELSE IF spawnFails THEN NoCard
             ELSE [uid |-> c, stoodDown |-> StoodDown(c), alive |-> TRUE]
  /\ held' = TRUE
  /\ UNCHANGED <<glass, greeter, heal>>

\* The X servers heal_stranded_vt finds.
LiveGlass == {c \in Children : slice[c] # "absent"} \cup (IF greeter THEN {"greeter"} ELSE {})

\* Mutation: a restart that goes on failing is tried without end.
HealStaysArmedUncapped(ok, restarts) == ~ok

\* heal_stays_armed: a failed restart is tried again, up to the cap.
HealStaysArmed(ok, restarts) == ~ok /\ restarts < MaxRestarts

\* heal_stranded_vt and what follows its answer.  h is the heal state with any
\* card just taken down.
HealStep(h, restartOk) ==
  IF ~h.pending THEN heal' = h /\ UNCHANGED <<glass, greeter>>
  ELSE IF LiveGlass # {}
  THEN /\ heal' = [h EXCEPT !.pending = FALSE, !.misses = 0]
       /\ glass' \in IF glass = "dead" THEN LiveGlass ELSE {glass}
       /\ UNCHANGED greeter
  ELSE IF h.misses + 1 < GiveUpTicks
  THEN heal' = [h EXCEPT !.misses = @ + 1] /\ UNCHANGED <<glass, greeter>>
  ELSE /\ heal' = IF HealStaysArmed(restartOk, h.restarts + 1)
                  THEN [h EXCEPT !.misses = 0, !.restarts = @ + 1]
                  ELSE [Healthy EXCEPT !.conceded = ~restartOk /\ h.restarts + 1 = MaxRestarts]
       /\ greeter' = restartOk
       /\ glass' = IF restartOk THEN "greeter" ELSE glass

\* Mutation: a card that comes down arms no repair.
CardDownQuietly == heal

\* A card that comes down arms the repair, from the start.
CardDown == IF card # NoCard THEN [Healthy EXCEPT !.pending = TRUE] ELSE heal

\* Mutation: VT switching is given back only with a card to take down.
LiftLockWithCard(restartOk) ==
  /\ card' = NoCard
  /\ held' = (held /\ card = NoCard)
  /\ HealStep(CardDown, restartOk)

\* Nobody locked is in front: the card goes, VT switching comes back first, and
\* a console left on a dead VT is repaired.
LiftLock(restartOk) ==
  /\ card' = NoCard
  /\ held' = FALSE
  /\ HealStep(CardDown, restartOk)

\* One iteration.  fails: the children whose freeze or thaw fails.
Tick(fails, spawnFails, restartOk) ==
  /\ running /\ ~paused
  /\ (fails # {} \/ spawnFails) => mishaps < MaxFaults
  /\ mishaps' = IF fails # {} \/ spawnFails THEN mishaps + 1 ELSE mishaps
  /\ slice' = [c \in Children |-> IF c \in tracked THEN Reconciled(c, c \in fails) ELSE slice[c]]
  /\ IF Behind # {} THEN \E c \in Behind : DriveLock(c, spawnFails)
     ELSE LiftLock(restartOk)
  /\ UNCHANGED <<want, tracked, running, paused>>

\* An iteration under the administrator's pause.
TickPaused ==
  /\ running /\ paused
  /\ ThawAll
  /\ UNCHANGED <<want, tracked, glass, greeter, heal, running, paused, mishaps>>

DoTick == \/ \E fails \in SUBSET Children, spawnFails \in BOOLEAN, restartOk \in BOOLEAN :
               Tick(fails, spawnFails, restartOk)
          \/ TickPaused

Next ==
  \/ \E c \in Children, d \in Decisions : Decide(c, d)
  \/ \E c \in Children : LogIn(c) \/ LogOut(c) \/ Retrack(c) \/ SwitchTo(c)
  \/ SwitchTo("greeter") \/ GreeterStarts \/ CardDies \/ Pause \/ Die \/ Start
  \/ DoTick

\* The loop sleeps a bounded time and every call in it is bounded: it goes on.
\* systemd restarts the daemon (Restart=on-failure).
Fairness == WF_vars(DoTick) /\ WF_vars(Start)

Spec == Init /\ [][Next]_vars /\ Fairness

--------------------------------------------------------------------------------
(* Properties. *)

\* The types of the variables, and what no step may come to: a card, a hold or
\* a repair while the daemon is down, or a foreground that shows no session.
TypeOK ==
  /\ want \in [Children -> Decisions] /\ tracked \subseteq Children
  /\ slice \in [Children -> {"absent", "running", "frozen"}]
  /\ glass \in Children \cup {"greeter", "dead"}
  /\ glass \in Children => slice[glass] # "absent"
  /\ glass = "greeter" => greeter
  /\ greeter \in BOOLEAN /\ held \in BOOLEAN /\ card \in Cards \cup {NoCard}
  /\ heal \in [pending : BOOLEAN, misses : 0 .. GiveUpTicks - 1,
               restarts : 0 .. MaxRestarts - 1, conceded : BOOLEAN]
  /\ running \in BOOLEAN /\ paused \in BOOLEAN /\ mishaps \in 0 .. MaxFaults
  /\ ~running => card = NoCard /\ ~held /\ ~heal.pending

\* A lock bites: a locked child whose processes run, because it was not logged
\* in when it was locked or the freeze failed, is frozen in the end
\* (reconcile_freeze on the level, every tick).
LockBites ==
  \A c \in Children :
    (c \in tracked /\ Locked(c) /\ slice[c] = "running")
      ~> (slice[c] # "running" \/ ~Locked(c) \/ c \notin tracked \/ paused)

\* Nothing stays locked: a tracked child that is open is thawed in the end, and
\* VT switching is held only while somebody locked is in front.
NothingStaysLocked ==
  /\ \A c \in Children :
       (c \in tracked /\ ~Locked(c) /\ slice[c] = "frozen")
         ~> (slice[c] # "frozen" \/ Locked(c) \/ c \notin tracked)
  /\ held ~> (~held \/ Behind # {})

\* A console left on the VT of a session that ended behind the lock screen comes
\* back to a live one, or the repair is given up after its last restart of the
\* display manager, unless the daemon is paused or dies (vt_heal_pending).
GlassComesBack ==
  (glass = "dead" /\ (heal.pending \/ card # NoCard))
    ~> (glass # "dead" \/ heal.conceded \/ paused \/ ~running)

\* The card in front of a child is the card for its decision: one that offers an
\* ask does not stay up over a stand-down, nor the other way round.
CardFollowsTheDecision ==
  \A c \in Children :
    (Behind = {c} /\ card # NoCard /\ card.stoodDown # StoodDown(c))
      ~> (Behind # {c} \/ card = NoCard \/ card.stoodDown = StoodDown(c) \/ paused)

\* A lock is in force while it is decided and no longer, and the card in front says why.
LocksBiteAndLift == LockBites /\ NothingStaysLocked /\ CardFollowsTheDecision
=================================================================================
