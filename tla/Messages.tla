------------------------------ MODULE Messages ------------------------------
(***************************************************************************)
(* What passes between a device and its guardian: the STATUS feed, the     *)
(* report of an emergency unlock, and what the Android host makes of       *)
(* pairings and releases share no state, so a behaviour is about one of    *)
(* Parts, and the state of the others keeps its initial value.             *)
(***************************************************************************)
EXTENDS StatusFeed

CONSTANTS
  Parts,
  Rebuild, Jitter, Floor, Sweep, Overlap, UnlockBounds,   \* BreakGlass's
  Guardians, MaxPairs, MaxRewires, MaxFaults              \* Warden's

\* Some device presses the most; a report is opened for at least as long as the app reads
\* back (MAX_WRAP_JITTER_SECS, WINDOW_FLOOR_SECS).
ASSUME UnlockAssumption ==
  /\ Rebuild \in Nat /\ Jitter \in Nat /\ Floor \in 0 .. Jitter /\ Sweep \in Nat \ {0}
  /\ Overlap \in Nat
  /\ UnlockBounds \subseteq
       [end : Nat, presses : Nat, faults : Nat, front : SUBSET Nat, link : BOOLEAN]
  /\ \E b \in UnlockBounds: \A c \in UnlockBounds: c.presses <= b.presses
  /\ None \notin [press : Nat, date : Nat, build : Nat]

\* None is no guardian, no rules and no thread's state.
ASSUME NoneIsNothing ==
  /\ None \notin Guardians
  /\ None \notin [by : Guardians, charter : BOOLEAN]
  /\ None \notin [stage : {"sent", "start", "out", "in", "done"}, by : Guardians,
                  is : {"serving", "replaced", "released"}]

\* Warden's.
VARIABLES
  record, rules, mirror, readable, pin, blind, granted, shut, latch, baselineOn, phone, polling,
  wrap, releases, leftover, sighted, outlived, pairs, rewires, failed

wardenVars ==
  <<record, rules, mirror, readable, pin, blind, granted, shut, latch, baselineOn, phone, polling,
    wrap, releases, leftover, sighted, outlived, pairs, rewires, failed>>

\* BreakGlass's, but part.
VARIABLES
  part, bounds, now, pressed, journaled, spool, round, faults, relays, offered, arrived,
  inbox, claimed, lines, ref, saved, persistedOk, handled, seen, cursor, sweptAt, queue,
  lastRead, lastBlind, stale

unlockVars ==
  <<bounds, now, pressed, journaled, spool, round, faults, relays, offered, arrived, inbox,
    claimed, lines, ref, saved, persistedOk, handled, seen, cursor, sweptAt, queue, lastRead,
    lastBlind, stale>>

B == INSTANCE BreakGlass WITH Bounds <- UnlockBounds

W == INSTANCE Warden WITH inbox <- granted, locked <- shut, round <- polling,
                          MaxMishaps <- MaxFaults, mishaps <- failed

MessagesInit ==
  /\ part \in Parts
  /\ part # "status" => platform = "linux" /\ sequenced = TRUE
  /\ part # "unlock" => bounds = (CHOOSE b \in UnlockBounds: TRUE) /\ claimed = None
  /\ Init /\ B!Init /\ W!Init

MessagesNext ==
  \/ part = "status" /\ Next /\ UNCHANGED <<part, unlockVars, wardenVars>>
  \/ part = "unlock" /\ B!Next /\ UNCHANGED <<part, vars, wardenVars>>
  \/ part = "warden" /\ W!Next /\ UNCHANGED <<part, vars, unlockVars>>

MessagesSpec == MessagesInit /\ [][MessagesNext]_<<part, vars, unlockVars, wardenVars>>

-----------------------------------------------------------------------------
\* BreakGlass's (breakglass.rs): a press is reported whatever fails, and not every round.
UnlockIsLoud == part = "unlock" => B!UnlockIsLoud

\* BreakGlass's (ingestWrap.ts, relayWindow.ts): a report is in the Activity, once.
UnlockIsShown == part = "unlock" => B!UnlockIsShown

\* Warden's (apply_release, mark_released): a released guardian decides nothing more.
OneGuardianDecides == part = "warden" => W!OneGuardianDecides

\* Warden's (N1, F2, I22): nothing that fails to read lifts a restriction.
FaultsOpenNothing == W!FaultsOpenNothing
=============================================================================
