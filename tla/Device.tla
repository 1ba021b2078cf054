------------------------------- MODULE Device -------------------------------
(***************************************************************************)
(* The parts of a computer that share no state with one another: a         *)
(* behaviour is about one of Parts, and the state of the others keeps its  *)
(* initial value.                                                          *)
(***************************************************************************)
EXTENDS Schedule

CONSTANTS
  Parts,
  \* TimeLeft's
  Grace, Ten, One, NamedTimes, Counts, OnlyThese, TimeScenes,
  \* Pairing's
  Guardians, Ttl, PairHorizon, MaxTokens, MaxCommits, PairScenes

ASSUME NoneIsNoPairing == None \notin [g : Guardians, s : Nat, at : Nat]

\* No label of a minute that is not a named time is the name of one, and None is no number,
\* no reason to lock, no debt and no sight of an order.
Orders(s) == {e \in s.events: e.do = "order"}
ASSUME NamesAssumption ==
  /\ NamedTimes \cap {"closed", "free", "unknown"} = {}
  /\ None \notin Int /\ None \notin {"standdown", "schedule", "budget"}
  /\ None \notin [day : Nat, week : Nat]
  /\ None \notin [id : {e.id : e \in UNION {Orders(s) : s \in TimeScenes}}, at : Nat,
                   kept : BOOLEAN]

\* Minutes are given and taken in whole ones, and a cap is a number of them.
Caps == [is : {"none", "revoked", "paused", "unread", "plain"}, day : Nat \cup {None},
         week : Nat \cup {None}]
ASSUME ScenesAssumption ==
  \A s \in TimeScenes:
    /\ s.cap \in Caps /\ s.sched \in {"none", "paused", "unreadable", "set"}
    /\ s.label \in [0 .. DayLen - 1 -> NamedTimes \cup {"closed", "free", "unknown"}]
    /\ s.inventory \in BOOLEAN
    /\ \A e \in s.events:
         /\ e.do \in {"give", "take", "cut", "hours", "pool"} => e.n \in Nat
         /\ e.do = "pool" => e.id \in NamedTimes
         /\ e.do = "view" => e.journal \in BOOLEAN
         /\ e.do = "cap" => e.to \in Caps

\* Two warnings, of which the later one is some minutes before a lock (enforcer.rs).
ASSUME WarningsAssumption == Ten \in Nat /\ One \in Nat \ {0}

\* A stand-down carries some warning (StandDownBody::grace_secs) and an id no other one has
\* had; a lift has none, and so stands at no time (StandDownBody::stands).
ASSUME StandDownAssumption ==
  /\ Grace \in Nat \ {0}
  /\ \A s \in TimeScenes: \A e \in Orders(s):
       /\ e.until \in Nat /\ (e.id = None => e.until = 0)
       /\ \A f \in Orders(s): e.id = f.id /\ e.id # None => e = f

VARIABLES
  part,
  \* TimeLeft's
  setup, todo, time, slow, meter, away, view, ledger, cap, order, gracePin, core, tracker,
  out, seen, told, outside, quiet,
  \* Pairing's
  scene, clock, faults, begun, minted, bound, pin, token, store, offers, releases, daemon,
  commit, settings, torn, leftover, pinnedBy, kept, ended

timeVars == <<setup, todo, time, slow, meter, away, view, ledger, cap, order, gracePin, core,
              tracker, out, seen, told, outside, quiet>>
pairingVars == <<scene, clock, faults, begun, minted, bound, pin, token, store, offers,
                 releases, daemon, commit, settings, torn, leftover, pinnedBy, kept, ended>>

T == INSTANCE TimeLeft WITH Scenes <- TimeScenes

P == INSTANCE Pairing WITH Scenes <- PairScenes, Horizon <- PairHorizon

-----------------------------------------------------------------------------
\* The part a behaviour is not about is as it is at first.
Some(S) == CHOOSE x \in S: TRUE

DeviceInit ==
  /\ part \in Parts
  /\ part # "schedule" => sched = Some(Schedules) /\ zone = Some(Zones)
  /\ part # "time" => setup = Some(TimeScenes)
  /\ part # "pairing" => scene = Some(PairScenes)
  /\ Init /\ T!Init /\ P!Init

DeviceNext ==
  \/ part = "schedule" /\ Next /\ UNCHANGED <<part, timeVars, pairingVars>>
  \/ part = "time" /\ T!Next /\ UNCHANGED <<part, vars, pairingVars>>
  \/ part = "pairing" /\ P!Next /\ UNCHANGED <<part, vars, timeVars>>

DeviceSpec == DeviceInit /\ [][DeviceNext]_<<part, vars, timeVars, pairingVars>>

-----------------------------------------------------------------------------
\* The properties of the parts.

\* Schedule's (times.rs, schedule_eval.rs): every instant and name shown is the right one,
\* and a named time only takes from what may run.
HoursAreRight == part = "schedule" => WhatIsShownIsTrue /\ TagsOnlyNarrow

\* TimeLeft's (enforcer.rs, times_routing.rs, budget.rs): no lock too early or too late.
LockedInTime == part = "time" => T!LockedInTime

\* TimeLeft's (standdown.rs): a stand-down bites after its grace, whatever happens.
StandDownBites == part = "time" => T!StandDownBites

\* TimeLeft's (multi_child.rs, WarnTracker): given minutes are bought, the last announced.
MinutesAreBoughtAndTold == T!MinutesAreBoughtAndTold

\* TimeLeft's, of a child with another device (multi_child.rs apply_extension).
GrantBuysItsMinutesAnywhere == T!GrantBuysItsMinutesAnywhere

\* Pairing's (pair_commit.rs, pair_token.rs, broker.rs): the rules in force are the pinned
\* guardian's, and a token and a release act once.
OneGuardianRules == part = "pairing" => P!RulesFollowThePin /\ P!NothingActsTwice
=============================================================================
