------------------------------ MODULE DeviceLive ------------------------------
(***************************************************************************)
(* The parts of a computer with liveness to check, which share no state    *)
(* with one another: a behaviour is about one of Parts, and the state of   *)
(* the other keeps its initial value.                                      *)
(***************************************************************************)
EXTENDS Integers, FiniteSets

CONSTANTS
  Parts,
  \* Enforcement's
  Children, GiveUpTicks, MaxRestarts, MaxMishaps,
  \* SelfUpdate's
  None, Unknown, Versions, Hashes, UpdateScenes

\* A repair of the console is tried, and the display manager restarted, at least once.
ASSUME GiveUpAssumption == GiveUpTicks \in Nat \ {0} /\ MaxRestarts \in Nat \ {0}

VARIABLES
  part,
  \* Enforcement's
  want, tracked, slice, glass, greeter, held, card, heal, running, paused, mishaps,
  \* SelfUpdate's
  scene, flaws, asked, seen, installed, staged, rec, round, check, helpers, result, tried,
  renewed

lockVars == <<want, tracked, slice, glass, greeter, held, card, heal, running, paused,
              mishaps>>
updateVars == <<scene, flaws, asked, seen, installed, staged, rec, round, check, helpers, result,
                tried, renewed>>

L == INSTANCE Enforcement WITH MaxFaults <- MaxMishaps

U == INSTANCE SelfUpdate WITH Scenes <- UpdateScenes, faults <- flaws

ASSUME UpdatesAssumption == U!ScenesAreSound

LiveInit ==
  /\ part \in Parts
  /\ part # "update" => scene = CHOOSE s \in UpdateScenes: TRUE
  /\ part # "lock" => want = [c \in Children |-> "open"]
  /\ L!Init /\ U!Init

LiveNext ==
  \/ part = "lock" /\ L!Next /\ UNCHANGED <<part, updateVars>>
  \/ part = "update" /\ U!Next /\ UNCHANGED <<part, lockVars>>

\* Fairness of each part's, in behaviours that are about it.
LiveFairness ==
  /\ WF_lockVars(part = "lock" /\ L!DoTick)
  /\ WF_lockVars(part = "lock" /\ L!Start)
  /\ WF_updateVars(part = "update" /\ U!SetClause)
  /\ WF_updateVars(part = "update" /\ U!Lapse)
  /\ WF_updateVars(part = "update" /\ U!RoundStep)
  /\ \A v \in Versions : WF_updateVars(part = "update" /\ U!InstallEnds(v))

LiveSpec ==
  LiveInit /\ [][LiveNext]_<<part, lockVars, updateVars>> /\ LiveFairness

-----------------------------------------------------------------------------
\* The properties of the parts.

\* Enforcement's (runtime.rs): a lock is in force while it is decided and no longer, and the
\* card in front says why.
LocksBiteAndLift == L!LocksBiteAndLift

\* Enforcement's (runtime.rs): a dead console comes back, or its repair is given up.
GlassComesBack == L!GlassComesBack

\* SelfUpdate's (self_update.rs): two keys agree, an attempt is kept, one in a window.
UpdatesAreMeasured == U!UpdatesAreMeasured

\* SelfUpdate's (self_update.rs): an update that can be made is made.
UpdateLands == U!UpdateLands
=============================================================================
