-------------------------------- MODULE SelfUpdate --------------------------------
(* The guardian-triggered update of the Linux daemon (charterd self_update,
   release_check, packaging/setup/install-update): the updater task goes through
   rounds over the stored clause, the release relays and a record on disk; the
   release check stages the newest announced package beside it; the install runs
   outside the daemon and restarts it.

   A round gives way at each await, so each stretch between two awaits is an
   action, and the daemon may die at any of them.  A package is its version and
   its hash.  Addresses, sizes, the wording of errors, signature checks and the
   gates on the clause's form are left out; the six hours between attempts are
   the flag rec.due, and a round is short against them. *)
EXTENDS Integers, FiniteSets, Sequences

CONSTANTS
  None, Unknown,
  Versions, Hashes,
  Scenes          \* [asked: the guardian's clauses in turn; announced; faults]

Packages == [vc : Versions, sha : Hashes]
Records == [vc : Versions, attempts : {0, 1}, error : BOOLEAN, due : BOOLEAN]

\* A version is a number; None and Unknown are no hash, clause or record; a scene is of
\* packages, of which finitely many are announced.
ScenesAreSound ==
  /\ Versions \subseteq Nat
  /\ None \notin Hashes \cup Packages \cup Records /\ Unknown \notin Packages \cup {None}
  /\ \A s \in Scenes :
       /\ s.asked \in Seq(Packages \cup {None})
       /\ s.announced \subseteq Packages /\ IsFiniteSet(s.announced)

VARIABLES
  scene,
  faults,
  asked,         \* how many of the scene's clauses the guardian has published
  seen,          \* the clause the enforcement loop handed the updater, or Unknown
  installed,     \* the running version
  staged,        \* per version, the hash of its file in the updates directory
  rec,           \* attempts.json: [vc, attempts, error, due], or None
  round,         \* [at, clause, pkg, rec]: the updater's place, its clause, the
                 \* announced package, its record
  check,         \* the package the release check is fetching, or None
  helpers,       \* running install helpers: [vc, apt]
  result,        \* install-result: [vc, ok], or None
  tried,         \* history: the versions attempted since the last window ended
  renewed        \* history: versions whose record a change of clause dropped, or
                 \* that could not be saved

daemon == <<seen, round, check>>
vars == <<scene, faults, asked, daemon, installed, staged, rec, helpers, result, tried, renewed>>

Resting == [at |-> "rest", clause |-> None, pkg |-> None, rec |-> None]
Base == [vc |-> 0, sha |-> None]
Clause == IF asked = 0 THEN None ELSE scene.asked[asked]

Init ==
  /\ scene \in Scenes /\ faults = 0 /\ asked = 0
  /\ seen = Unknown /\ round = Resting /\ check = None
  /\ installed = Base /\ staged = [v \in Versions |-> None]
  /\ rec = None /\ helpers = {} /\ result = None
  /\ tried = {} /\ renewed = {}

Fault == faults < scene.faults /\ faults' = faults + 1

\* The guardian taps Install update, or takes it back.
Ask ==
  /\ asked < Len(scene.asked) /\ asked' = asked + 1
  /\ UNCHANGED <<scene, faults, daemon, installed, staged, rec, helpers, result, tried, renewed>>

\* set_clause: the loop hands in the clause it has read.
SetClause ==
  /\ seen # Clause /\ seen' = Clause
  /\ UNCHANGED <<scene, faults, asked, round, check, installed, staged, rec, helpers, result,
                 tried, renewed>>

\* The window of the last attempt ends.
Lapse ==
  /\ rec # None /\ rec.attempts > 0 /\ ~rec.due /\ round.at = "rest"
  /\ rec' = [rec EXCEPT !.due = TRUE]
  /\ tried' = {} /\ renewed' = {}
  /\ UNCHANGED <<scene, faults, asked, daemon, installed, staged, helpers, result>>

-----------------------------------------------------------------------------
(* The record. *)

\* ingest_result: what the last install left is folded in, if it is about the
\* record's version, and its file removed.
Ingested ==
  IF rec # None /\ result # None /\ rec.vc = result.vc
  THEN [rec EXCEPT !.error = ~result.ok] ELSE rec

\* A record of a version that runs, or that no clause names.
Over(r) == r # None /\ (r.vc <= installed.vc \/ seen = None \/ seen.vc # r.vc)

\* Mutation: a version that was attempted is never attempted again.
DueOnce(r) == /\ seen # None /\ seen.vc > installed.vc
              /\ r # None => r.attempts = 0

\* check_clause and plan.
Due(r) == /\ seen # None /\ seen.vc > installed.vc
          /\ r # None => r.attempts = 0 \/ r.due

\* Mutation: the attempt is counted without opening its window.
AttemptWithoutWindow(r, vc) ==
  [vc |-> vc, attempts |-> IF r # None /\ r.vc = vc THEN r.attempts + 1 ELSE 1,
   error |-> FALSE, due |-> TRUE]

\* record_attempt.  The count is kept to what the properties tell apart.
Attempted(r, vc) ==
  IF r # None /\ r.vc = vc
  THEN [r EXCEPT !.attempts = 1, !.error = r.attempts > 0, !.due = FALSE]
  ELSE [vc |-> vc, attempts |-> 1, error |-> FALSE, due |-> FALSE]

\* record_note: a reason, and no attempt.
Noted(r, vc) ==
  IF r # None /\ r.vc = vc THEN [r EXCEPT !.error = TRUE]
  ELSE [vc |-> vc, attempts |-> 0, error |-> TRUE, due |-> FALSE]

\* update_health: what STATUS says of the record.
Health == IF rec = None \/ rec.vc <= installed.vc THEN None ELSE rec

-----------------------------------------------------------------------------
(* update_round. *)

Goes(at) == round' = [round EXCEPT !.at = at]
Vc == round.clause.vc

\* From the record to the plan, in one stretch.
Begin ==
  /\ round.at = "rest" /\ seen # Unknown
  /\ LET r == IF Over(Ingested) THEN None ELSE Ingested
     IN /\ rec' = r
        /\ round' = IF Due(r) THEN [Resting EXCEPT !.at = "query", !.clause = seen, !.rec = r] ELSE Resting
        /\ renewed' = IF r # Ingested THEN renewed \cup {Ingested.vc} ELSE renewed
        /\ ~(rec' = rec /\ result = None /\ ~Due(r))
  /\ result' = None
  /\ UNCHANGED <<scene, faults, asked, seen, check, installed, staged, helpers, tried>>

\* Mutation: an announcement of the version will do.
AgreeingByVersion == {p \in scene.announced : p.vc = Vc}

\* agreeing_release, among everything announced.
Agreeing == {p \in scene.announced : p = round.clause}

\* No relay answers, or no announcement agrees with the clause: a note.
Refuse ==
  /\ round.at = "query"
  /\ IF Agreeing # {} THEN Fault ELSE UNCHANGED faults
  /\ rec' = Noted(round.rec, Vc)
  /\ round' = Resting
  /\ UNCHANGED <<scene, asked, seen, check, installed, staged, helpers, result, tried, renewed>>

\* Mutation: the attempt is not saved before it is made.
AttemptUnsaved(lands) ==
  /\ round.at = "query"
  /\ \E p \in Agreeing :
       round' = [round EXCEPT !.at = "look", !.pkg = p, !.rec = Attempted(@, Vc)]
  /\ tried' = tried \cup {Vc} /\ lands
  /\ UNCHANGED <<scene, faults, rec, renewed, asked, seen, check, installed, staged, helpers, result>>

\* agreeing_release: both keys name the package.  The attempt is counted, and
\* saved as well as can be.
Attempt(lands) ==
  /\ round.at = "query"
  /\ \E p \in Agreeing :
       round' = [round EXCEPT !.at = "look", !.pkg = p, !.rec = Attempted(@, Vc)]
  /\ tried' = tried \cup {Vc}
  /\ IF lands THEN rec' = round'.rec /\ UNCHANGED <<faults, renewed>>
     ELSE Fault /\ renewed' = renewed \cup {Vc} /\ UNCHANGED rec
  /\ UNCHANGED <<scene, asked, seen, check, installed, staged, helpers, result>>

\* pick_source: the staged file if its bytes have the clause's hash.
Look ==
  /\ round.at = "look"
  /\ Goes(IF staged[Vc] = round.clause.sha THEN "launch" ELSE "fetch")
  /\ UNCHANGED <<scene, faults, asked, seen, check, installed, staged, rec, helpers, result,
                 tried, renewed>>

\* The attempt ends with an error in the record.
Fails ==
  /\ rec' = [round.rec EXCEPT !.error = TRUE]
  /\ round' = Resting

\* An address gives bytes with the announced hash, and they are staged; or none does.
Fetch(works) ==
  /\ round.at = "fetch"
  /\ IF works THEN /\ staged' = [staged EXCEPT ![Vc] = round.pkg.sha]
                   /\ Goes("launch") /\ UNCHANGED <<faults, rec>>
     ELSE Fault /\ Fails /\ UNCHANGED staged
  /\ UNCHANGED <<scene, asked, seen, check, installed, helpers, result, tried, renewed>>

\* An old result is removed and the install unit started; one unit to a version.
Launch(works) ==
  /\ round.at = "launch" /\ result' = None
  /\ IF works THEN /\ \A h \in helpers : h.vc # Vc
                   /\ helpers' = helpers \cup {[vc |-> Vc, apt |-> "to do"]}
                   /\ round' = Resting /\ UNCHANGED <<faults, rec>>
     ELSE /\ IF \E h \in helpers : h.vc = Vc THEN UNCHANGED faults ELSE Fault
          /\ Fails /\ UNCHANGED helpers
  /\ UNCHANGED <<scene, asked, seen, check, installed, staged, tried, renewed>>

-----------------------------------------------------------------------------
(* The release check. *)

\* check_and_stage: the newest package the relays that answered announce, unless
\* its file is there.
Check(p) ==
  /\ check = None
  /\ p \in scene.announced /\ p.vc > installed.vc
  /\ staged[p.vc] = None
  /\ check' = p
  /\ UNCHANGED <<scene, faults, asked, seen, round, installed, staged, rec, helpers, result,
                 tried, renewed>>

\* stage_bytes, once they are there; or no address has given them.
Stage(works) ==
  /\ check # None /\ check' = None
  /\ IF works THEN staged' = [staged EXCEPT ![check.vc] = check.sha] /\ UNCHANGED faults
     ELSE Fault /\ UNCHANGED staged
  /\ UNCHANGED <<scene, asked, seen, round, installed, rec, helpers, result, tried, renewed>>

-----------------------------------------------------------------------------
(* The install, outside the daemon. *)

Restarted == seen' = Unknown /\ round' = Resting /\ check' = None

\* apt-get installs the file as it now is, refusing one older than what runs, and
\* may find another install under way; postinst restarts the daemon.
Apt(h, works) ==
  /\ h \in helpers /\ h.apt = "to do"
  /\ IF works THEN /\ h.vc > installed.vc
                   /\ installed' = [vc |-> h.vc, sha |-> staged[h.vc]]
                   /\ Restarted /\ UNCHANGED faults
     ELSE /\ IF h.vc <= installed.vc \/ \E k \in helpers \ {h} : k.apt = "to do" THEN UNCHANGED faults ELSE Fault
          /\ UNCHANGED <<installed, daemon>>
  /\ helpers' = (helpers \ {h}) \cup {[h EXCEPT !.apt = IF works THEN "done" ELSE "failed"]}
  /\ UNCHANGED <<scene, asked, staged, rec, result, tried, renewed>>

\* The helper leaves its result, and ends.
Report(h) ==
  /\ h \in helpers /\ h.apt # "to do"
  /\ result' = [vc |-> h.vc, ok |-> h.apt = "done"]
  /\ helpers' = helpers \ {h}
  /\ UNCHANGED <<scene, faults, asked, daemon, installed, staged, rec, tried, renewed>>

\* The daemon dies; or the computer, and the helpers with it.
Crash(power) ==
  /\ Fault
  /\ Restarted
  /\ helpers' = IF power THEN {} ELSE helpers
  /\ UNCHANGED <<scene, asked, installed, staged, rec, result, tried, renewed>>

-----------------------------------------------------------------------------
RoundStep == Begin \/ Refuse \/ Attempt(TRUE) \/ Look \/ Fetch(TRUE) \/ Launch(TRUE) \/ Launch(FALSE)

Next ==
  \/ Ask \/ SetClause \/ Lapse \/ Begin \/ Refuse \/ Look
  \/ \E b \in BOOLEAN : Attempt(b) \/ Fetch(b) \/ Launch(b) \/ Stage(b) \/ Crash(b)
  \/ \E p \in Packages : Check(p)
  \/ \E h \in helpers : Report(h) \/ \E b \in BOOLEAN : Apt(h, b)

\* An install of v that was started goes on to its end.
InstallEnds(v) == \E h \in helpers : h.vc = v /\ (Report(h) \/ Apt(h, TRUE) \/ Apt(h, FALSE))

\* The loop goes on handing in the clause, the updater comes round every ten
\* minutes and at every change, windows end, and an install that was started
\* ends (it runs under systemd, not under the daemon).
Fairness ==
  /\ WF_vars(SetClause) /\ WF_vars(Lapse) /\ WF_vars(RoundStep)
  /\ \A v \in Versions : WF_vars(InstallEnds(v))

Spec == Init /\ [][Next]_vars
FairSpec == Spec /\ Fairness

--------------------------------------------------------------------------------
(* Properties. *)

Twice(v) == Cardinality({p \in scene.announced : p.vc = v}) > 1

\* What runs is a package the guardian's clause and the release key's
\* announcement both named, unless the version was announced twice: then the
\* release check may put the other file in its place ("two keys must agree").
TwoKeysAgree ==
  \/ installed = Base
  \/ installed \in scene.announced
     /\ (installed \in {scene.asked[i] : i \in 1 .. asked} \/ Twice(installed.vc))

\* The same without the exception.
OnlyTheAgreedFileRuns ==
  installed = Base \/ installed \in {scene.asked[i] : i \in 1 .. asked}

\* An attempt is on disk before anything of it happens, and stays there until the
\* version runs, its clause goes or the window ends: no crash and no restart
\* forgets it, and STATUS goes on reporting it (save_record, update_health).
AttemptsAreKept ==
  \A v \in tried \ renewed :
    v <= installed.vc \/ (Health # None /\ Health.vc = v /\ Health.attempts > 0)

\* At most one attempt of a version in a window, through restarts, late results
\* and notes, unless a change of clause dropped its record (ATTEMPT_INTERVAL_SECS).
OneAttemptAWindow ==
  [][round.at = "query" /\ round'.at = "look" => Vc \notin tried \ renewed]_vars

\* Nothing runs that was not asked for, and nothing is tried more often than it may be.
UpdatesAreMeasured == [](TwoKeysAgree /\ AttemptsAreKept) /\ OneAttemptAWindow

\* A clause that stands and whose package is announced is carried out, through
\* unreachable relays, failed downloads and installs, and crashes.
UpdateLands ==
  \A v \in Versions :
    (Clause # None /\ Clause \in scene.announced /\ Clause.vc = v)
      ~> (installed.vc >= v \/ Clause = None \/ Clause.vc # v \/ Clause \notin scene.announced)
==================================================================================
