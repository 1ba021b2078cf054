-------------------------------- MODULE Warden --------------------------------
(***************************************************************************)
(* The Android host of the warden (android/jni/src/warden.rs, link.rs and  *)
(* the Kotlin loop of WardenController): one object under one lock, and    *)
(* three threads that take it in turn.  The enforcement tick holds the     *)
(* lock throughout.  A poll round and a wrap of the home link hold it only *)
(* to take a broker and to absorb what it did: in between, that broker     *)
(* works on the stores by itself, whatever becomes of the pairing.         *)
(*                                                                         *)
(* A broker honours what its own guardian signed, once (Broker).  Of a     *)
(* guardian's clauses only the last rules matter here, and the verdict of  *)
(* a tick under them is open (Schedule, TimeLeft).  The phone's            *)
(* restrictions outlive the process.                                       *)
(***************************************************************************)
EXTENDS Naturals, FiniteSets

CONSTANTS
  None,
  Guardians,
  MaxPairs, MaxRewires, MaxMishaps   \* bounds of the instance; a mishap is a failed read,
                                     \* write or process

VARIABLES
  \* On disk.
  record,     \* pairing.json: whom the phone is paired to
  rules,      \* the ward's clauses: whose, and whether more than a stand-down
  mirror,     \* whose clauses are in the machine-wide store
  readable,   \* which of "pairing" and "rules" would read now
  \* The Warden in memory.
  pin,        \* guardian; a broker serves it
  blind,      \* pairing_error
  inbox,      \* whose granted minutes wait for a tick
  locked,     \* enforcer.is_locked
  latch,      \* ever_configured
  \* Kotlin and the phone.
  baselineOn, \* baselineApplied
  phone,      \* the restrictions in force: the baseline, and the lock
  \* The two threads that work outside the lock: how far, for whom, and what has become of
  \* the broker they hold.
  round,      \* the poll round
  wrap,       \* a wrap from the link
  \* The world.
  releases,   \* whose release no older than the pairing in force waits at the relays
  \* History and bounds.
  leftover,   \* stores a release failed to clear
  sighted,    \* the rules were read since this process started
  outlived,   \* a replaced broker was still at work when a release applied
  pairs, rewires, mishaps

bounds == <<pairs, rewires, mishaps>>
vars == <<record, rules, mirror, readable, pin, blind, inbox, locked, latch, baselineOn, phone,
          round, wrap, releases, leftover, sighted, outlived, bounds>>

Init ==
  /\ record = None /\ rules = None /\ mirror = None /\ readable = {"pairing", "rules"}
  /\ pin = None /\ blind = FALSE /\ inbox = {} /\ locked = FALSE /\ latch = FALSE
  /\ baselineOn = FALSE /\ phone = [baseline |-> FALSE, shut |-> FALSE]
  /\ round = None /\ wrap = None /\ releases = {}
  /\ leftover = {} /\ sighted = FALSE /\ outlived = FALSE
  /\ pairs = 0 /\ rewires = 0 /\ mishaps = 0

Mishap(n) == mishaps + n <= MaxMishaps /\ mishaps' = mishaps + n

\* What becomes of a thread whose broker is the one in service.
Now(t, fate) == IF t # None /\ t.is = "serving" THEN [t EXCEPT !.is = fate] ELSE t

-----------------------------------------------------------------------------
\* The enforcement tick, which decides nothing while the pairing does not read (N1).

\* syncBaseline and the lock surface, for a decision that a charter exists or does not.
Shows(charted, shut) ==
  /\ phone' = [baseline |-> charted \/ (phone.baseline /\ ~baselineOn), shut |-> shut]
  /\ baselineOn' = charted

Unruled == UNCHANGED <<record, rules, mirror, readable, pin, blind, round, wrap, releases, leftover,
                       outlived, bounds>>

\* No ward, or none with rules (a stand-down lapses): an explicit decision that lifts
\* everything (I17).
TickFree ==
  /\ ~blind
  /\ pin # None => "rules" \in readable /\ (rules # None => ~rules.charter)
  /\ Shows(FALSE, FALSE) /\ UNCHANGED <<inbox, locked, latch, sighted>> /\ Unruled

\* Mutation: without the lock in force as a sign of a charter.
TickHeldByLatch ==
  /\ ~blind /\ pin # None /\ "rules" \notin readable
  /\ Shows(latch, locked) /\ UNCHANGED <<inbox, locked, latch, sighted>> /\ Unruled

\* hold_decision.
TickHeld ==
  /\ ~blind /\ pin # None /\ "rules" \notin readable
  /\ Shows(latch \/ locked, locked) /\ UNCHANGED <<inbox, locked, latch, sighted>> /\ Unruled

\* A tick under rules; an open break-glass window keeps the phone from being shut.
TickEnforced ==
  /\ ~blind /\ pin # None /\ "rules" \in readable /\ rules # None
  /\ locked' \in (IF rules.charter THEN BOOLEAN ELSE {TRUE})
  /\ inbox' = {} /\ latch' = (latch \/ rules.charter) /\ sighted' = TRUE
  /\ \E glass \in BOOLEAN : Shows(TRUE, locked' /\ ~glass)
  /\ Unruled

-----------------------------------------------------------------------------
\* What brokers do, for the poll thread and for the link: each handler takes its broker's
\* turn, looks whether it is released, and stores or enacts what its guardian signed.

Inside == \E t \in {round, wrap} : t # None /\ t.stage = "in" /\ t.is = "serving"

Enters(t) == t.stage = "out" /\ t.is # "released" /\ (t.is = "serving" => ~Inside)

\* A store that a release failed to clear may hold an issuedAt that refuses the new one.
Stored(r) ==
  /\ UNCHANGED inbox
  /\ \/ "rules" \in readable /\ rules' = r /\ leftover' = leftover \ {"rules"}
     \/ ("rules" \in readable => "rules" \in leftover) /\ UNCHANGED <<rules, leftover>>

\* A clause is stored, a stand-down is (unless there are other rules), or a grant enacted.
Handles(by) ==
  \/ Stored([by |-> by, charter |-> TRUE])
  \/ rules = None /\ Stored([by |-> by, charter |-> FALSE])
  \/ inbox' = inbox \cup {by} /\ UNCHANGED <<rules, leftover>>

Unhandled == UNCHANGED <<record, mirror, readable, pin, blind, locked, latch, baselineOn, phone,
                         releases, sighted, outlived, bounds>>

RoundEnters ==
  /\ round # None /\ Enters(round) /\ round' = [round EXCEPT !.stage = "in"]
  /\ UNCHANGED <<wrap, rules, inbox, leftover>> /\ Unhandled

RoundHandles ==
  /\ round # None /\ round.stage = "in" /\ round' = [round EXCEPT !.stage = "out"]
  /\ Handles(round.by) /\ UNCHANGED wrap /\ Unhandled

WrapEnters ==
  /\ wrap # None /\ Enters(wrap) /\ wrap' = [wrap EXCEPT !.stage = "in"]
  /\ UNCHANGED <<round, rules, inbox, leftover>> /\ Unhandled

WrapHandles ==
  /\ wrap # None /\ wrap.stage = "in" /\ wrap' = [wrap EXCEPT !.stage = "done"]
  /\ Handles(wrap.by) /\ UNCHANGED round /\ Unhandled

\* mirror_ward_clauses.
Mirrored ==
  \/ /\ pin # None /\ "rules" \in readable /\ rules # None
     /\ mirror' = rules.by
     /\ leftover' = (leftover \ {"mirror"}) \cup
                       (IF "rules" \in leftover THEN {"mirror"} ELSE {})
  \/ /\ (pin # None /\ "rules" \in readable /\ rules # None) => "mirror" \in leftover
     /\ UNCHANGED <<mirror, leftover>>

-----------------------------------------------------------------------------
\* Release.

\* verify_release, and no older than this pairing.
Honoured == pin # None /\ pin \in releases

\* What is on disk once the stores of done are cleared.
Cleared(done) ==
  /\ rules' = IF "rules" \in done THEN None ELSE rules
  /\ mirror' = IF "mirror" \in done THEN None ELSE mirror
  /\ record' = IF "record" \in done THEN None ELSE record
  /\ leftover' = {s \in {"rules", "mirror"} :
                    s \notin done /\ (IF s = "rules" THEN rules ELSE mirror) # None}

\* Mutation: without waiting for a handler.
StopsAtOnce(r, w) ==
  /\ round' = Now(r, "released") /\ wrap' = Now(w, "released")
  /\ outlived' = (outlived \/ \E t \in {r, w} : t # None /\ t.is = "replaced")

\* mark_released waits for the handler the broker in service may be in, and stops that
\* broker, for the threads that hold it (r and w).
Stops(r, w) ==
  /\ ~Inside
  /\ round' = Now(r, "released") /\ wrap' = Now(w, "released")
  /\ outlived' = (outlived \/ \E t \in {r, w} : t # None /\ t.is = "replaced")

\* apply_release: the stores are cleared best-effort, and the ward forgotten.
ApplyRelease(r, w) ==
  /\ Stops(r, w)
  /\ \E fails \in {{}} \cup {{s} : s \in {"rules", "mirror", "record"}} :
       Mishap(Cardinality(fails)) /\ Cleared({"rules", "mirror", "record"} \ fails)
  /\ pin' = None /\ inbox' = {} /\ locked' = FALSE /\ latch' = FALSE /\ sighted' = FALSE
  /\ UNCHANGED <<readable, blind, baselineOn, phone, releases, pairs, rewires>>

Untouched == UNCHANGED <<record, rules, mirror, readable, pin, blind, inbox, locked, latch,
                         baselineOn, phone, releases, leftover, sighted, outlived, bounds>>

-----------------------------------------------------------------------------
\* The poll round (poll_once_locked).

\* load_pairing, by init or retry_pairing.
TakenUp(r) ==
  /\ blind' = ("pairing" \notin readable)
  /\ pin' = IF blind' THEN None ELSE r

\* Phase 1: the pairing is read again if it would not, and the broker taken.
RoundStarts ==
  /\ round = None
  /\ IF blind THEN TakenUp(record) ELSE UNCHANGED <<blind, pin>>
  /\ IF pin' = None THEN blind /\ UNCHANGED round
     ELSE round' = [stage |-> "start", by |-> pin', is |-> "serving"]
  /\ UNCHANGED <<record, rules, mirror, readable, inbox, locked, latch, baselineOn, phone, wrap,
                 releases, leftover, sighted, outlived, bounds>>

\* The releases come first, and one that is honoured ends the round.
RoundReleases ==
  /\ round # None /\ round.stage = "start"
  /\ IF Honoured THEN ApplyRelease(None, wrap)
     ELSE round' = [round EXCEPT !.stage = "out"] /\ UNCHANGED wrap /\ Untouched

\* Phase 3: what the broker did is absorbed.
RoundEnds ==
  /\ round # None /\ round.stage = "out" /\ round' = None /\ Mirrored
  /\ UNCHANGED <<record, rules, readable, pin, blind, inbox, locked, latch, baselineOn, phone, wrap,
                 releases, sighted, outlived, bounds>>

-----------------------------------------------------------------------------
\* A wrap from the home link (ingest_one), which belongs to a generation.

WrapArrives ==
  /\ wrap = None /\ pin # None /\ wrap' = [stage |-> "sent", by |-> pin, is |-> "serving"]
  /\ UNCHANGED round /\ Untouched

\* link_broker: no broker for a link that is not the live one.
WrapIsTaken ==
  /\ wrap # None /\ wrap.stage = "sent" /\ UNCHANGED round /\ Untouched
  /\ wrap' = IF wrap.is = "serving" THEN [wrap EXCEPT !.stage = "out"] ELSE None

\* absorb_local, of a clause or a grant; one a released broker refused is not absorbed.
WrapIsAbsorbed ==
  /\ wrap # None /\ wrap' = None
  /\ \/ wrap.stage = "done" /\ Mirrored
     \/ wrap.stage = "out" /\ wrap.is = "released" /\ UNCHANGED <<mirror, leftover>>
  /\ UNCHANGED <<record, rules, readable, pin, blind, inbox, locked, latch, baselineOn, phone,
                 round, releases, sighted, outlived, bounds>>

\* absorb_local, of a release, which no handler touches.
WrapReleases ==
  /\ wrap # None /\ wrap.stage = "out"
  /\ IF wrap.is = "serving" /\ Honoured THEN ApplyRelease(round, None)
     ELSE wrap' = None /\ UNCHANGED round /\ Untouched

-----------------------------------------------------------------------------
\* The ward and the guardian at the phone.

\* pair: refused while the record does not read, and over another pairing.  A release of
\* the same second as the pairing still counts.
Pair(g) ==
  /\ ~blind /\ pin = None /\ pairs < MaxPairs
  /\ record' = g /\ pin' = g /\ releases' \in {releases, releases \ {g}} /\ pairs' = pairs + 1
  /\ UNCHANGED <<rules, mirror, readable, blind, inbox, locked, latch, baselineOn, phone, round,
                 wrap, leftover, sighted, outlived, rewires, mishaps>>

\* update_relays: the same pairing on other relays, with a broker and a link of its own.
UpdateRelays ==
  /\ ~blind /\ pin # None /\ rewires < MaxRewires /\ rewires' = rewires + 1
  /\ round' = Now(round, "replaced") /\ wrap' = Now(wrap, "replaced")
  /\ UNCHANGED <<record, rules, mirror, readable, pin, blind, inbox, locked, latch, baselineOn,
                 phone, releases, leftover, sighted, outlived, pairs, mishaps>>

\* The process dies and is started again (START_STICKY): init.
Restarted ==
  /\ TakenUp(record')
  /\ inbox' = {} /\ locked' = FALSE /\ latch' = FALSE /\ baselineOn' = FALSE /\ sighted' = FALSE
  /\ round' = None /\ wrap' = None
  /\ UNCHANGED <<readable, phone, releases, outlived, pairs, rewires>>

Restart ==
  Mishap(1) /\ UNCHANGED <<record, rules, mirror, leftover>> /\ Restarted

\* Killed in the midst of apply_release.
RestartReleasing ==
  /\ Honoured /\ ~Inside
  /\ \/ round # None /\ round.stage = "start"
     \/ wrap # None /\ wrap.stage = "out" /\ wrap.is = "serving"
  /\ Mishap(1)
  /\ \E done \in {{"rules"}, {"rules", "mirror"}, {"rules", "mirror", "record"}} : Cleared(done)
  /\ Restarted

-----------------------------------------------------------------------------
\* The world.

Still == UNCHANGED <<record, rules, mirror, pin, blind, inbox, locked, latch, baselineOn, phone,
                     round, wrap, leftover, sighted, outlived, pairs, rewires>>

SignRelease ==
  /\ record # None /\ record \notin releases /\ releases' = releases \cup {record}
  /\ UNCHANGED <<readable, mishaps>> /\ Still

ReadsFail(f) ==
  /\ f \in readable /\ readable' = readable \ {f} /\ Mishap(1)
  /\ UNCHANGED releases /\ Still

ReadsHeal ==
  /\ readable # {"pairing", "rules"} /\ readable' = {"pairing", "rules"}
  /\ UNCHANGED <<releases, mishaps>> /\ Still

Next ==
  \/ TickFree \/ TickHeld \/ TickEnforced
  \/ RoundStarts \/ RoundReleases \/ RoundEnters \/ RoundHandles \/ RoundEnds
  \/ WrapArrives \/ WrapIsTaken \/ WrapEnters \/ WrapHandles \/ WrapIsAbsorbed \/ WrapReleases
  \/ \E g \in Guardians : Pair(g)
  \/ UpdateRelays \/ Restart \/ RestartReleasing
  \/ SignRelease \/ ReadsHeal
  \/ \E f \in {"pairing", "rules"} : ReadsFail(f)

Spec == Init /\ [][Next]_vars

-----------------------------------------------------------------------------
\* Properties.

\* No rule, no copy of one and no minute of a released guardian is left to bind the next
\* pairing, whatever was under way when the release came (apply_release, mark_released):
\* unless a store could not be cleared, or a broker that update_relays had replaced was
\* still at work, which nothing stops.
OneGuardianDecides ==
  ~outlived =>
    /\ rules # None => rules.by = record \/ "rules" \in leftover
    /\ mirror # None => mirror = record \/ "mirror" \in leftover
    /\ inbox \subseteq {pin}

\* "Nothing it stores can land in the directories cleared below" (apply_release).
NothingOutlivesARelease ==
  rules # None => rules.by = record \/ "rules" \in leftover

\* Neither a pairing nor rules that do not read lift anything, and a pairing is never pinned
\* over one that does not read (N1, F2, I22): from when the process first read the rules.
FaultsOpenNothing ==
  [][/\ (phone.baseline /\ ~phone'.baseline) \/ (phone.shut /\ ~phone'.shut)
          => ~blind /\ (pin = None \/ "rules" \in readable \/ ~sighted)
     /\ blind => record' = record]_vars

\* A tick that cannot read the rules holds "the current lock state" (hold_decision).
HeldAsItWas ==
  [][pin # None /\ "rules" \notin readable /\ sighted => phone'.shut = phone.shut]_vars
=============================================================================
