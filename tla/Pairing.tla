--------------------------------- MODULE Pairing ---------------------------------
(* How a computer comes under a guardian and leaves again (charterd pair_token,
   pair_accept, pair_listener, pair_commit, bin/charter-pair, device_limits;
   Broker.on_release): a token is shown as a QR code, guardians answer it with
   offers on the relay, the unpaired daemon's listener or the parent's own
   charter-pair writes the pairing, and a signed release takes it back.

   Each step of a commit is an action: another process may run, or the computer
   may die, between any two.  Keys, relay lists, the forms of the link and the
   refusals of charter-pair that write nothing are left out, and there is one
   child (with none or several, both commits refuse).  A subject is drawn fresh,
   or given to charter-pair by the parent. *)
EXTENDS Integers, FiniteSets

CONSTANTS
  None,
  Guardians,
  Ttl,           \* TOKEN_TTL_SECS
  Horizon,       \* bound on the clock
  MaxTokens,     \* bound on the tokens shown
  MaxCommits,    \* bound on the commits begun
  Scenes         \* who does what in a behaviour: the guardians that answer the
                 \* code, those whose link is pasted, whether charter-settings is
                 \* used, and the bound on crashes and failed writes

Agents == {"listener", "tool"}

VARIABLES
  scene,         \* one of Scenes: [offer, link, edit, faults]
  clock,
  faults,
  begun,         \* the commits begun so far; the n-th draws subject n if it draws one
  minted,        \* and the tokens minted 1 .. minted
  bound,         \* the subject the child's config names, or None
  pin,           \* pairing.json: [g, s, at], or None
  token,         \* pair-token.json: [id, at], or None
  store,         \* the subjects with cached clauses
  offers,        \* what guardians have published: [g, token, ts]
  releases,      \* and their releases: [g, at]
  daemon,        \* [mode, g, s, release, floor]: what it runs as since its boot
  commit,        \* per agent: [step, g, s, prev, existed, token, alone]
  settings,      \* charter-settings between its read and its write: the binding it read
  torn,          \* history: the binding is not the work of one whole commit
  leftover,      \* history: subjects whose clauses could not be removed, or whose
                 \* removal a crash cut short
  pinnedBy,      \* history: per token, the guardians it pinned
  kept,          \* history: tokens that could not be removed, or whose removal a
                 \* crash cut short
  ended          \* history: [release, pin, floor] of each pairing a release ended

disk == <<bound, pin, token, store>>
relay == <<offers, releases>>
history == <<torn, leftover, pinnedBy, kept, ended>>
vars == <<scene, clock, faults, begun, minted, disk, relay, daemon, commit, settings, history>>

Idle == [step |-> "idle", g |-> None, s |-> None, prev |-> None, existed |-> FALSE,
         token |-> None, alone |-> TRUE]
Down == [mode |-> "down", g |-> None, s |-> None, release |-> None, floor |-> 0]
Unpaired == [Down EXCEPT !.mode = "unpaired"]
Midway == {"pin", "rollback"}    \* the child is bound, the pairing not written
Begun == {"bind"} \cup Midway     \* what it found there has been read

Init ==
  /\ scene \in Scenes
  /\ clock = 0 /\ faults = 0 /\ begun = 0 /\ minted = 0
  /\ bound = None /\ pin = None /\ token = None /\ store = {}
  /\ offers = {} /\ releases = {}
  /\ daemon = Unpaired
  /\ commit = [a \in Agents |-> Idle] /\ settings = {}
  /\ torn = FALSE /\ leftover = {} /\ ended = {}
  /\ pinnedBy = [t \in 1 .. MaxTokens |-> {}] /\ kept = {}

Fault == faults < scene.faults /\ faults' = faults + 1

Tick ==
  /\ clock < Horizon /\ clock' = clock + 1
  /\ UNCHANGED <<scene, faults, begun, minted, disk, relay, daemon, commit, settings, history>>

-----------------------------------------------------------------------------
(* The token and the offers. *)

\* charter-pair-invite: a new token replaces the last.
Mint ==
  /\ minted < MaxTokens /\ minted' = minted + 1
  /\ token' = [id |-> minted', at |-> clock]
  /\ UNCHANGED <<scene, clock, faults, begun, bound, pin, store, relay, daemon, commit, settings, history>>

\* Whoever has seen the code answers it, once.  The relay keeps every offer.
Publish(g, t) ==
  /\ t <= minted /\ g \in scene.offer
  /\ \A o \in offers : <<o.g, o.token>> # <<g, t>>
  /\ offers' = offers \cup {[g |-> g, token |-> t, ts |-> clock]}
  /\ UNCHANGED <<scene, clock, faults, begun, minted, disk, releases, daemon, commit, settings, history>>

\* current: the token on disk while it is fresh.
Live == token # None /\ clock - token.at < Ttl

\* choose_offer: the one guardian among the offers of the live token; nobody if
\* there are two.
Choose(seen) ==
  LET proving == {o.g : o \in {p \in seen : Live /\ p.token = token.id /\ clock - p.ts < Ttl}}
  IN  IF Cardinality(proving) = 1 THEN proving ELSE {}

-----------------------------------------------------------------------------
(* A commit: commit_pin, and charter-pair's headless and interactive flows. *)

Started(a, g, s, t) ==
  commit' = [commit EXCEPT ![a] =
    [step |-> "bind", g |-> g, s |-> s, prev |-> bound, existed |-> pin # None,
     token |-> t, alone |-> TRUE]]

\* try_pair_once, on what one poll of the relay returned.
Listen(seen) ==
  /\ daemon.mode = "unpaired" /\ commit["listener"].step = "idle"
  /\ begun < MaxCommits /\ begun' = begun + 1
  /\ \E g \in Choose(seen) : Started("listener", g, begun', token.id)
  /\ UNCHANGED <<scene, clock, faults, minted, disk, relay, daemon, settings, history>>

\* charter-pair with a guardian's link: over a pairing only when told to.
Link(g, s, replace) ==
  /\ commit["tool"].step = "idle" /\ g \in scene.link
  /\ pin = None \/ replace
  /\ begun < MaxCommits /\ begun' = begun + 1
  /\ s \in {bound, begun'}
  /\ Started("tool", g, s, None)
  /\ UNCHANGED <<scene, clock, faults, minted, disk, relay, daemon, settings, history>>

Goes(a, step) == commit' = [commit EXCEPT ![a].step = step]

\* set_child_subject: the child is bound before the pairing is written.
Bind(a) ==
  /\ commit[a].step = "bind"
  /\ bound' = commit[a].s
  /\ LET other == \E b \in Agents \ {a} : commit[b].step \in Midway
     IN commit' = [b \in Agents |->
          IF b = a THEN [commit[a] EXCEPT !.step = "pin", !.alone = @ /\ ~other]
          ELSE [commit[b] EXCEPT !.alone = @ /\ commit[b].step \notin Begun]]
  /\ UNCHANGED <<scene, clock, faults, begun, minted, pin, token, store, relay, daemon, settings, history>>

\* The binding cannot be written: the commit ends.
BindFails(a) ==
  /\ commit[a].step = "bind" /\ Fault
  /\ commit' = [commit EXCEPT ![a] = Idle]
  /\ UNCHANGED <<scene, clock, begun, minted, disk, relay, daemon, settings, history>>

\* The pairing is written, by renaming its temporary file.
Pin(a) ==
  /\ commit[a].step = "pin"
  /\ pin' = [g |-> commit[a].g, s |-> commit[a].s, at |-> clock]
  /\ torn' = ~commit[a].alone
  /\ pinnedBy' = IF a = "tool" THEN pinnedBy
                 ELSE [pinnedBy EXCEPT ![commit[a].token] = @ \cup {commit[a].g}]
  /\ Goes(a, IF a = "listener" THEN "spend" ELSE "purge")
  /\ UNCHANGED <<scene, clock, faults, begun, minted, bound, token, store, relay, daemon, settings,
                 leftover, kept, ended>>
PinFails(a) ==
  /\ commit[a].step = "pin" /\ Fault
  /\ Goes(a, "rollback")
  /\ UNCHANGED <<scene, clock, begun, minted, disk, relay, daemon, settings, history>>

\* Mutation: a pairing that could not be written leaves the child bound.
RollBackNothing(a) ==
  /\ commit[a].step = "rollback"
  /\ commit' = [commit EXCEPT ![a] = Idle]
  /\ UNCHANGED <<scene, clock, faults, begun, minted, disk, relay, daemon, settings, history>>

\* The binding of before is put back.
RollBack(a) ==
  /\ commit[a].step = "rollback"
  /\ bound' = commit[a].prev
  /\ torn' = (torn \/ ~commit[a].alone)
  /\ commit' = [b \in Agents |->
       IF b = a THEN Idle ELSE [commit[b] EXCEPT !.alone = @ /\ commit[b].step \notin Begun]]
  /\ UNCHANGED <<scene, clock, faults, begun, minted, pin, token, store, relay, daemon, settings,
                 leftover, pinnedBy, kept, ended>>
RollBackFails(a) ==
  /\ commit[a].step = "rollback" /\ Fault
  /\ torn' = TRUE
  /\ commit' = [commit EXCEPT ![a] = Idle]
  /\ UNCHANGED <<scene, clock, begun, minted, disk, relay, daemon, settings, leftover, pinnedBy, kept, ended>>

\* Mutation: the token stays for the next offer.
SpendNothing ==
  /\ commit["listener"].step = "spend"
  /\ Goes("listener", "purge")
  /\ UNCHANGED <<scene, clock, faults, begun, minted, disk, relay, daemon, settings, history>>

\* consume: the file goes, whichever token it holds by now.
Spend ==
  /\ commit["listener"].step = "spend"
  /\ token' = None
  /\ Goes("listener", "purge")
  /\ UNCHANGED <<scene, clock, faults, begun, minted, bound, pin, store, relay, daemon, settings, history>>

\* It cannot be removed: commit_pin fails with the pairing written, the listener
\* goes on listening and the daemon is not restarted.
SpendFails ==
  /\ commit["listener"].step = "spend" /\ Fault
  /\ kept' = kept \cup {commit["listener"].token}
  /\ commit' = [commit EXCEPT !["listener"] = Idle]
  /\ leftover' = leftover \cup ({commit["listener"].prev} \ {None})
  /\ UNCHANGED <<scene, clock, begun, minted, disk, relay, daemon, settings, torn, pinnedBy, ended>>

\* The clauses of the subject the child had before go, if there was a pairing.
Purge(a) ==
  /\ commit[a].step = "purge"
  /\ store' = IF commit[a].existed /\ commit[a].prev # commit[a].s
              THEN store \ {commit[a].prev} ELSE store
  /\ Goes(a, "restart")
  /\ UNCHANGED <<scene, clock, faults, begun, minted, bound, pin, token, relay, daemon, settings, history>>
PurgeFails(a) ==
  /\ commit[a].step = "purge" /\ commit[a].existed /\ commit[a].prev # None /\ Fault
  /\ leftover' = leftover \cup {commit[a].prev}
  /\ Goes(a, "restart")
  /\ UNCHANGED <<scene, clock, begun, minted, disk, relay, daemon, settings, torn, pinnedBy, kept, ended>>

-----------------------------------------------------------------------------
(* The daemon, and what may befall the processes. *)

\* What the end of the agents A in the midst of a commit leaves.
Cut(A) ==
  /\ torn' = (torn \/ \E a \in A : commit[a].step \in Midway)
  /\ kept' = kept \cup {commit[a].token : a \in {b \in A : commit[b].step = "spend"}}
  /\ leftover' = leftover \cup
       ({commit[a].prev : a \in {b \in A : commit[b].step \in {"spend", "purge"}}} \ {None})

\* try-restart: the daemon ends, with its listener; it comes back by Boot.
Restart(a) ==
  /\ commit[a].step = "restart"
  /\ daemon' = Down
  /\ Cut({"listener"} \ {a})
  /\ commit' = [b \in Agents |-> IF b \in {a, "listener"} THEN Idle ELSE commit[b]]
  /\ UNCHANGED <<scene, clock, faults, begun, minted, disk, relay, settings, pinnedBy, ended>>

\* The daemon starts, and holds to what it finds: paired or listening.
Boot ==
  /\ daemon.mode = "down"
  /\ daemon' = IF pin = None THEN Unpaired
               ELSE [Down EXCEPT !.mode = "paired", !.g = pin.g, !.s = pin.s]
  /\ UNCHANGED <<scene, clock, faults, begun, minted, disk, relay, commit, settings, history>>

Crash(who) ==
  /\ Fault
  /\ Cut(who \cap Agents)
  /\ commit' = [a \in Agents |-> IF a \in who THEN Idle ELSE commit[a]]
  /\ daemon' = IF "listener" \in who THEN Down ELSE daemon
  /\ settings' = IF "tool" \in who THEN {} ELSE settings
  /\ UNCHANGED <<scene, clock, begun, minted, disk, relay, pinnedBy, ended>>

\* The guardian's clause reaches the daemon that obeys it.
Clause ==
  /\ daemon.mode = "paired"
  /\ store' = store \cup {daemon.s}
  /\ UNCHANGED <<scene, clock, faults, begun, minted, bound, pin, token, relay, daemon, commit, settings, history>>

\* charter-settings: the child's config is read, and written with new limits and
\* the binding that was read.
SettingsRead ==
  /\ scene.edit /\ settings = {} /\ settings' = {bound}
  /\ UNCHANGED <<scene, clock, faults, begun, minted, disk, relay, daemon, commit, history>>
SettingsWrite ==
  /\ settings # {} /\ settings' = {}
  /\ \E b \in settings : bound' = b
  /\ torn' = (torn \/ settings # {bound})
  /\ commit' = [a \in Agents |->
       [commit[a] EXCEPT !.alone = @ /\ (commit[a].step \notin Begun \/ settings = {bound})]]
  /\ UNCHANGED <<scene, clock, faults, begun, minted, pin, token, store, relay, daemon,
                 leftover, pinnedBy, kept, ended>>

-----------------------------------------------------------------------------
(* The release. *)

\* A guardian lets the computer go: once, and the relay keeps that.
Disconnect(g) ==
  /\ g \in scene.offer \cup scene.link /\ \A r \in releases : r.g # g
  /\ releases' = releases \cup {[g |-> g, at |-> clock]}
  /\ UNCHANGED <<scene, clock, faults, begun, minted, disk, offers, daemon, commit, settings, history>>

\* Mutation: any release of the pinned guardian will do, however old.
AnyAdmits(r) == daemon.mode = "paired" /\ r.g = daemon.g

\* verify_release against the daemon's guardian, and the floor against the
\* pairing on disk.
Admits(r) ==
  /\ daemon.mode = "paired" /\ r.g = daemon.g
  /\ r.at >= IF pin = None THEN 0 ELSE pin.at

\* Mutation: handlers go on after a release.
ReleaseAloud(r, lands) ==
  /\ Admits(r)
  /\ pin' = None /\ store' = store \ {daemon.s}
  /\ lands /\ UNCHANGED <<faults, leftover>>
  /\ UNCHANGED <<scene, clock, begun, minted, bound, token, relay, daemon, commit, settings,
                 torn, pinnedBy, kept, ended>>

\* on_release: from here the daemon handles nothing more.  The clauses go first,
\* best-effort.
Release(r, lands) ==
  /\ Admits(r)
  /\ daemon' = [daemon EXCEPT !.mode = "releasing", !.release = r, !.floor = pin]
  /\ IF lands THEN store' = store \ {daemon.s} /\ UNCHANGED <<faults, leftover>>
     ELSE Fault /\ leftover' = leftover \cup {daemon.s} /\ UNCHANGED store
  /\ UNCHANGED <<scene, clock, begun, minted, bound, pin, token, relay, commit, settings,
                 torn, pinnedBy, kept, ended>>

\* Then the pairing, and the daemon restarts.
Unpair(lands) ==
  /\ daemon.mode = "releasing"
  /\ IF lands /\ pin # None
     THEN /\ pin' = None
          /\ ended' = ended \cup {[release |-> daemon.release, pin |-> pin, seen |-> daemon.floor]}
     ELSE UNCHANGED <<pin, ended>>
  /\ torn' = (torn \/ pin # daemon.floor \/ (pin # None /\ pin.s # daemon.s))
  /\ IF lands THEN UNCHANGED faults ELSE Fault
  /\ daemon' = Down
  /\ UNCHANGED <<scene, clock, begun, minted, bound, token, store, relay, commit, settings,
                 leftover, pinnedBy, kept>>

-----------------------------------------------------------------------------
Next ==
  \/ Tick \/ Mint \/ Spend \/ SpendFails \/ Boot \/ Clause \/ SettingsRead \/ SettingsWrite
  \/ \E g \in Guardians : Disconnect(g) \/ \E t \in 1 .. MaxTokens : Publish(g, t)
  \/ \E seen \in SUBSET offers : Listen(seen)
  \/ \E g \in Guardians, s \in 1 .. MaxCommits, replace \in BOOLEAN : Link(g, s, replace)
  \/ \E a \in Agents : \/ Bind(a) \/ BindFails(a) \/ Pin(a) \/ PinFails(a) \/ RollBack(a)
                       \/ RollBackFails(a) \/ Purge(a) \/ PurgeFails(a) \/ Restart(a)
  \/ \E who \in {{"listener"}, {"tool"}, Agents} : Crash(who)
  \/ \E r \in releases, lands \in BOOLEAN : Release(r, lands)
  \/ \E lands \in BOOLEAN : Unpair(lands)

Spec == Init /\ [][Next]_vars

--------------------------------------------------------------------------------
(* Properties. *)

Committing == \E a \in Agents : commit[a].step \in Midway

\* The clauses of the pinned guardian are the child's: outside a commit the child
\* is bound to the pairing's subject, unless a commit was cut short between its
\* two writes or could not put the old binding back, two commits crossed, or
\* charter-settings wrote a binding it had read before a commit (commit_pin's
\* "binding first ... ROLLS BACK"; a pairing with no bound subject leaves the
\* guardian's clauses inert).
ChildFollowsThePin == pin # None /\ ~Committing /\ ~torn => bound = pin.s

\* A computer without a guardian enforces no guardian's rules, unless they could
\* not be removed (on_release: "rather than an unpinned device still enforcing
\* rules nobody can lift").
NobodysRulesStay == pin = None /\ ~Committing /\ ~torn => bound \notin store \ leftover

\* Both of them.
RulesFollowThePin == ChildFollowsThePin /\ NobodysRulesStay

\* A token pins one guardian, unless it could not be removed.
TokenPinsOnce == \A t \in 1 .. MaxTokens \ kept : Cardinality(pinnedBy[t]) <= 1

\* A release ends no pairing younger than itself, unless it was already being
\* carried out when that pairing was written: one redelivered after a re-pair
\* changes nothing (the floor of on_release).
OldReleaseEndsNothing ==
  \A e \in ended : e.release.at >= e.pin.at \/ e.seen # e.pin

\* What was used up stays used up: neither a token nor a release acts twice.
NothingActsTwice == TokenPinsOnce /\ OldReleaseEndsNothing
=================================================================================
