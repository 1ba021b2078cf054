-------------------------------- MODULE Broker --------------------------------
(***************************************************************************)
(* The request broker (charter-spine/broker.rs, lifecycle.rs): a ward's    *)
(* ask is recorded, published to the guardian, and answered by a signed    *)
(* grant that is consumed once and enacted.                                *)
(*                                                                         *)
(* Concurrency.  The grant, sweep and release handlers run one at a time,  *)
(* under the handler turn.  submit and cancel do not take the turn: they   *)
(* run on other threads and meet a handler at the state lock (the map in   *)
(* memory) and at the disk (no lock at all).  So a handler, a submit and a *)
(* cancel are each split where another thread can get in between.          *)
(*                                                                         *)
(* Failure.  The process may die between any two steps; what is on disk    *)
(* and the enacted effects stay, the rest is rebuilt by Broker::new.  Every*)
(* write after the submit's own is best-effort and may be lost.            *)
(*                                                                         *)
(* Abstracted: why a grant does not verify; enacting is one effect that    *)
(* happens or does not; clauses are in ClauseSlot.                         *)
(***************************************************************************)
EXTENDS Naturals, FiniteSets

CONSTANTS
  Requests,       \* request ids
  Callers,        \* local accounts that ask
  Owner,          \* who submits which request: [Requests -> Callers]
  TTL,            \* PENDING_TTL_SECS
  MaxTerminal,    \* MAX_TERMINAL_RECORDS
  MaxPending,     \* MAX_PENDING_PER_CALLER
  MaxSubmits,     \* MAX_SUBMITS_PER_HOUR
  Window,         \* SUBMIT_WINDOW_SECS
  MaxAttempts,    \* MAX_ENACT_ATTEMPTS
  MaxNow,         \* bound on the clock
  MaxCrashes,     \* bound on crashes
  MaxLost         \* bound on lost writes

ASSUME RequestsAssumption == IsFiniteSet(Requests)
ASSUME OwnerAssumption == Owner \in [Requests -> Callers]
ASSUME NumbersAssumption ==
  /\ TTL \in Nat \ {0} /\ Window \in Nat /\ MaxAttempts \in Nat \ {0}
  /\ MaxTerminal \in Nat /\ MaxPending \in Nat /\ MaxSubmits \in Nat
  /\ MaxNow \in Nat /\ MaxCrashes \in Nat /\ MaxLost \in Nat

VARIABLES
  now,         \* the wall clock
  up,          \* the daemon is running, with a broker
  mem,         \* State.requests: the record's state, "none" when absent
  disk,        \* the PendingStore
  born,        \* created_at
  submit,      \* where each request's submit_as call is
  stamped,     \* the requests behind State.submits (this run's asks)
  cancelling,  \* cancels between the state lock and their persist
  polling,     \* a poll round is under way (it began with a sweep)
  turn,        \* the handler holding the turn
  spent,       \* ConsumedIdStore: "no", or the decision that consumed it
  effects,     \* how often each request has been enacted
  published,   \* requests that have gone out to the guardian
  resolved,    \* history: requests that have been terminal in memory
  released,    \* Broker.released
  paired,      \* the pairing record on disk
  crashes, lost

vars == <<now, up, mem, disk, born, submit, stamped, cancelling, polling, turn,
          spent, effects, published, resolved, released, paired, crashes, lost>>

asks == <<born, submit, stamped, published>>           \* what only a submit changes
world == <<spent, effects, paired>>                    \* what outlives the process
counts == <<now, crashes>>

-----------------------------------------------------------------------------
(* Records. *)

TerminalStates == {"Enacted", "Denied", "Failed", "Expired", "Cancelled"}
MemStates == {"none", "Pending"} \cup TerminalStates
DiskStates == MemStates \cup {"Enacting"}
Decisions == {"allow", "deny"}

SubmitSteps == {"new", "checked", "saved", "inserted", "done"}

Free == [pc |-> "free"]
Clearing == [pc |-> "clearing"]
Handling(pc, r, state, n) == [pc |-> pc, req |-> r, state |-> state, try |-> n]
GrantSteps == {"verified", "enacting", "enacted", "resolved"}
Turns ==
  {Free, Clearing} \cup
  [pc : GrantSteps, req : Requests, state : TerminalStates \cup {"Enacting"},
   try : 0..MaxAttempts]

InFlight(r) == turn \notin {Free, Clearing} /\ turn.req = r

Terminal(m) == {r \in Requests : m[r] \in TerminalStates}
Outstanding(c) == {r \in Requests : Owner[r] = c /\ mem[r] = "Pending"}
InWindow(c) == {r \in stamped : Owner[r] = c /\ born[r] + Window >= now}

\* prune_terminal_records: the oldest terminal records beyond the cap.  Ties go
\* by the random request id, so any choice among equals.
ExcessLax(m) ==   \* Mutation: the cap is off by one.
  IF Cardinality(Terminal(m)) > MaxTerminal + 1
  THEN Cardinality(Terminal(m)) - MaxTerminal ELSE 0
Excess(m) ==
  IF Cardinality(Terminal(m)) > MaxTerminal
  THEN Cardinality(Terminal(m)) - MaxTerminal ELSE 0
VictimsAnyState(m) ==   \* Mutation: any record counts as history.
  LET R == {r \in Requests : m[r] # "none"}
      n == IF Cardinality(R) > MaxTerminal THEN Cardinality(R) - MaxTerminal ELSE 0
  IN  {V \in SUBSET R : Cardinality(V) = n /\ \A v \in V, u \in R \ V : born[v] <= born[u]}
Victims(m) ==
  {V \in SUBSET Terminal(m) :
     /\ Cardinality(V) = Excess(m)
     /\ \A v \in V, u \in Terminal(m) \ V : born[v] <= born[u]}

\* Memory becomes m and disk d, then the terminal history is pruned; n writes
\* were lost on the way, and each removal may be lost as well.
Settle(m, d, n) ==
  \E V \in Victims(m) : \E kept \in SUBSET V :
    /\ mem' = [r \in Requests |-> IF r \in V THEN "none" ELSE m[r]]
    /\ disk' = [r \in Requests |-> IF r \in V \ kept THEN "none" ELSE d[r]]
    /\ lost' = lost + n + Cardinality(kept)
    /\ lost' <= MaxLost
    /\ resolved' = resolved \cup Terminal(m)

\* expire_stale_pending_records over memory m.
Stale(m) == {r \in Requests : m[r] = "Pending" /\ born[r] + TTL <= now}
Swept(m) == [r \in Requests |-> IF r \in Stale(m) THEN "Expired" ELSE m[r]]
SaveStates(d, m, R) == [r \in Requests |-> IF r \in R THEN m[r] ELSE d[r]]

-----------------------------------------------------------------------------
Init ==
  /\ now = 0
  /\ up = TRUE
  /\ mem = [r \in Requests |-> "none"]
  /\ disk = [r \in Requests |-> "none"]
  /\ born = [r \in Requests |-> 0]
  /\ submit = [r \in Requests |-> "new"]
  /\ stamped = {}
  /\ cancelling = {}
  /\ polling = FALSE
  /\ turn = Free
  /\ spent = [r \in Requests |-> "no"]
  /\ effects = [r \in Requests |-> 0]
  /\ published = {}
  /\ resolved = {}
  /\ released = FALSE
  /\ paired = TRUE
  /\ crashes = 0
  /\ lost = 0

Tick ==
  /\ now < MaxNow
  /\ now' = now + 1
  /\ UNCHANGED <<up, mem, disk, cancelling, polling, turn, resolved, released, lost, crashes>>
  /\ UNCHANGED asks /\ UNCHANGED world

-----------------------------------------------------------------------------
(* submit_as, on its caller's thread: caps, persist (M16), insert, publish. *)

\* Mutation: the hourly cap is off by one.
WithinCapsLax(c) ==
  /\ Cardinality(Outstanding(c)) < MaxPending
  /\ Cardinality(InWindow(c)) <= MaxSubmits

WithinCaps(c) ==
  /\ Cardinality(Outstanding(c)) < MaxPending
  /\ Cardinality(InWindow(c)) < MaxSubmits

\* check_caller_caps: both counts under the state lock, the ask stamped there.
SubmitCheck(r) ==
  /\ up
  /\ submit[r] = "new"
  /\ WithinCaps(Owner[r])
  /\ now + TTL <= MaxNow           \* bound: every ask can still expire
  /\ submit' = [submit EXCEPT ![r] = "checked"]
  /\ born' = [born EXCEPT ![r] = now]
  /\ stamped' = stamped \cup {r}
  /\ UNCHANGED <<published, up, mem, disk, cancelling, polling, turn, resolved, released, lost>>
  /\ UNCHANGED world /\ UNCHANGED counts

\* Mutation: a failed write does not fail the submit.
SubmitPersistBestEffort(r) ==
  /\ up
  /\ submit[r] = "checked"
  /\ submit' = [submit EXCEPT ![r] = "saved"]
  /\ \/ disk' = [disk EXCEPT ![r] = "Pending"] /\ UNCHANGED lost
     \/ lost < MaxLost /\ lost' = lost + 1 /\ UNCHANGED disk
  /\ UNCHANGED <<born, stamped, published, up, mem, cancelling, polling, turn, resolved,
                 released>>
  /\ UNCHANGED world /\ UNCHANGED counts

\* The one write that must succeed: a failure fails the submit.
SubmitPersist(r) ==
  /\ up
  /\ submit[r] = "checked"
  /\ \/ /\ disk' = [disk EXCEPT ![r] = "Pending"]
        /\ submit' = [submit EXCEPT ![r] = "saved"]
        /\ UNCHANGED lost
     \/ /\ lost < MaxLost
        /\ lost' = lost + 1
        /\ submit' = [submit EXCEPT ![r] = "done"]
        /\ UNCHANGED disk
  /\ UNCHANGED <<born, stamped, published, up, mem, cancelling, polling, turn, resolved, released>>
  /\ UNCHANGED world /\ UNCHANGED counts

SubmitInsert(r) ==
  /\ up
  /\ submit[r] = "saved"
  /\ mem' = [mem EXCEPT ![r] = "Pending"]
  /\ submit' = [submit EXCEPT ![r] = "inserted"]
  /\ UNCHANGED <<born, stamped, published, up, disk, cancelling, polling, turn, resolved,
                 released, lost>>
  /\ UNCHANGED world /\ UNCHANGED counts

SubmitPublish(r) ==
  /\ up
  /\ submit[r] = "inserted"
  /\ published' = published \cup {r}
  /\ submit' = [submit EXCEPT ![r] = "done"]
  /\ UNCHANGED <<born, stamped, up, mem, disk, cancelling, polling, turn, resolved, released, lost>>
  /\ UNCHANGED world /\ UNCHANGED counts

-----------------------------------------------------------------------------
(* cancel, on its caller's thread. *)

CancelMark(r) ==
  /\ up
  /\ mem[r] = "Pending"
  /\ mem' = [mem EXCEPT ![r] = "Cancelled"]
  /\ resolved' = resolved \cup {r}
  /\ cancelling' = cancelling \cup {r}
  /\ UNCHANGED <<up, disk, polling, turn, released, lost>>
  /\ UNCHANGED asks /\ UNCHANGED world /\ UNCHANGED counts

\* Outside the state lock: the snapshot is persisted, the history pruned.
CancelPersist(r) ==
  /\ up
  /\ r \in cancelling
  /\ cancelling' = cancelling \ {r}
  /\ \/ Settle(mem, [disk EXCEPT ![r] = "Cancelled"], 0)
     \/ Settle(mem, disk, 1)
  /\ UNCHANGED <<up, polling, turn, released>>
  /\ UNCHANGED asks /\ UNCHANGED world /\ UNCHANGED counts

-----------------------------------------------------------------------------
(* The handlers, under the turn. *)

\* expire_stale_pending: nothing stale is an early return, without a prune.  The
\* persists that follow the state lock are folded in: nobody else touches an
\* Expired record, and a crash between them is a lost write and then a crash.
ExpireStale ==
  \/ /\ Stale(mem) = {}
     /\ UNCHANGED <<mem, disk, lost, resolved>>
  \/ /\ Stale(mem) # {}
     /\ \E failed \in SUBSET Stale(mem) :
          Settle(Swept(mem), SaveStates(disk, Swept(mem), Stale(mem) \ failed),
                 Cardinality(failed))

\* Mutation: the sweep does not take the handler turn.
PollSweepOutsideTurn ==
  /\ up
  /\ ~polling
  /\ polling' = TRUE
  /\ ExpireStale
  /\ UNCHANGED <<up, cancelling, turn, released>>
  /\ UNCHANGED asks /\ UNCHANGED world /\ UNCHANGED counts

\* A poll round begins with a sweep, under the turn ...
PollSweep ==
  /\ up
  /\ ~polling
  /\ turn = Free
  /\ polling' = TRUE
  /\ ExpireStale
  /\ UNCHANGED <<up, cancelling, turn, released>>
  /\ UNCHANGED asks /\ UNCHANGED world /\ UNCHANGED counts

\* ... and, its relay queries answered and handled, ends.
PollEnd ==
  /\ up
  /\ polling
  /\ turn = Free
  /\ polling' = FALSE
  /\ UNCHANGED <<up, mem, disk, cancelling, turn, resolved, released, lost>>
  /\ UNCHANGED asks /\ UNCHANGED world /\ UNCHANGED counts

\* Mutation: the single-use check is dropped.
ConsumeAgain(r, d) ==
  /\ spent' = [spent EXCEPT ![r] = d]
  /\ turn' = Handling("verified", r, IF d = "allow" THEN "Enacting" ELSE "Denied", 0)

\* Mutation: the reducer enacts on any verified grant.
ConsumeEnactsDeny(r, d) ==
  /\ spent[r] = "no"
  /\ spent' = [spent EXCEPT ![r] = d]
  /\ turn' = Handling("verified", r, "Enacting", 0)

\* verify_grant consumes the request durably before it returns; the reducer
\* then says Enacting or Denied, in the handler's own clone of the record.
Consume(r, d) ==
  /\ spent[r] = "no"
  /\ spent' = [spent EXCEPT ![r] = d]
  /\ turn' = Handling("verified", r, IF d = "allow" THEN "Enacting" ELSE "Denied", 0)

\* A grant pulled from a relay, some time after the round's sweep.
RelayGrant(r, d) ==
  /\ up /\ turn = Free /\ ~released
  /\ polling
  /\ r \in published                 \* the guardian must have seen the nonce
  /\ mem[r] = "Pending"
  /\ Consume(r, d)
  /\ UNCHANGED <<up, mem, disk, cancelling, polling, resolved, released, lost, effects, paired>>
  /\ UNCHANGED asks /\ UNCHANGED counts

\* A grant over the local link: swept first, in the same turn.
LocalGrant(r, d) ==
  /\ up /\ turn = Free /\ ~released
  /\ r \in published
  /\ Swept(mem)[r] = "Pending"
  /\ Consume(r, d)
  /\ ExpireStale
  /\ UNCHANGED <<up, cancelling, polling, released, effects, paired>>
  /\ UNCHANGED asks /\ UNCHANGED counts

\* A grant that does not verify (forged, expired, for another nonce, or its
\* request spent already) leaves its request Pending, but prunes on its way out;
\* a local one is preceded by the sweep, also when the grant itself is refused.
RejectGrant ==
  /\ up /\ turn = Free
  /\ \/ ~released /\ (\E r \in Requests : mem[r] = "Pending") /\ Settle(mem, disk, 0)
     \/ ExpireStale
  /\ UNCHANGED <<up, cancelling, polling, turn, released>>
  /\ UNCHANGED asks /\ UNCHANGED world /\ UNCHANGED counts

\* A best-effort persist of the handler's clone.
HandlerPersist(r, state) ==
  \/ disk' = [disk EXCEPT ![r] = state] /\ UNCHANGED lost
  \/ lost < MaxLost /\ lost' = lost + 1 /\ UNCHANGED disk

\* Mutation: Enacting is not persisted before the enactor runs.
GrantPersistSkipped ==
  /\ up
  /\ turn.pc = "verified"
  /\ turn' = [turn EXCEPT !.pc = IF turn.state = "Enacting" THEN "enacting" ELSE "resolved"]
  /\ UNCHANGED <<up, mem, disk, lost, cancelling, polling, resolved, released>>
  /\ UNCHANGED asks /\ UNCHANGED world /\ UNCHANGED counts

GrantPersist ==
  /\ up
  /\ turn.pc = "verified"
  /\ HandlerPersist(turn.req, turn.state)
  /\ turn' = [turn EXCEPT !.pc = IF turn.state = "Enacting" THEN "enacting" ELSE "resolved"]
  /\ UNCHANGED <<up, mem, cancelling, polling, resolved, released>>
  /\ UNCHANGED asks /\ UNCHANGED world /\ UNCHANGED counts

EnactSucceeds ==
  /\ up
  /\ turn.pc = "enacting"
  /\ effects' = [effects EXCEPT ![turn.req] = @ + 1]
  /\ turn' = [turn EXCEPT !.pc = "enacted", !.state = "Enacted", !.try = @ + 1]
  /\ UNCHANGED <<up, mem, disk, cancelling, polling, resolved, released, lost, spent, paired>>
  /\ UNCHANGED asks /\ UNCHANGED counts

\* Mutation: an attempt that took effect is reported transient and retried.
EnactRetriesAfterEffect ==
  /\ up
  /\ turn.pc = "enacting"
  /\ turn.try + 1 < MaxAttempts
  /\ effects' = [effects EXCEPT ![turn.req] = @ + 1]
  /\ turn' = [turn EXCEPT !.try = @ + 1]
  /\ UNCHANGED <<up, mem, disk, cancelling, polling, resolved, released, lost, spent, paired>>
  /\ UNCHANGED asks /\ UNCHANGED counts

\* Mutation: transient failures are retried without a budget.
EnactRetriesForever ==
  /\ up
  /\ turn.pc = "enacting"
  /\ turn' = [turn EXCEPT !.try = 1 - @]
  /\ UNCHANGED <<up, mem, disk, cancelling, polling, resolved, released, lost>>
  /\ UNCHANGED asks /\ UNCHANGED world /\ UNCHANGED counts

\* A transient failure is retried with the same grant until the budget is out.
EnactRetries ==
  /\ up
  /\ turn.pc = "enacting"
  /\ turn.try + 1 < MaxAttempts
  /\ turn' = [turn EXCEPT !.try = @ + 1]
  /\ UNCHANGED <<up, mem, disk, cancelling, polling, resolved, released, lost>>
  /\ UNCHANGED asks /\ UNCHANGED world /\ UNCHANGED counts

\* Mutation: a failed enact is recorded as enacted.
EnactFailsAsEnacted ==
  /\ up
  /\ turn.pc = "enacting"
  /\ turn' = [turn EXCEPT !.pc = "enacted", !.state = "Enacted", !.try = @ + 1]
  /\ UNCHANGED <<up, mem, disk, cancelling, polling, resolved, released, lost>>
  /\ UNCHANGED asks /\ UNCHANGED world /\ UNCHANGED counts

\* A terminal failure, or a transient one with the budget out.
EnactFails ==
  /\ up
  /\ turn.pc = "enacting"
  /\ turn' = [turn EXCEPT !.pc = "enacted", !.state = "Failed", !.try = @ + 1]
  /\ UNCHANGED <<up, mem, disk, cancelling, polling, resolved, released, lost>>
  /\ UNCHANGED asks /\ UNCHANGED world /\ UNCHANGED counts

OutcomePersist ==
  /\ up
  /\ turn.pc = "enacted"
  /\ HandlerPersist(turn.req, turn.state)
  /\ turn' = [turn EXCEPT !.pc = "resolved"]
  /\ UNCHANGED <<up, mem, cancelling, polling, resolved, released>>
  /\ UNCHANGED asks /\ UNCHANGED world /\ UNCHANGED counts

\* Mutation: the write-back does not re-check the live record.
WriteBackBlind(r, state) == [mem EXCEPT ![r] = state]

\* The write-back re-checks the live record: if it is no longer Pending,
\* somebody else resolved it and memory keeps that outcome.
WriteBack(r, state) ==
  IF mem[r] = "Pending" THEN [mem EXCEPT ![r] = state] ELSE mem

GrantFinish ==
  /\ up
  /\ turn.pc = "resolved"
  /\ Settle(WriteBack(turn.req, turn.state), disk, 0)
  /\ turn' = Free
  /\ UNCHANGED <<up, cancelling, polling, released>>
  /\ UNCHANGED asks /\ UNCHANGED world /\ UNCHANGED counts

\* Mutation: the release does not wait for the handler turn.
ReleaseMarkAtOnce ==
  /\ up /\ ~released
  /\ paired
  /\ released' = TRUE
  /\ UNCHANGED <<up, mem, disk, cancelling, polling, turn, resolved, lost>>
  /\ UNCHANGED asks /\ UNCHANGED world /\ UNCHANGED counts

\* on_release: refuse everything from here on, then clear the pairing.
ReleaseMark ==
  /\ up /\ turn = Free /\ ~released
  /\ paired
  /\ released' = TRUE
  /\ turn' = Clearing
  /\ UNCHANGED <<up, mem, disk, cancelling, polling, resolved, lost>>
  /\ UNCHANGED asks /\ UNCHANGED world /\ UNCHANGED counts

ReleaseClear ==
  /\ up
  /\ turn = Clearing
  /\ \/ paired' = FALSE /\ UNCHANGED lost
     \/ lost < MaxLost /\ lost' = lost + 1 /\ UNCHANGED paired
  /\ turn' = Free
  /\ UNCHANGED <<up, mem, disk, cancelling, polling, resolved, released, spent, effects>>
  /\ UNCHANGED asks /\ UNCHANGED counts

-----------------------------------------------------------------------------
(* Process life. *)

Stopped ==
  /\ up' = FALSE
  /\ mem' = [r \in Requests |-> "none"]
  /\ turn' = Free
  /\ cancelling' = {}
  /\ polling' = FALSE
  /\ stamped' = {}
  /\ released' = FALSE
  /\ submit' = [r \in Requests |-> IF submit[r] = "new" THEN "new" ELSE "done"]
  /\ UNCHANGED <<now, disk, born, published, resolved, lost>>
  /\ UNCHANGED world

Crash ==
  /\ up
  /\ crashes < MaxCrashes
  /\ crashes' = crashes + 1
  /\ Stopped

\* After a release the daemon is restarted.
RestartAfterRelease ==
  /\ up /\ released /\ turn = Free
  /\ UNCHANGED crashes
  /\ Stopped

\* Mutation: a record left Enacting is loaded as it is.
LoadedRaw == disk

\* A record left Enacting by a crash is Failed (M9).
Loaded == [r \in Requests |-> IF disk[r] = "Enacting" THEN "Failed" ELSE disk[r]]

\* Broker::new: the records are loaded, stale ones expire, then the history is
\* pruned.  Without a pairing there is no broker.
Boot ==
  /\ ~up
  /\ paired
  /\ up' = TRUE
  /\ LET changed == {r \in Requests : Swept(Loaded)[r] # disk[r]}
     IN  \E failed \in SUBSET changed :
           Settle(Swept(Loaded), SaveStates(disk, Swept(Loaded), changed \ failed),
                  Cardinality(failed))
  /\ UNCHANGED <<cancelling, polling, turn, released>>
  /\ UNCHANGED asks /\ UNCHANGED world /\ UNCHANGED counts

-----------------------------------------------------------------------------
Handler ==
  \/ \E r \in Requests, d \in Decisions : RelayGrant(r, d)
  \/ \E r \in Requests, d \in Decisions : LocalGrant(r, d)
  \/ RejectGrant
  \/ GrantPersist
  \/ EnactSucceeds
  \/ EnactRetries
  \/ EnactFails
  \/ OutcomePersist
  \/ GrantFinish
  \/ ReleaseMark
  \/ ReleaseClear

Next ==
  \/ Tick
  \/ \E r \in Requests : SubmitCheck(r)
  \/ \E r \in Requests : SubmitPersist(r)
  \/ \E r \in Requests : SubmitInsert(r)
  \/ \E r \in Requests : SubmitPublish(r)
  \/ \E r \in Requests : CancelMark(r)
  \/ \E r \in Requests : CancelPersist(r)
  \/ PollSweep
  \/ PollEnd
  \/ Handler
  \/ Crash
  \/ RestartAfterRelease
  \/ Boot

Spec == Init /\ [][Next]_vars

\* Time passes, the poll loop and every started call run on, and a stopped
\* daemon is started again by its service manager.
Fairness ==
  /\ WF_vars(Tick)
  /\ WF_vars(PollSweep)
  /\ WF_vars(PollEnd)
  /\ WF_vars(GrantPersist)
  /\ WF_vars(EnactSucceeds \/ EnactRetries \/ EnactFails)
  /\ WF_vars(OutcomePersist)
  /\ WF_vars(GrantFinish)
  /\ WF_vars(ReleaseClear)
  /\ WF_vars(Boot)

FairSpec == Spec /\ Fairness

-----------------------------------------------------------------------------
(* Properties. *)

\* Every variable has the shape the code gives it.
TypeOK ==
  /\ now \in 0..MaxNow
  /\ up \in BOOLEAN
  /\ mem \in [Requests -> MemStates]
  /\ disk \in [Requests -> DiskStates]
  /\ born \in [Requests -> 0..MaxNow]
  /\ submit \in [Requests -> SubmitSteps]
  /\ stamped \subseteq Requests
  /\ cancelling \subseteq Requests
  /\ polling \in BOOLEAN
  /\ turn \in Turns
  /\ spent \in [Requests -> Decisions \cup {"no"}]
  /\ effects \in [Requests -> Nat]
  /\ published \subseteq Requests
  /\ resolved \subseteq Requests
  /\ released \in BOOLEAN
  /\ paired \in BOOLEAN
  /\ crashes \in 0..MaxCrashes
  /\ lost \in 0..MaxLost

\* verify_grant consumes before it returns: however often a grant is delivered,
\* and wherever the process dies, one request is enacted at most once.
EnactedAtMostOnce == \A r \in Requests : effects[r] <= 1

\* Enact is producible only from an allow: nothing takes effect on a deny or
\* without a decision.
EnactedOnlyIfAllowed == \A r \in Requests : effects[r] > 0 => spent[r] = "allow"

\* M16, persist before publish: a request the guardian can have seen is on disk
\* until it has been resolved, so no crash can strand the answer to it.
PublishedIsDurable ==
  \A r \in published \ resolved : disk[r] # "none"

\* The sweep holds the turn, so it never expires a request whose grant is being
\* enacted ("memory Expired, disk Enacted, an ACK saying applied").
NeverExpiredInFlight == \A r \in Requests : InFlight(r) => mem[r] # "Expired"

\* While no write has been lost, a request shown as denied or expired was not
\* enacted, across restarts too.
UnansweredMeansNoEffect ==
  lost = 0 => \A r \in Requests : mem[r] \in {"Denied", "Expired"} => effects[r] = 0

\* A request shown as enacted was enacted.
EnactedMeansEffect == \A r \in Requests : mem[r] = "Enacted" => effects[r] = 1

\* The whole of it: an effect is an allow that was consumed, once, and what the child
\* is shown agrees with what happened.
EffectsAreRight ==
  /\ EnactedAtMostOnce
  /\ EnactedOnlyIfAllowed
  /\ UnansweredMeansNoEffect
  /\ EnactedMeansEffect

\* The terminal history stays within its cap, but for the cancels that have
\* still to prune.
HistoryBounded ==
  Cardinality(Terminal(mem)) <= MaxTerminal + Cardinality(cancelling)

\* check_caller_caps counts and stamps under one lock: no burst of concurrent
\* submits gets past the hourly cap.
SubmitsBounded ==
  \A c \in Callers :
    Cardinality({r \in stamped : Owner[r] = c /\ now <= born[r] + Window}) <= MaxSubmits

\* Neither the history of one caller nor of the machine outgrows its cap.
CapsHold == HistoryBounded /\ SubmitsBounded

\* In one run of the daemon a resolved request keeps its outcome, or is pruned.
TerminalSticks ==
  [][(up /\ up') => \A r \in Requests :
        mem[r] \in TerminalStates => mem'[r] \in {mem[r], "none"}]_vars

\* The cap never evicts a request that is still waiting: it leaves the map only
\* once it has been resolved.
PendingNeverPruned ==
  [][(up /\ up') => \A r \in Requests :
        (mem[r] = "Pending" /\ mem'[r] = "none") => r \in resolved']_vars

\* A request is resolved once, and leaves only when it is.
ResolvedOnce == TerminalSticks /\ PendingNeverPruned

\* After a release no grant is consumed and nothing is enacted.
NothingAfterRelease ==
  [][released => UNCHANGED <<spent, effects>>]_vars

\* Every published request is resolved in the end: answered, withdrawn, failed
\* or expired, through crashes, unless the machine is unpaired first.
EveryAskResolved ==
  \A r \in Requests : (r \in published) ~> (r \in resolved \/ ~paired)

\* A handler always gives the turn back.
TurnComesBack == []<>(turn = Free)

\* lifecycle.rs: a terminal state has "no further transitions"; on disk too, a
\* recorded outcome is never replaced by another.
DurableOutcomeStands ==
  [][\A r \in Requests :
        disk[r] \in TerminalStates => disk'[r] \in {disk[r], "none"}]_vars

\* MAX_PENDING_PER_CALLER: over the cap a submit is refused.
OutstandingBounded == \A c \in Callers : Cardinality(Outstanding(c)) <= MaxPending

\* The abstract promise this module implements.
Authority == INSTANCE GrantAuthority WITH asked <- published, decided <- spent
AuthoritySpec == Authority!Spec

=============================================================================
