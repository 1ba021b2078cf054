------------------------------ MODULE ClauseSlot ------------------------------
(***************************************************************************)
(* One slot of the warden's standing-clause store: the record              *)
(* `<kind>.json`, the replay-floor sidecar `floor-<kind>` beside it, and   *)
(* the broker handler that authenticates a delivered clause, puts it in    *)
(* the slot and acknowledges it (charter-sys/persistence.rs,               *)
(* charter-spine/broker.rs).  Slots never touch each other, so one slot is *)
(* the whole store.                                                        *)
(*                                                                         *)
(* A put is two atomic file writes, floor first.  The process may crash    *)
(* before, between and after them, either write may fail, and a file that  *)
(* was written may later become unreadable.  The relay delivers any signed *)
(* clause, in any order, any number of times.  An event that does not      *)
(* authenticate changes nothing and is left out.                           *)
(***************************************************************************)
EXTENDS Integers

CONSTANTS
  Stamps,     \* the issuedAt values a clause can carry (unix seconds, u64)
  Bodies,     \* the clause bodies
  SlotKind,   \* "clause": on_clause's slots; "sync": the usage-sync slot
  MaxFaults   \* bound on crashes, failed writes and unreadable files

ASSUME StampsAssumption == Stamps \subseteq Nat
ASSUME SlotKindAssumption == SlotKind \in {"clause", "sync"}
ASSUME MaxFaultsAssumption == MaxFaults \in Nat

VARIABLES
  issued,   \* the clauses the guardian has signed for this slot
  record,   \* <kind>.json
  sidecar,  \* floor-<kind>
  handler,  \* the broker handler holding the turn: where it is, on what
  ack,      \* the last acknowledgement: which clause, what became of it
  landed,   \* history: the highest issuedAt ever written as a record, or -1
  faults    \* how many faults have happened

vars == <<issued, record, sidecar, handler, ack, landed, faults>>

Clauses == [at : Stamps, body : Bodies]

-----------------------------------------------------------------------------
(* The two files. *)

Absent == [st |-> "absent"]
Torn == [st |-> "torn"]
Rec(c) == [st |-> "ok", at |-> c.at, body |-> c.body]
Records == {Absent, Torn} \cup {Rec(c) : c \in Clauses}

Floor(n) == [st |-> "ok", at |-> n]
Sidecars == {Absent, Torn} \cup {Floor(n) : n \in Stamps}

Idle == [pc |-> "idle"]
Verified(c) == [pc |-> "verified", clause |-> c]  \* verify_clause said Ok
Floored(c) == [pc |-> "floored", clause |-> c]    \* sidecar raised, store locked

Handlers == {Idle} \cup {Verified(c) : c \in Clauses} \cup {Floored(c) : c \in Clauses}

NoAck == [result |-> "none"]
AckResults == {"Applied", "Unchanged", "Superseded", "Failed"}
Acks == {NoAck} \cup [result : AckResults, clause : Clauses]

\* Mutation: an unreadable floor is flattened into "no floor".
FloorOfFlattened ==
  CASE record.st = "ok" ->
         IF sidecar.st = "ok" /\ sidecar.at > record.at THEN "sidecar" ELSE "record"
    [] record.st = "torn" /\ sidecar.st = "ok" -> "sidecar"
    [] OTHER -> "none"

\* floor_of: which file supplies the replay floor, if any.
FloorOf ==
  CASE record.st = "absent" -> "none"
    [] record.st = "torn" -> IF sidecar.st = "ok" THEN "sidecar" ELSE "unreadable"
    [] record.st = "ok" ->
         IF sidecar.st = "ok" /\ sidecar.at > record.at THEN "sidecar" ELSE "record"

\* Mutation: any sidecar that differs from the record is overwritten.
NeedsBackfillOnDifference ==
  /\ record.st = "ok"
  /\ ~(sidecar.st = "ok" /\ sidecar.at = record.at)

\* floor_of also backfills a sidecar that is missing, unreadable or below a
\* readable record; the write is best-effort.
NeedsBackfill ==
  /\ record.st = "ok"
  /\ ~(sidecar.st = "ok" /\ sidecar.at >= record.at)

FloorAt == IF FloorOf = "record" THEN record.at ELSE sidecar.at

\* Mutation: a sidecar floor is strict too.
AdmitsStrictly(at) ==
  CASE FloorOf = "none" -> TRUE
    [] FloorOf \in {"record", "sidecar"} -> at > FloorAt
    [] OTHER -> FALSE

\* ReplayFloor::admits: strictly above a record floor, at or above a sidecar's.
Admits(at) ==
  CASE FloorOf = "none" -> TRUE
    [] FloorOf = "record" -> at > record.at
    [] FloorOf = "sidecar" -> at >= sidecar.at
    [] OTHER -> FALSE

\* The bound a delivery is verified against: verify_bound for a clause, the
\* bare highest_issued_at for a usage sync.
Authenticates(at) ==
  CASE FloorOf = "none" -> TRUE
    [] FloorOf \in {"record", "sidecar"} ->
         IF SlotKind = "clause" THEN Admits(at) ELSE at > FloorAt
    [] OTHER -> FALSE

Holds(c) == record = Rec(c)

\* Mutation: only the stamp is compared with the record's.
StaleResultByStamp(c) ==
  IF SlotKind = "sync" \/ (FloorOf = "record" /\ record.st = "ok" /\ record.at = c.at)
  THEN "Unchanged" ELSE "Superseded"

\* Mutation: a stale clause that is not the held one is not classified.
StaleResultUnclassified(c) ==
  IF SlotKind = "sync" \/ (FloorOf = "record" /\ Holds(c))
  THEN "Unchanged" ELSE "none"

\* stale_clause_disposition, and the StaleTs arm of usage_sync_result.
StaleResult(c) ==
  IF SlotKind = "sync" \/ (FloorOf = "record" /\ Holds(c))
  THEN "Unchanged" ELSE "Superseded"

\* A put the store's own floor refuses: the Ok(false) arms.
RefusedPutResult == IF SlotKind = "sync" THEN "Unchanged" ELSE "Superseded"

Acked(c, result) == ack' = [result |-> result, clause |-> c]

CanFault == faults < MaxFaults
Fault == CanFault /\ faults' = faults + 1

\* Reading the floor: the backfill lands, or fails and is tried again later.
ReadFloor ==
  \/ /\ NeedsBackfill
     /\ sidecar' = Floor(record.at)
     /\ UNCHANGED faults
  \/ /\ NeedsBackfill
     /\ Fault
     /\ UNCHANGED sidecar
  \/ /\ ~NeedsBackfill
     /\ UNCHANGED <<sidecar, faults>>

-----------------------------------------------------------------------------
\* A fresh install, or one upgraded from before the sidecar existed.
Init ==
  /\ issued \in {{}} \cup {{c} : c \in Clauses}
  /\ record \in {Absent} \cup {Rec(c) : c \in issued}
  /\ sidecar = Absent
  /\ handler = Idle
  /\ ack = NoAck
  /\ landed = IF record.st = "ok" THEN record.at ELSE -1
  /\ faults = 0

\* The guardian signs a clause.  nextIssuedAt never goes back; two phones that
\* hold the guardian key can tie.
Issue(c) ==
  /\ c \notin issued
  /\ \A d \in issued : d.at <= c.at
  /\ issued' = issued \cup {c}
  /\ UNCHANGED <<record, sidecar, handler, ack, landed, faults>>

\* clause_disposition / usage_sync_result up to the verdict: the floor is read
\* under the store lock, the event verified after the lock is released.
Receive(c) ==
  /\ handler = Idle
  /\ c \in issued
  /\ ReadFloor
  /\ CASE FloorOf = "unreadable" ->
            Acked(c, "Failed") /\ UNCHANGED handler
       [] Authenticates(c.at) ->
            handler' = Verified(c) /\ UNCHANGED ack
       [] OTHER ->
            Acked(c, StaleResult(c)) /\ UNCHANGED handler
  /\ UNCHANGED <<issued, record, landed>>

\* Mutation: the put does not raise the sidecar.
PutFloorSkipped ==
  /\ handler.pc = "verified"
  /\ Admits(handler.clause.at)
  /\ handler' = Floored(handler.clause)
  /\ UNCHANGED <<issued, record, sidecar, ack, landed, faults>>

\* put_rec under the store lock: the floor is read again, then raised.
PutFloor ==
  /\ handler.pc = "verified"
  /\ Admits(handler.clause.at)
  /\ sidecar' = Floor(handler.clause.at)
  /\ handler' = Floored(handler.clause)
  /\ UNCHANGED <<issued, record, ack, landed, faults>>

\* put_rec's refusal, and an unreadable floor.
PutRefused ==
  /\ handler.pc = "verified"
  /\ ~Admits(handler.clause.at)
  /\ ReadFloor
  /\ Acked(handler.clause, IF FloorOf = "unreadable" THEN "Failed" ELSE RefusedPutResult)
  /\ handler' = Idle
  /\ UNCHANGED <<issued, record, landed>>

\* The record write, and the answer.
PutRecord ==
  /\ handler.pc = "floored"
  /\ record' = Rec(handler.clause)
  /\ landed' = IF handler.clause.at > landed THEN handler.clause.at ELSE landed
  /\ Acked(handler.clause, "Applied")
  /\ handler' = Idle
  /\ UNCHANGED <<issued, sidecar, faults>>

\* Either write fails: the put ends there, WriteFailed.
WriteFails ==
  /\ handler # Idle
  /\ handler.pc = "verified" => Admits(handler.clause.at)
  /\ Fault
  /\ Acked(handler.clause, "Failed")
  /\ handler' = Idle
  /\ UNCHANGED <<issued, record, sidecar, landed>>

\* The process dies in the middle of a handler.
Crash ==
  /\ handler # Idle
  /\ Fault
  /\ handler' = Idle
  /\ UNCHANGED <<issued, record, sidecar, ack, landed>>

\* A file goes bad on disk: a torn sector, a truncated write, an EIO.
TearRecord ==
  /\ record.st = "ok"
  /\ Fault
  /\ record' = Torn
  /\ UNCHANGED <<issued, sidecar, handler, ack, landed>>

TearSidecar ==
  /\ sidecar.st = "ok"
  /\ Fault
  /\ sidecar' = Torn
  /\ UNCHANGED <<issued, record, handler, ack, landed>>

Next ==
  \/ \E c \in Clauses : Issue(c)
  \/ \E c \in Clauses : Receive(c)
  \/ PutFloor
  \/ PutRefused
  \/ PutRecord
  \/ WriteFails
  \/ Crash
  \/ TearRecord
  \/ TearSidecar

Spec == Init /\ [][Next]_vars

\* Every poll re-reads the look-back window, so a signed clause keeps being
\* delivered; a put that began runs on.
Fairness ==
  /\ \A c \in Clauses : SF_vars(Receive(c))
  /\ WF_vars(PutFloor)
  /\ WF_vars(PutRefused)
  /\ WF_vars(PutRecord)

FairSpec == Spec /\ Fairness

-----------------------------------------------------------------------------
(* Properties. *)

Newest(c) == c \in issued /\ \A d \in issued \ {c} : d.at < c.at
FloorReadable == FloorOf # "unreadable"

\* Every variable has the shape the code gives it.
TypeOK ==
  /\ issued \subseteq Clauses
  /\ record \in Records
  /\ sidecar \in Sidecars
  /\ handler \in Handlers
  /\ ack \in Acks
  /\ landed \in Stamps \cup {-1}
  /\ faults \in 0..MaxFaults

\* put_clause's rollback protection: a record the warden can read is never
\* older than one it already enforced, through crashes, failed writes and
\* records that went bad in between (the floor survives the record).
NoRollback == record.st = "ok" => record.at >= landed

\* The sidecar never falls below what has landed: what replay protection rests
\* on once the record itself cannot be read (floor first, then the record).
SidecarCovers == sidecar.st = "ok" => sidecar.at >= landed

\* The guardian's newest clause is never locked out: with a readable floor it
\* is held, or the next delivery of it verifies (the ReplayFloor::Sidecar
\* re-send).
NewestAdmissible ==
  \A c \in issued :
    (Newest(c) /\ FloorReadable) => (Holds(c) \/ Authenticates(c.at))

\* The floor a delivery is held against is right on both sides: it covers what has
\* landed, and it does not lock the newest clause out.
FloorIsRight == SidecarCovers /\ NewestAdmissible

\* An Unchanged acknowledgement means the slot holds that very clause.
UnchangedIsHeld ==
  [][(ack' # ack /\ ack'.result = "Unchanged") => Holds(ack'.clause)]_vars

\* A Superseded acknowledgement means the guardian signed another clause at or
\* above it: the only, newest clause is never called superseded.
SupersededIsBeaten ==
  [][(ack' # ack /\ ack'.result = "Superseded")
       => \E d \in issued \ {ack'.clause} : d.at >= ack'.clause.at]_vars

\* Once a record exists, the sidecar only rises (lowering it would let an older
\* clause in beneath the one that raised it).
SidecarOnlyRises ==
  [][(record.st # "absent" /\ sidecar.st = "ok" /\ sidecar'.st = "ok")
       => sidecar'.at >= sidecar.at]_vars

\* What the guardian is told is so, and the floor that says it only rises.
AnswersAreTrue == UnchangedIsHeld /\ SupersededIsBeaten /\ SidecarOnlyRises

\* put_rec says a floor left above the record by a crash "refuses anything
\* older": the sidecar is never lowered, also before the first record lands.
CrashFloorRefusesOlder ==
  [][(sidecar.st = "ok" /\ sidecar'.st = "ok") => sidecar'.at >= sidecar.at]_vars

\* usage_sync_result says a stale authentic sync means "the device already
\* holds this view or a newer one".
StaleSyncIsHeld ==
  [][(ack' # ack /\ ack'.result = "Unchanged")
       => (record.st = "ok" /\ record.at >= ack'.clause.at)]_vars

\* Once faults stop, the guardian's newest clause reaches the slot and stays,
\* unless both files are unreadable (then the slot refuses everything).
NewestLands ==
  <>[](\A c \in issued : Newest(c) => (Holds(c) \/ ~FloorReadable))

=============================================================================
