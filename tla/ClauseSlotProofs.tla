--------------------------- MODULE ClauseSlotProofs ---------------------------
(***************************************************************************)
(* Replay protection of the clause store, for every set of stamps and      *)
(* bodies and any number of crashes, failed writes and unreadable files.   *)
(*                                                                         *)
(* None of the invariants is inductive alone.  That a readable record is   *)
(* never below what landed needs the sidecar to cover what landed (the     *)
(* record may be torn when the next clause is judged), and that needs to   *)
(* know that a put past its floor write carries a clause at or above both. *)
(*                                                                         *)
(* Then the clause that updates the daemon, from the slot to the install   *)
(* (SelfUpdate): nothing runs that was not asked for and announced, and    *)
(* nothing is tried twice in a window.  A round of the updater gives way   *)
(* at each await, and holds the record it read.  The invariant says that   *)
(* the record on disk is still of its version (RoundInv), that a version   *)
(* attempted in this window is that of the record, whose window is open    *)
(* (KeptInv), and that whatever is staged was announced (StagedInv).       *)
(***************************************************************************)
EXTENDS ClauseSlot, DeviceLive, Sequences, FiniteSetTheorems, TLAPS

\* With no record nothing has landed; a readable record is the newest that has.
RecordIsLanded ==
  /\ record.st = "absent" => landed = -1
  /\ record.st = "ok" => record.at = landed

\* A put that has raised the sidecar goes on to write something no older, and
\* the sidecar (while readable) is still the one it wrote.
FlooredIsNewer ==
  handler.pc = "floored" =>
    /\ handler.clause.at >= landed
    /\ sidecar.st = "ok" => sidecar.at = handler.clause.at

\* Whatever is stored, or about to be, the guardian signed.
StoredIsIssued ==
  /\ record.st = "ok" => \E c \in issued : record = Rec(c)
  /\ sidecar.st = "ok" => \E c \in issued : c.at = sidecar.at
  /\ handler # Idle => handler.clause \in issued

ReplayInv ==
  /\ TypeOK
  /\ RecordIsLanded
  /\ SidecarCovers
  /\ FlooredIsNewer
  /\ StoredIsIssued

\* What the store's floor admits is no older than anything that has landed.
LEMMA AdmittedIsNewer ==
  ASSUME TypeOK, RecordIsLanded, SidecarCovers, NEW n \in Stamps, Admits(n)
  PROVE  n >= landed
BY StampsAssumption
DEF TypeOK, RecordIsLanded, SidecarCovers, Admits, FloorOf, Records, Sidecars,
    Absent, Torn, Rec, Floor, Clauses

\* Reading the floor leaves the sidecar alone or rebuilds it from the record.
LEMMA ReadFloorEffect ==
  ASSUME ReadFloor
  PROVE  \/ sidecar' = sidecar
         \/ record.st = "ok" /\ sidecar' = Floor(record.at)
BY DEF ReadFloor, NeedsBackfill

LEMMA StampsAreInts == \A n \in Stamps : n \in Int
BY StampsAssumption

LEMMA LandedIsInt == TypeOK => landed \in Int
BY StampsAreInts DEF TypeOK

LEMMA ReadFloorFaults ==
  ASSUME TypeOK, ReadFloor
  PROVE  faults' \in 0..MaxFaults
BY MaxFaultsAssumption DEF ReadFloor, TypeOK, Fault, CanFault

\* The sidecar parts of the invariant through a floor read.
LEMMA ReadFloorKeeps ==
  ASSUME ReplayInv, ReadFloor, UNCHANGED <<issued, record, landed>>
  PROVE  /\ sidecar' \in Sidecars
         /\ SidecarCovers'
         /\ sidecar'.st = "ok" => \E c \in issued : c.at = sidecar'.at
<1>1. CASE sidecar' = sidecar
  BY <1>1 DEF ReplayInv, TypeOK, SidecarCovers, StoredIsIssued
<1>2. CASE record.st = "ok" /\ sidecar' = Floor(record.at)
  <2>1. PICK c \in issued : record = Rec(c)
    BY <1>2 DEF ReplayInv, StoredIsIssued
  <2>2. c \in Clauses /\ c.at \in Stamps /\ record.at = c.at
    BY <2>1 DEF ReplayInv, TypeOK, Clauses, Rec
  <2>3. landed = record.at
    BY <1>2 DEF ReplayInv, RecordIsLanded
  <2>4. sidecar' = [st |-> "ok", at |-> c.at]
    BY <1>2, <2>2 DEF Floor
  <2>5. sidecar' \in Sidecars
    BY <2>2, <2>4 DEF Sidecars, Floor
  <2>6. SidecarCovers'
    <3>1. c.at \in Int /\ landed' = c.at /\ sidecar'.at = c.at
      BY <2>2, <2>3, <2>4, StampsAreInts
    <3> QED BY <3>1 DEF SidecarCovers
  <2> QED
    BY <2>4, <2>5, <2>6
<1> QED
  BY <1>1, <1>2, ReadFloorEffect

LEMMA InitReplay == Init => ReplayInv
<1> SUFFICES ASSUME Init PROVE ReplayInv
  OBVIOUS
<1>1. TypeOK
  BY StampsAssumption, MaxFaultsAssumption
  DEF Init, TypeOK, Records, Sidecars, Handlers, Acks, Absent, Torn, Rec, Clauses
<1>2. RecordIsLanded
  BY DEF Init, RecordIsLanded, Absent, Rec
<1>3. SidecarCovers /\ FlooredIsNewer /\ StoredIsIssued
  BY DEF Init, SidecarCovers, FlooredIsNewer, StoredIsIssued, Absent, Idle, Rec
<1> QED
  BY <1>1, <1>2, <1>3 DEF ReplayInv

LEMMA NextReplay == ReplayInv /\ [Next]_vars => ReplayInv'
<1> SUFFICES ASSUME ReplayInv, [Next]_vars PROVE ReplayInv'
  OBVIOUS
<1> USE StampsAssumption
<1>1. ASSUME NEW c \in Clauses, Issue(c) PROVE ReplayInv'
  <2>1. TypeOK' /\ RecordIsLanded' /\ SidecarCovers' /\ FlooredIsNewer'
    BY <1>1 DEF Issue, ReplayInv, TypeOK, RecordIsLanded, SidecarCovers, FlooredIsNewer
  <2>2. StoredIsIssued'
    BY <1>1 DEF Issue, ReplayInv, StoredIsIssued
  <2> QED BY <2>1, <2>2 DEF ReplayInv
<1>2. ASSUME NEW c \in Clauses, Receive(c) PROVE ReplayInv'
  <2>0. /\ UNCHANGED <<issued, record, landed>>
        /\ ReadFloor
        /\ c \in issued
        /\ handler = Idle
        /\ \/ handler' = Idle /\ \E r \in AckResults : Acked(c, r)
           \/ handler' = Verified(c) /\ ack' = ack
    BY <1>2 DEF Receive, StaleResult, AckResults
  <2>1. sidecar' \in Sidecars /\ SidecarCovers'
        /\ (sidecar'.st = "ok" => \E d \in issued : d.at = sidecar'.at)
    BY <2>0, ReadFloorKeeps
  <2>2. faults' \in 0..MaxFaults
    BY <2>0, ReadFloorFaults DEF ReplayInv
  <2>3. handler' \in Handlers /\ ack' \in Acks
    BY <2>0 DEF Handlers, Acks, Acked, AckResults, ReplayInv, TypeOK
  <2>4. TypeOK'
    BY <2>0, <2>1, <2>2, <2>3 DEF TypeOK, ReplayInv
  <2>5. RecordIsLanded' /\ FlooredIsNewer'
    BY <2>0 DEF RecordIsLanded, FlooredIsNewer, ReplayInv, Idle, Verified
  <2>6. StoredIsIssued'
    BY <2>0, <2>1 DEF StoredIsIssued, ReplayInv, Idle, Verified
  <2> QED BY <2>1, <2>4, <2>5, <2>6 DEF ReplayInv
<1>3. CASE PutFloor
  <2>1. PICK c \in Clauses : handler = Verified(c)
    BY <1>3 DEF PutFloor, ReplayInv, TypeOK, Handlers, Idle, Verified, Floored
  <2>2. c.at \in Stamps /\ handler.clause = c
    BY <2>1 DEF Clauses, Verified
  <2>3. c.at >= landed
    BY <1>3, <2>2, AdmittedIsNewer DEF PutFloor, ReplayInv
  <2>4. c \in issued
    BY <2>1, <2>2 DEF ReplayInv, StoredIsIssued, Idle, Verified
  <2>5. TypeOK'
    BY <1>3, <2>1, <2>2 DEF PutFloor, ReplayInv, TypeOK, Sidecars, Handlers
  <2>6. RecordIsLanded' /\ SidecarCovers' /\ FlooredIsNewer'
    BY <1>3, <2>2, <2>3
    DEF PutFloor, ReplayInv, RecordIsLanded, SidecarCovers, FlooredIsNewer, Floor, Floored
  <2>7. StoredIsIssued'
    BY <1>3, <2>2, <2>4 DEF PutFloor, ReplayInv, StoredIsIssued, Floor, Floored, Idle
  <2> QED BY <2>5, <2>6, <2>7 DEF ReplayInv
<1>4. CASE PutRefused
  <2>0. /\ UNCHANGED <<issued, record, landed>>
        /\ ReadFloor
        /\ handler' = Idle
        /\ \E r \in AckResults : Acked(handler.clause, r)
        /\ handler.clause \in Clauses
    BY <1>4 DEF PutRefused, RefusedPutResult, AckResults, ReplayInv, TypeOK, Handlers,
                Idle, Verified, Floored
  <2>1. sidecar' \in Sidecars /\ SidecarCovers'
        /\ (sidecar'.st = "ok" => \E d \in issued : d.at = sidecar'.at)
    BY <2>0, ReadFloorKeeps
  <2>2. faults' \in 0..MaxFaults
    BY <2>0, ReadFloorFaults DEF ReplayInv
  <2>3. TypeOK'
    BY <2>0, <2>1, <2>2 DEF TypeOK, ReplayInv, Handlers, Acks, Acked
  <2>4. RecordIsLanded' /\ FlooredIsNewer'
    BY <2>0 DEF RecordIsLanded, FlooredIsNewer, ReplayInv, Idle
  <2>5. StoredIsIssued'
    BY <2>0, <2>1 DEF StoredIsIssued, ReplayInv
  <2> QED BY <2>1, <2>3, <2>4, <2>5 DEF ReplayInv
<1>5. CASE PutRecord
  <2>1. PICK c \in Clauses : handler = Floored(c)
    BY <1>5 DEF PutRecord, ReplayInv, TypeOK, Handlers, Idle, Verified, Floored
  <2>2. c.at \in Stamps /\ handler.clause = c /\ c.at >= landed /\ c \in issued
    BY <2>1 DEF Clauses, Floored, ReplayInv, FlooredIsNewer, StoredIsIssued, Idle
  <2>3. landed' = c.at
    <3>1. landed \in Int /\ c.at \in Int
      BY <2>2, LandedIsInt, StampsAreInts DEF ReplayInv
    <3>2. landed' = IF c.at > landed THEN c.at ELSE landed
      BY <1>5, <2>2 DEF PutRecord
    <3> QED BY <2>2, <3>1, <3>2
  <2>4. record' = Rec(c) /\ handler' = Idle /\ UNCHANGED <<issued, sidecar, faults>>
        /\ Acked(c, "Applied")
    BY <1>5, <2>2 DEF PutRecord
  <2>5. TypeOK'
    BY <2>2, <2>3, <2>4 DEF ReplayInv, TypeOK, Records, Handlers, Acks, Acked, AckResults
  <2>6. RecordIsLanded' /\ FlooredIsNewer'
    BY <2>2, <2>3, <2>4 DEF RecordIsLanded, FlooredIsNewer, Rec, Idle
  <2>7. StoredIsIssued'
    BY <2>2, <2>4 DEF ReplayInv, StoredIsIssued
  <2>8. SidecarCovers'
    <3>1. sidecar.st = "ok" => sidecar.at = c.at
      BY <2>1, <2>2 DEF ReplayInv, FlooredIsNewer, Floored
    <3>2. c.at \in Int
      BY <2>2, StampsAreInts
    <3> QED BY <3>1, <3>2, <2>3, <2>4 DEF SidecarCovers
  <2> QED BY <2>5, <2>6, <2>7, <2>8 DEF ReplayInv
<1>6. CASE WriteFails \/ Crash
  <2>1. /\ handler' = Idle
        /\ UNCHANGED <<issued, record, sidecar, landed>>
        /\ faults' \in 0..MaxFaults
        /\ ack' \in Acks
    BY <1>6, MaxFaultsAssumption
    DEF WriteFails, Crash, Fault, CanFault, Acked, Acks, AckResults, ReplayInv, TypeOK,
        Handlers, Idle, Verified, Floored
  <2> QED
    BY <2>1 DEF ReplayInv, TypeOK, Handlers, RecordIsLanded, SidecarCovers,
                FlooredIsNewer, StoredIsIssued, Idle
<1>7. CASE TearRecord \/ TearSidecar
  <2>1. /\ UNCHANGED <<issued, handler, ack, landed>>
        /\ faults' \in 0..MaxFaults
        /\ \/ record.st = "ok" /\ record' = Torn /\ sidecar' = sidecar
           \/ record' = record /\ sidecar' = Torn
    BY <1>7, MaxFaultsAssumption
    DEF TearRecord, TearSidecar, Fault, CanFault, ReplayInv, TypeOK
  <2>2. TypeOK'
    BY <2>1 DEF ReplayInv, TypeOK, Records, Sidecars
  <2>3. RecordIsLanded' /\ SidecarCovers' /\ FlooredIsNewer' /\ StoredIsIssued'
    BY <2>1 DEF ReplayInv, RecordIsLanded, SidecarCovers, FlooredIsNewer,
                StoredIsIssued, Torn
  <2> QED BY <2>2, <2>3 DEF ReplayInv
<1>8. CASE UNCHANGED vars
  BY <1>8 DEF vars, ReplayInv, TypeOK, RecordIsLanded, SidecarCovers, FlooredIsNewer,
              StoredIsIssued
<1> QED
  BY <1>1, <1>2, <1>3, <1>4, <1>5, <1>6, <1>7, <1>8 DEF Next

\* Sidecar, record and floor of a slot stay in the order that refuses replays, whatever is
\* delivered and whenever the process dies (put_rec, read_floor).
THEOREM ReplayInvariant == Spec => []ReplayInv
BY InitReplay, NextReplay, PTL DEF Spec

\* Whatever happens to the process and its files, the clause store's variables
\* keep their shape.
THEOREM TypeCorrect == Spec => []TypeOK
<1>1. ReplayInv => TypeOK
  BY DEF ReplayInv
<1> QED
  BY <1>1, ReplayInvariant, PTL

\* put_clause never rolls a slot back: a readable record is never older than
\* one that has been in force, whatever crashed or went bad in between.
THEOREM NeverRolledBack == Spec => []NoRollback
<1>1. ReplayInv => NoRollback
  BY StampsAssumption DEF ReplayInv, RecordIsLanded, NoRollback, TypeOK
<1> QED
  BY <1>1, ReplayInvariant, PTL

\* The floor-first order of put_rec: the sidecar always covers what landed.
THEOREM SidecarAlwaysCovers == Spec => []SidecarCovers
<1>1. ReplayInv => SidecarCovers
  BY DEF ReplayInv
<1> QED
  BY <1>1, ReplayInvariant, PTL

\* The re-send rule of ReplayFloor::Sidecar: in a clause slot the guardian's
\* newest clause is held, or its next delivery verifies.
THEOREM NewestNeverLockedOut ==
  ASSUME SlotKind = "clause"
  PROVE  Spec => []NewestAdmissible
<1>1. ASSUME ReplayInv PROVE NewestAdmissible
  <2> SUFFICES ASSUME NEW c \in issued, Newest(c), FloorReadable, ~Holds(c)
               PROVE  Authenticates(c.at)
    BY DEF NewestAdmissible
  <2>1. \A d \in issued : d.at \in Int
    BY <1>1, StampsAreInts DEF ReplayInv, TypeOK, Clauses
  <2>2. \A d \in issued : d = c \/ d.at < c.at
    BY DEF Newest
  <2>3. record.st = "ok" => record.at < c.at
    <3> SUFFICES ASSUME record.st = "ok" PROVE record.at < c.at
      OBVIOUS
    <3>1. PICK d \in issued : record = Rec(d)
      BY <1>1 DEF ReplayInv, StoredIsIssued
    <3> QED
      <4>1. d # c
        BY <3>1 DEF Holds
      <4>2. record.at = d.at
        BY <3>1 DEF Rec
      <4> QED BY <4>1, <4>2, <2>2
  <2>4. sidecar.st = "ok" => sidecar.at <= c.at
    BY <1>1, <2>1, <2>2 DEF ReplayInv, StoredIsIssued
  <2>5. record.st \in {"absent", "torn", "ok"}
    BY <1>1 DEF ReplayInv, TypeOK, Records, Absent, Torn, Rec
  <2>6. CASE FloorOf = "none"
    BY <2>6 DEF Authenticates
  <2>7. CASE FloorOf = "record"
    <3>1. record.st = "ok"
      BY <2>5, <2>7 DEF FloorOf
    <3>2. Admits(c.at)
      BY <2>3, <2>7, <3>1 DEF Admits
    <3> QED BY <2>7, <3>2 DEF Authenticates
  <2>8. CASE FloorOf = "sidecar"
    <3>1. sidecar.st = "ok"
      BY <2>5, <2>8 DEF FloorOf
    <3>2. PICK d \in issued : d.at = sidecar.at
      BY <1>1, <3>1 DEF ReplayInv, StoredIsIssued
    <3>3. c.at >= sidecar.at
      BY <2>1, <2>2, <3>2
    <3>4. Admits(c.at)
      BY <2>8, <3>3 DEF Admits
    <3> QED BY <2>8, <3>4 DEF Authenticates
  <2> QED
    BY <2>5, <2>6, <2>7, <2>8 DEF FloorOf, FloorReadable
<1> QED
  BY <1>1, ReplayInvariant, PTL

\* Both sides of the floor: it covers what landed, and admits the newest clause.
THEOREM FloorAlwaysRight ==
  ASSUME SlotKind = "clause"
  PROVE  Spec => []FloorIsRight
<1>1. SidecarCovers /\ NewestAdmissible => FloorIsRight
  BY DEF FloorIsRight
<1> QED
  BY <1>1, SidecarAlwaysCovers, NewestNeverLockedOut, PTL

-----------------------------------------------------------------------------
(* What the guardian is told. *)

\* While a verified clause waits for its put, nothing but a fault moves the two
\* files: it stays above a readable record, and not below a readable sidecar.
VerifiedIsAdmitted ==
  handler.pc = "verified" =>
    /\ record.st = "ok" => handler.clause.at > record.at
    /\ record.st # "absent" /\ sidecar.st = "ok" => handler.clause.at >= sidecar.at

AnswerInv == ReplayInv /\ VerifiedIsAdmitted

\* The stamps of what is stored and of what is in hand are numbers, of clauses the
\* guardian signed.
LEMMA StoredStamps ==
  ASSUME ReplayInv
  PROVE  /\ record.st \in {"absent", "torn", "ok"} /\ sidecar.st \in {"absent", "torn", "ok"}
         /\ \A d \in issued : d.at \in Int
         /\ record.st = "ok" =>
              record.at \in Int /\ \E d \in issued : record = Rec(d) /\ d.at = record.at
         /\ sidecar.st = "ok" => sidecar.at \in Int /\ \E d \in issued : d.at = sidecar.at
<1>1. \A d \in issued : d.at \in Int
  BY StampsAreInts DEF ReplayInv, TypeOK, Clauses
<1>2. record.st \in {"absent", "torn", "ok"} /\ sidecar.st \in {"absent", "torn", "ok"}
  BY DEF ReplayInv, TypeOK, Records, Sidecars, Absent, Torn, Rec, Floor
<1>3. record.st = "ok" => \E d \in issued : record = Rec(d) /\ d.at = record.at
  BY DEF ReplayInv, StoredIsIssued, Rec
<1>4. sidecar.st = "ok" => \E d \in issued : d.at = sidecar.at
  BY DEF ReplayInv, StoredIsIssued
<1> QED
  BY <1>1, <1>2, <1>3, <1>4

\* What a clause the floor admits is above.
LEMMA AdmittedIsAbove ==
  ASSUME ReplayInv, NEW n \in Int, Admits(n)
  PROVE  /\ record.st = "ok" => n > record.at
         /\ record.st # "absent" /\ sidecar.st = "ok" => n >= sidecar.at
<1>1. /\ record.st \in {"absent", "torn", "ok"}
      /\ record.st = "ok" => record.at \in Int
      /\ sidecar.st = "ok" => sidecar.at \in Int
  BY StoredStamps
<1>2. CASE record.st = "absent"
  BY <1>2
<1>3. CASE record.st = "torn"
  BY <1>3 DEF Admits, FloorOf
<1>4. CASE record.st = "ok" /\ sidecar.st = "ok" /\ sidecar.at > record.at
  <2>1. n >= sidecar.at
    BY <1>4 DEF Admits, FloorOf
  <2> QED
    BY <1>1, <1>4, <2>1
<1>5. CASE record.st = "ok" /\ ~(sidecar.st = "ok" /\ sidecar.at > record.at)
  <2>1. n > record.at
    BY <1>5 DEF Admits, FloorOf
  <2> QED
    BY <1>1, <1>5, <2>1
<1> QED
  BY <1>1, <1>2, <1>3, <1>4, <1>5

\* A floor read never lowers a readable sidecar.
LEMMA ReadFloorRaises ==
  ASSUME ReplayInv, ReadFloor
  PROVE  /\ sidecar.st = "ok" /\ sidecar'.st = "ok" => sidecar'.at >= sidecar.at
         /\ sidecar' = sidecar \/ (record.st = "ok" /\ sidecar'.at = record.at)
<1>1. /\ record.st = "ok" => record.at \in Int
      /\ sidecar.st = "ok" => sidecar.at \in Int
  BY StoredStamps
<1>2. CASE sidecar' = sidecar
  BY <1>1, <1>2
<1>3. CASE NeedsBackfill /\ sidecar' = Floor(record.at)
  <2>1. record.st = "ok" /\ ~(sidecar.st = "ok" /\ sidecar.at >= record.at)
    BY <1>3 DEF NeedsBackfill
  <2>2. sidecar'.at = record.at
    BY <1>3 DEF Floor
  <2> QED
    BY <1>1, <2>1, <2>2
<1> QED
  BY <1>2, <1>3 DEF ReadFloor

LEMMA NextVerified ==
  ASSUME SlotKind = "clause", AnswerInv, [Next]_vars
  PROVE  VerifiedIsAdmitted'
<1> USE DEF AnswerInv
<1>1. ASSUME NEW c \in Clauses, Issue(c) PROVE VerifiedIsAdmitted'
  BY <1>1 DEF Issue, VerifiedIsAdmitted
<1>2. ASSUME NEW c \in Clauses, Receive(c) PROVE VerifiedIsAdmitted'
  <2>1. CASE handler' = Idle
    BY <2>1 DEF VerifiedIsAdmitted, Idle
  <2>2. CASE handler' = Verified(c) /\ Authenticates(c.at)
    <3>1. Admits(c.at)
      BY <2>2 DEF Authenticates, Admits
    <3>2. c.at \in Int /\ handler'.clause = c
      BY <2>2, StampsAreInts DEF Clauses, Verified
    <3>3. /\ record.st = "ok" => c.at > record.at
          /\ record.st # "absent" /\ sidecar.st = "ok" => c.at >= sidecar.at
      BY <3>1, <3>2, AdmittedIsAbove
    <3>4. record' = record /\ ReadFloor
      BY <1>2 DEF Receive
    <3>5. sidecar' = sidecar \/ (record.st = "ok" /\ sidecar'.at = record.at)
      BY <3>4, ReadFloorRaises
    <3>6. record.st = "ok" => record.at \in Int
      BY StoredStamps
    <3> QED
      BY <3>2, <3>3, <3>4, <3>5, <3>6 DEF VerifiedIsAdmitted
  <2> QED
    BY <1>2, <2>1, <2>2 DEF Receive, Authenticates
<1>3. CASE PutFloor
  BY <1>3 DEF PutFloor, VerifiedIsAdmitted, Floored
<1>4. CASE PutRefused \/ PutRecord \/ WriteFails \/ Crash
  BY <1>4 DEF PutRefused, PutRecord, WriteFails, Crash, VerifiedIsAdmitted, Idle
<1>5. CASE TearRecord \/ TearSidecar
  BY <1>5 DEF TearRecord, TearSidecar, VerifiedIsAdmitted, Torn
<1>6. CASE UNCHANGED vars
  BY <1>6 DEF vars, VerifiedIsAdmitted
<1> QED
  BY <1>1, <1>2, <1>3, <1>4, <1>5, <1>6 DEF Next

LEMMA AnswersHold == ASSUME SlotKind = "clause" PROVE Spec => []AnswerInv
<1>1. Init => AnswerInv
  BY InitReplay DEF Init, AnswerInv, VerifiedIsAdmitted, Idle
<1>2. AnswerInv /\ [Next]_vars => AnswerInv'
  BY NextReplay, NextVerified DEF AnswerInv
<1> QED
  BY <1>1, <1>2, PTL DEF Spec

\* A verified clause the put's own reading of the floor refuses is refused because
\* that floor cannot be read, and is answered so.
LEMMA RefusalIsFailure ==
  ASSUME AnswerInv, PutRefused
  PROVE  FloorOf = "unreadable"
<1>1. /\ handler.clause.at \in Int
      /\ record.st \in {"absent", "torn", "ok"}
      /\ record.st = "ok" => handler.clause.at > record.at
      /\ record.st # "absent" /\ sidecar.st = "ok" => handler.clause.at >= sidecar.at
  <2>1. handler # Idle
    BY DEF PutRefused, Idle
  <2>2. handler.clause \in issued
    BY <2>1 DEF AnswerInv, ReplayInv, StoredIsIssued
  <2> QED
    BY <2>2, StoredStamps DEF AnswerInv, VerifiedIsAdmitted, PutRefused
<1>2. ~Admits(handler.clause.at)
  BY DEF PutRefused
<1> QED
  BY <1>1, <1>2 DEF Admits, FloorOf

\* What an acknowledgement that says a clause is held, or beaten, rests on.
AnsweredTruly ==
  /\ ack'.result = "Unchanged" => Holds(ack'.clause)
  /\ ack'.result = "Superseded" => \E d \in issued \ {ack'.clause} : d.at >= ack'.clause.at

LEMMA ReceiveAnswers ==
  ASSUME SlotKind = "clause", AnswerInv, NEW c \in Clauses, Receive(c), ack' # ack
  PROVE  AnsweredTruly
<1>1. CASE FloorOf = "unreadable"
  BY <1>1 DEF Receive, Acked, AnsweredTruly
<1>2. CASE FloorOf # "unreadable" /\ ~Authenticates(c.at)
  <2>1. ack' = [result |-> StaleResult(c), clause |-> c]
    BY <1>2 DEF Receive, Acked
  <2>2. CASE FloorOf = "record" /\ Holds(c)
    BY <2>1, <2>2 DEF StaleResult, AnsweredTruly
  <2>3. CASE ~(FloorOf = "record" /\ Holds(c))
    <3>1. ~Admits(c.at)
      BY <1>2 DEF Authenticates, Admits
    <3>2. c.at \in Int
      BY StampsAreInts DEF Clauses
    <3>3. /\ record.st \in {"absent", "torn", "ok"}
          /\ \A d \in issued : d.at \in Int
          /\ record.st = "ok" =>
               record.at \in Int /\ \E d \in issued : record = Rec(d) /\ d.at = record.at
          /\ sidecar.st = "ok" => sidecar.at \in Int /\ \E d \in issued : d.at = sidecar.at
      BY StoredStamps DEF AnswerInv
    <3>4. \E d \in issued \ {c} : d.at >= c.at
      <4>1. CASE FloorOf = "record"
        <5>1. record.st = "ok"
          BY <3>3, <4>1 DEF FloorOf
        <5>2. PICK d \in issued : record = Rec(d) /\ d.at = record.at
          BY <3>3, <5>1
        <5>3. c.at <= d.at /\ d # c
          BY <2>3, <3>1, <3>2, <3>3, <4>1, <5>1, <5>2 DEF Admits, Holds
        <5> QED
          BY <3>2, <5>2, <5>3
      <4>2. CASE FloorOf = "sidecar"
        <5>1. sidecar.st = "ok"
          BY <3>3, <4>2 DEF FloorOf
        <5>2. PICK d \in issued : d.at = sidecar.at
          BY <3>3, <5>1
        <5>3. c.at < d.at
          BY <3>1, <3>2, <3>3, <4>2, <5>1, <5>2 DEF Admits
        <5> QED
          BY <3>2, <3>3, <5>2, <5>3
      <4> QED
        BY <1>2, <3>1, <3>3, <4>1, <4>2 DEF Admits, FloorOf
    <3> QED
      BY <2>1, <2>3, <3>4 DEF StaleResult, AnsweredTruly
  <2> QED
    BY <2>2, <2>3
<1> QED
  BY <1>1, <1>2 DEF Receive

LEMMA StepAnswers ==
  ASSUME SlotKind = "clause", AnswerInv, Next, ack' # ack
  PROVE  AnsweredTruly
<1>1. CASE \E c \in Clauses : Receive(c)
  BY <1>1, ReceiveAnswers
<1>2. CASE PutRefused
  BY <1>2, RefusalIsFailure DEF PutRefused, Acked, AnsweredTruly
<1>3. CASE PutRecord \/ WriteFails
  BY <1>3 DEF PutRecord, WriteFails, Acked, AnsweredTruly
<1> QED
  BY <1>1, <1>2, <1>3 DEF Next, Issue, PutFloor, Crash, TearRecord, TearSidecar

LEMMA StepRaises ==
  ASSUME ReplayInv, Next, record.st # "absent", sidecar.st = "ok", sidecar'.st = "ok"
  PROVE  sidecar'.at >= sidecar.at
<1>1. sidecar.at \in Int
  BY StoredStamps
<1>2. CASE PutRefused \/ \E c \in Clauses : Receive(c)
  BY <1>2, ReadFloorRaises DEF PutRefused, Receive
<1>3. CASE PutFloor
  <2>1. handler.clause \in issued
    BY <1>3 DEF PutFloor, ReplayInv, StoredIsIssued, Idle
  <2>2. handler.clause.at \in Int
    BY <2>1, StoredStamps
  <2>3. handler.clause.at >= sidecar.at
    BY <1>3, <2>2, AdmittedIsAbove DEF PutFloor
  <2> QED
    BY <1>3, <2>3 DEF PutFloor, Floor
<1>4. CASE sidecar' = sidecar
  BY <1>1, <1>4
<1> QED
  BY <1>2, <1>3, <1>4
  DEF Next, Issue, PutRecord, WriteFails, Crash, TearRecord, TearSidecar, Torn

\* put_rec and floor_of never lower a readable sidecar once a record exists, of either
\* kind of slot: no older clause comes in beneath the one that raised it.
THEOREM SidecarNeverFalls == Spec => SidecarOnlyRises
<1>1. ReplayInv /\ [Next]_vars =>
        [(record.st # "absent" /\ sidecar.st = "ok" /\ sidecar'.st = "ok")
           => sidecar'.at >= sidecar.at]_vars
  BY StepRaises
<1> QED
  BY <1>1, ReplayInvariant, PTL DEF Spec, SidecarOnlyRises

\* What clause_disposition tells the guardian is so: Unchanged, that the slot holds
\* that very clause, and Superseded, that another was signed at or above it.
THEOREM AnswersAlwaysTrue ==
  ASSUME SlotKind = "clause"
  PROVE  Spec => AnswersAreTrue
<1>1. AnswerInv /\ [Next]_vars =>
        [(ack' # ack /\ ack'.result = "Unchanged") => Holds(ack'.clause)]_vars
  BY StepAnswers DEF AnsweredTruly
<1>2. AnswerInv /\ [Next]_vars =>
        [(ack' # ack /\ ack'.result = "Superseded")
           => \E d \in issued \ {ack'.clause} : d.at >= ack'.clause.at]_vars
  BY StepAnswers DEF AnsweredTruly
<1>3. Spec => UnchangedIsHeld
  BY <1>1, AnswersHold, PTL DEF Spec, UnchangedIsHeld
<1>4. Spec => SupersededIsBeaten
  BY <1>2, AnswersHold, PTL DEF Spec, SupersededIsBeaten
<1> QED
  BY <1>3, <1>4, SidecarNeverFalls DEF AnswersAreTrue


-----------------------------------------------------------------------------
(* The update clause and the updater, which share no state with the slot. *)

\* The clauses the guardian has published so far.
Asked == {scene.asked[i] : i \in 1 .. asked}

\* Both keys have named the version, and the same file.
Agreed(v) == \E c \in Asked : c \in scene.announced /\ c.vc = v

Rounds == [at : {"rest", "query", "look", "fetch", "launch"}, clause : U!Packages \cup {None},
           pkg : U!Packages \cup {None}, rec : U!Records \cup {None}]

UpdateTypes ==
  /\ scene \in UpdateScenes /\ asked \in Nat /\ asked <= Len(scene.asked)
  /\ seen \in Asked \cup {None, Unknown}
  /\ installed = U!Base \/ installed \in U!Packages
  /\ staged \in [Versions -> Hashes \cup {None}]
  /\ rec \in U!Records \cup {None}
  /\ round \in Rounds
  /\ check \in scene.announced \cup {None}
  /\ tried \subseteq Versions
  /\ \A h \in helpers : h \in [vc : Versions, apt : {"to do", "done", "failed"}]

\* Whatever is staged was announced; what an install takes is staged, and both keys
\* named its version.
StagedInv ==
  /\ \A v \in Versions : staged[v] # None => [vc |-> v, sha |-> staged[v]] \in scene.announced
  /\ \A h \in helpers : staged[h.vc] # None /\ Agreed(h.vc)

\* A round under way is about the version of the record on disk, if there is one.  Until
\* the attempt it holds that record, of a version that may be attempted; from then on
\* it holds the attempt.
RoundInv ==
  round.at # "rest" =>
    /\ round.clause \in U!Packages /\ round.clause \in Asked
    /\ rec # None => rec.vc = U!Vc
    /\ round.at = "query" => round.rec = rec /\ U!Vc \notin tried \ renewed
    /\ round.at # "query" =>
         /\ round.clause \in scene.announced /\ round.pkg = round.clause
         /\ round.rec # None /\ round.rec.vc = U!Vc /\ round.rec.attempts = 1 /\ round.rec.due = FALSE
    /\ round.at = "launch" => staged[U!Vc] # None

\* A version attempted in this window is that of the record, whose window is open.
KeptInv ==
  \A v \in tried \ renewed :
    v > installed.vc => rec # None /\ rec.vc = v /\ rec.attempts > 0 /\ rec.due = FALSE

\* All of it is kept by every step.
UpdateInv == UpdateTypes /\ StagedInv /\ RoundInv /\ KeptInv /\ U!TwoKeysAgree

\* No record, hash or package is None, and a version is a number.
LEMMA NoneIsNone ==
    ASSUME U!ScenesAreSound
    PROVE  /\ Versions \subseteq Nat /\ None \notin Hashes
           /\ None \notin U!Packages /\ None \notin U!Records
BY DEF U!ScenesAreSound

\* What the two ways to write a record make of it.
LEMMA AttemptedIs ==
    ASSUME U!ScenesAreSound, NEW r \in U!Records \cup {None}, NEW v \in Versions
    PROVE  /\ U!Attempted(r, v) \in U!Records /\ U!Attempted(r, v) # None
           /\ U!Attempted(r, v).vc = v /\ U!Attempted(r, v).attempts = 1
           /\ U!Attempted(r, v).due = FALSE
<1>1. CASE r # None /\ r.vc = v
  <2>1. r \in U!Records
    BY <1>1
  <2>2. U!Attempted(r, v) = [r EXCEPT !.attempts = 1, !.error = r.attempts > 0, !.due = FALSE]
    BY <1>1 DEF U!Attempted
  <2>3. U!Attempted(r, v) = [vc |-> r.vc, attempts |-> 1, error |-> r.attempts > 0, due |-> FALSE]
    BY <2>1, <2>2 DEF U!Records
  <2> QED
    <3>1. U!Attempted(r, v) \in U!Records
      BY <1>1, <2>3 DEF U!Records
    <3>2. U!Attempted(r, v) # None
      BY <3>1, NoneIsNone, Zenon
    <3> QED
      BY <1>1, <2>3, <3>1, <3>2
<1>2. CASE ~(r # None /\ r.vc = v)
  <2>1. U!Attempted(r, v) = [vc |-> v, attempts |-> 1, error |-> FALSE, due |-> FALSE]
    BY <1>2 DEF U!Attempted
  <2> QED
    <3>1. U!Attempted(r, v) \in U!Records
      BY <2>1 DEF U!Records
    <3>2. U!Attempted(r, v) # None
      BY <3>1, NoneIsNone, Zenon
    <3> QED
      BY <2>1, <3>1, <3>2
<1> QED
  BY <1>1, <1>2

\* And a note, which is no attempt.
LEMMA NotedIs ==
    ASSUME U!ScenesAreSound, NEW r \in U!Records \cup {None}, NEW v \in Versions
    PROVE  U!Noted(r, v) \in U!Records /\ U!Noted(r, v) # None /\ U!Noted(r, v).vc = v
<1>1. CASE r # None /\ r.vc = v
  <2>1. r \in U!Records
    BY <1>1
  <2>2. U!Noted(r, v) = [vc |-> r.vc, attempts |-> r.attempts, error |-> TRUE, due |-> r.due]
    BY <1>1, <2>1 DEF U!Noted, U!Records
  <2> QED
    <3>1. U!Noted(r, v) \in U!Records
      BY <1>1, <2>1, <2>2 DEF U!Records
    <3>2. U!Noted(r, v) # None
      BY <3>1, NoneIsNone, Zenon
    <3> QED
      BY <1>1, <2>2, <3>1, <3>2
<1>2. CASE ~(r # None /\ r.vc = v)
  <2>1. U!Noted(r, v) = [vc |-> v, attempts |-> 0, error |-> TRUE, due |-> FALSE]
    BY <1>2 DEF U!Noted
  <2> QED
    <3>1. U!Noted(r, v) \in U!Records
      BY <2>1 DEF U!Records
    <3>2. U!Noted(r, v) # None
      BY <3>1, NoneIsNone, Zenon
    <3> QED
      BY <2>1, <3>1, <3>2
<1> QED
  BY <1>1, <1>2

\* A record with an error is one of the same version and as many attempts.
LEMMA ErredIs ==
    ASSUME U!ScenesAreSound, NEW r \in U!Records, NEW e \in BOOLEAN
    PROVE  LET q == [r EXCEPT !.error = e]
           IN  q \in U!Records /\ q # None /\ q.vc = r.vc /\ q.attempts = r.attempts /\ q.due = r.due
<1> DEFINE q == [r EXCEPT !.error = e]
<1>1. q = [vc |-> r.vc, attempts |-> r.attempts, error |-> e, due |-> r.due]
  BY DEF U!Records
<1>2. q \in U!Records
  BY <1>1 DEF U!Records
<1> QED
  BY <1>1, <1>2, NoneIsNone

\* The module's finite sets are the library's.
LEMMA UpdatesCounted ==
    ASSUME NEW S
    PROVE  (U!IsFiniteSet(S) <=> IsFiniteSet(S)) /\ U!Cardinality(S) = Cardinality(S)
BY DEF U!IsFiniteSet, IsFiniteSet, U!Cardinality, Cardinality

\* Two members make a finite set's number more than one.
LEMMA TwoAre ==
    ASSUME NEW S, IsFiniteSet(S), NEW x \in S, NEW y \in S, x # y
    PROVE  Cardinality(S) > 1
<1>1. IsFiniteSet({x}) /\ Cardinality({x}) = 1
  BY FS_Singleton
<1>2. y \notin {x} /\ {x} \cup {y} \subseteq S
  OBVIOUS
<1>3. Cardinality({x} \cup {y}) = Cardinality({x}) + 1
  BY <1>1, <1>2, FS_AddElement, Zenon
<1>4. Cardinality({x} \cup {y}) <= Cardinality(S)
  BY <1>2, FS_Subset
<1>5. Cardinality(S) \in Nat
  BY FS_CardinalityType
<1> QED
  BY <1>1, <1>3, <1>4, <1>5

\* The running version is a number.
LEMMA InstalledIs ==
    ASSUME U!ScenesAreSound, UpdateTypes
    PROVE  installed.vc \in Nat
<1>1. CASE installed = U!Base
  BY <1>1 DEF U!Base
<1>2. CASE installed \in U!Packages
  <2>1. installed.vc \in Versions
    BY <1>2 DEF U!Packages
  <2> QED
    BY <2>1, NoneIsNone
<1> QED
  BY <1>1, <1>2 DEF UpdateTypes

\* At rest there is nothing to say of a round.
LEMMA Rests == U!Resting \in Rounds /\ U!Resting.at = "rest"
BY DEF U!Resting, Rounds

\* What the scene has named stays named, and with it whatever runs as it did.
LEMMA NamedStay ==
    ASSUME UpdateInv, scene' = scene, asked' = asked \/ asked' = asked + 1
    PROVE  /\ Asked \subseteq Asked' /\ \A v : Agreed(v) => Agreed(v)'
           /\ installed' = installed => U!TwoKeysAgree'
<1>1. asked \in Int
  <2>1. asked \in Nat
    BY Zenon DEF UpdateInv, UpdateTypes
  <2> QED
    BY <2>1
<1>2. Asked \subseteq Asked'
  BY <1>1 DEF Asked
<1>3. \A v : Agreed(v) => Agreed(v)'
  BY <1>2 DEF Agreed
<1>4. ASSUME installed' = installed PROVE U!TwoKeysAgree'
  <2>1. installed \in Asked => installed' \in Asked'
    BY <1>2, <1>4
  <2> QED
    BY <1>4, <2>1 DEF UpdateInv, U!TwoKeysAgree, U!Twice, Asked
<1> QED
  BY <1>2, <1>3, <1>4

\* What is staged and what is installed of it is right as long as both stand.
LEMMA StagedStay ==
    ASSUME UpdateInv, scene' = scene, asked' = asked \/ asked' = asked + 1,
           staged' = staged, \A h \in helpers' : \E k \in helpers : h.vc = k.vc
    PROVE  StagedInv'
<1>1. \A v : Agreed(v) => Agreed(v)'
  BY NamedStay
<1> QED
  BY <1>1 DEF UpdateInv, StagedInv

\* Steps that end a round, or leave it, its record and its place alone.
LEMMA RoundStays ==
    ASSUME UpdateInv, scene' = scene, asked' = asked \/ asked' = asked + 1,
           UNCHANGED <<rec, round, tried, renewed>>,
           \A v \in Versions : staged[v] # None => staged'[v] # None
    PROVE  RoundInv'
<1>1. Asked \subseteq Asked'
  BY NamedStay
<1>2. CASE round.at # "rest"
  <2>1. U!Vc \in Versions
    BY <1>2 DEF UpdateInv, RoundInv, U!Packages, U!Vc
  <2> QED
    BY <1>1, <1>2, <2>1 DEF UpdateInv, RoundInv, U!Vc
<1>3. CASE round.at = "rest"
  BY <1>3 DEF RoundInv
<1> QED
  BY <1>2, <1>3

\* Of a round that has ended there is nothing to say.
LEMMA RoundEnds == round' = U!Resting => RoundInv'
BY Rests DEF RoundInv

\* An attempt is kept while the record stands and no version goes back.
LEMMA KeptStay ==
    ASSUME UpdateInv, U!ScenesAreSound, UNCHANGED <<rec, tried, renewed>>,
           installed'.vc \in Nat, installed.vc <= installed'.vc
    PROVE  KeptInv'
<1>1. installed.vc \in Nat /\ \A v \in tried : v \in Nat
  BY InstalledIs, NoneIsNone DEF UpdateInv, UpdateTypes
<1>2. \A v \in tried : v > installed'.vc => v > installed.vc
  BY <1>1
<1> QED
  BY <1>2 DEF UpdateInv, KeptInv

\* At first nothing is asked for, recorded or under way.
LEMMA UpdateStarts == U!ScenesAreSound /\ U!Init => UpdateInv
<1> SUFFICES ASSUME U!ScenesAreSound, U!Init PROVE UpdateInv
  OBVIOUS
<1>1. UpdateTypes
  <2>1. scene.asked \in Seq(U!Packages \cup {None})
    BY DEF U!Init, U!ScenesAreSound
  <2>2. Len(scene.asked) \in Nat
    BY <2>1
  <2>3. staged \in [Versions -> Hashes \cup {None}]
    BY DEF U!Init
  <2> QED
    BY <2>2, <2>3, Rests DEF U!Init, UpdateTypes
<1>2. StagedInv /\ RoundInv /\ KeptInv /\ U!TwoKeysAgree
  BY DEF U!Init, StagedInv, RoundInv, KeptInv, U!TwoKeysAgree, U!Resting
<1> QED
  BY <1>1, <1>2 DEF UpdateInv

\* A further clause is published: the earlier ones stay published.
LEMMA AskUpdates ==
    ASSUME U!ScenesAreSound, UpdateInv, U!Ask
    PROVE  UpdateInv'
<1>1. Asked \subseteq Asked' /\ U!TwoKeysAgree'
  BY NamedStay DEF U!Ask
<1>2. scene.asked \in Seq(U!Packages \cup {None})
  BY DEF UpdateInv, UpdateTypes, U!ScenesAreSound
<1>3. UpdateTypes'
  <2>1. asked' \in Nat /\ asked' <= Len(scene'.asked)
    <3>1. asked < Len(scene.asked) /\ asked' = asked + 1 /\ scene' = scene
      BY DEF U!Ask
    <3>2. asked \in Nat
      BY Zenon DEF UpdateInv, UpdateTypes
    <3>3. Len(scene.asked) \in Nat
      BY <1>2
    <3> QED
      BY <3>1, <3>2, <3>3
  <2> QED
    BY <1>1, <2>1 DEF U!Ask, U!daemon, UpdateInv, UpdateTypes
<1>4. StagedInv' /\ RoundInv'
  BY StagedStay, RoundStays DEF U!Ask, U!daemon
<1>5. KeptInv'
  BY KeptStay, InstalledIs DEF U!Ask, UpdateInv
<1> QED
  BY <1>1, <1>3, <1>4, <1>5 DEF UpdateInv

\* The clause that is handed in is one that was published.
LEMMA SetClauseUpdates ==
    ASSUME U!ScenesAreSound, UpdateInv, U!SetClause
    PROVE  UpdateInv'
<1>1. Asked' = Asked
  BY DEF U!SetClause, Asked
<1>2. U!Clause \in Asked \cup {None}
  <2>1. asked \in Nat
    BY DEF UpdateInv, UpdateTypes
  <2>2. asked # 0 => asked \in 1 .. asked
    BY <2>1
  <2> QED
    BY <2>2 DEF U!Clause, Asked
<1>3. UpdateTypes'
  BY <1>1, <1>2 DEF U!SetClause, UpdateInv, UpdateTypes
<1>4. StagedInv' /\ RoundInv' /\ U!TwoKeysAgree'
  BY StagedStay, RoundStays, NamedStay DEF U!SetClause
<1>5. KeptInv'
  BY KeptStay, InstalledIs DEF U!SetClause, UpdateInv
<1> QED
  BY <1>3, <1>4, <1>5 DEF UpdateInv

\* A window ends while the updater rests, and its attempts are forgotten.
LEMMA LapseUpdates ==
    ASSUME U!ScenesAreSound, UpdateInv, U!Lapse
    PROVE  UpdateInv'
<1>1. Asked' = Asked
  BY DEF U!Lapse, Asked
<1>2. rec' \in U!Records
  BY DEF U!Lapse, U!Records, UpdateInv, UpdateTypes
<1>3. UpdateTypes'
  BY <1>1, <1>2 DEF U!Lapse, U!daemon, UpdateInv, UpdateTypes
<1>4. StagedInv' /\ U!TwoKeysAgree'
  BY StagedStay, NamedStay DEF U!Lapse
<1>5. RoundInv' /\ KeptInv'
  BY DEF U!Lapse, U!daemon, RoundInv, KeptInv
<1> QED
  BY <1>3, <1>4, <1>5 DEF UpdateInv

\* A round starts with the record it reads, of the clause's version; if the version was
\* attempted, its window has ended or its record went.
LEMMA BeginUpdates ==
    ASSUME U!ScenesAreSound, UpdateInv, U!Begin
    PROVE  UpdateInv'
<1> DEFINE q == U!Ingested
           r == IF U!Over(q) THEN None ELSE q
<1>1. /\ rec' = r /\ seen # Unknown
      /\ round' = IF U!Due(r) THEN [U!Resting EXCEPT !.at = "query", !.clause = seen, !.rec = r]
                 ELSE U!Resting
      /\ renewed' = IF r # q THEN renewed \cup {q.vc} ELSE renewed
      /\ result' = None
      /\ UNCHANGED <<scene, flaws, asked, seen, check, installed, staged, helpers, tried>>
  BY DEF U!Begin
<1>2. /\ q \in U!Records \cup {None}
      /\ rec = None => q = None
      /\ rec # None => q # None /\ q.vc = rec.vc /\ q.attempts = rec.attempts /\ q.due = rec.due
  <2>1. rec \in U!Records \cup {None}
    BY DEF UpdateInv, UpdateTypes
  <2>2. CASE rec # None /\ result # None /\ rec.vc = result.vc
    <3>1. q = [rec EXCEPT !.error = ~result.ok] /\ rec \in U!Records
      BY <2>1, <2>2 DEF U!Ingested
    <3> QED
      BY <2>2, <3>1, ErredIs
  <2>3. CASE ~(rec # None /\ result # None /\ rec.vc = result.vc)
    <3>1. q = rec
      BY <2>3 DEF U!Ingested
    <3> QED
      BY <2>1, <3>1
  <2> QED
    BY <2>2, <2>3
<1> HIDE DEF q
<1>3. Asked' = Asked
  BY <1>1 DEF Asked
<1>4. r \in U!Records \cup {None} /\ (r # None => r = q)
  BY <1>2
<1>5. StagedInv' /\ U!TwoKeysAgree'
  BY <1>1, StagedStay, NamedStay
<1>6. U!Due(r) => seen \in U!Packages /\ seen \in Asked /\ seen.vc > installed.vc
  <2>1. /\ scene.asked \in Seq(U!Packages \cup {None})
        /\ asked \in Nat /\ asked <= Len(scene.asked)
    BY DEF UpdateInv, UpdateTypes, U!ScenesAreSound
  <2>2. Asked \subseteq U!Packages \cup {None}
    BY <2>1 DEF Asked
  <2> QED
    BY <1>1, <2>2 DEF U!Due, UpdateInv, UpdateTypes
<1>7. r # None /\ seen # None => r.vc = seen.vc
  BY <1>2 DEF U!Over
<1>8. KeptInv'
  <2> SUFFICES ASSUME NEW v \in tried' \ renewed', v > installed'.vc
               PROVE  rec' # None /\ rec'.vc = v /\ rec'.attempts > 0 /\ rec'.due = FALSE
    BY DEF KeptInv
  <2>1. v \in tried \ renewed /\ v > installed.vc
    BY <1>1
  <2>2. rec # None /\ rec.vc = v /\ rec.attempts > 0 /\ rec.due = FALSE
    BY <2>1 DEF UpdateInv, KeptInv
  <2>3. q # None /\ q.vc = v
    BY <1>2, <2>2
  <2>4. r = q
    BY <1>1, <2>3
  <2> QED
    BY <1>1, <1>2, <2>2, <2>3, <2>4
<1>9. CASE U!Due(r)
  <2>1. /\ round' \in Rounds /\ round'.at = "query" /\ round'.clause = seen /\ round'.rec = r
    BY <1>1, <1>4, <1>6, <1>9 DEF U!Resting, Rounds
  <2>2. seen.vc \notin tried \ renewed'
    <3> SUFFICES ASSUME seen.vc \in tried \ renewed' PROVE FALSE
      OBVIOUS
    <3>1. seen.vc \in tried \ renewed
      BY <1>1
    <3>2. rec # None /\ rec.vc = seen.vc /\ rec.attempts > 0 /\ rec.due = FALSE
      BY <1>6, <1>9, <3>1 DEF UpdateInv, KeptInv
    <3>3. q # None /\ r = q
      BY <1>1, <1>2, <3>2
    <3>4. r.attempts = 0 \/ r.due
      BY <1>9, <3>3 DEF U!Due
    <3> QED
      BY <1>2, <3>2, <3>3, <3>4
  <2>3. UpdateTypes'
    BY <1>1, <1>3, <1>4, <2>1 DEF UpdateInv, UpdateTypes
  <2>4. RoundInv'
    <3>1. U!Vc' = seen.vc /\ rec' = r /\ seen # None
      BY <1>1, <1>9, <2>1 DEF U!Vc, U!Due
    <3>2. /\ round'.clause \in U!Packages /\ round'.clause \in Asked'
          /\ rec' # None => rec'.vc = U!Vc'
      BY <1>3, <1>6, <1>7, <1>9, <2>1, <3>1
    <3>3. round'.rec = rec' /\ U!Vc' \notin tried' \ renewed'
      BY <1>1, <2>1, <2>2, <3>1
    <3> HIDE DEF r
    <3> QED
      BY <2>1, <3>2, <3>3 DEF RoundInv
  <2> QED
    BY <1>5, <1>8, <2>3, <2>4 DEF UpdateInv
<1>10. CASE ~U!Due(r)
  <2>1. round' = U!Resting
    BY <1>1, <1>10
  <2>2. UpdateTypes'
    BY <1>1, <1>3, <1>4, <2>1, Rests DEF UpdateInv, UpdateTypes
  <2> QED
    BY <1>5, <1>8, <2>1, <2>2, RoundEnds DEF UpdateInv
<1> QED
  BY <1>9, <1>10

\* A note leaves no attempt behind: there was none of this version in the window.
LEMMA RefuseUpdates ==
    ASSUME U!ScenesAreSound, UpdateInv, U!Refuse
    PROVE  UpdateInv'
<1>1. /\ round.at = "query" /\ rec' = U!Noted(round.rec, U!Vc) /\ round' = U!Resting
      /\ UNCHANGED <<scene, asked, seen, check, installed, staged, helpers, result, tried,
                     renewed>>
  BY DEF U!Refuse
<1>2. /\ U!Vc \in Versions /\ round.rec \in U!Records \cup {None} /\ round.rec = rec
      /\ U!Vc \notin tried \ renewed /\ (rec # None => rec.vc = U!Vc)
  BY <1>1 DEF UpdateInv, UpdateTypes, RoundInv, Rounds, U!Packages, U!Vc
<1>3. rec' \in U!Records
  BY <1>1, <1>2, NotedIs
<1>4. Asked' = Asked
  BY <1>1 DEF Asked
<1>5. UpdateTypes'
  BY <1>1, <1>3, <1>4, Rests DEF UpdateInv, UpdateTypes
<1>6. StagedInv' /\ U!TwoKeysAgree' /\ RoundInv'
  BY <1>1, StagedStay, NamedStay, RoundEnds
<1>7. KeptInv'
  BY <1>1, <1>2 DEF UpdateInv, KeptInv
<1> QED
  BY <1>5, <1>6, <1>7 DEF UpdateInv

\* From here on the round holds the attempt; the record on disk is that attempt, or the
\* version is one whose attempt was not saved.
LEMMA AttemptUpdates ==
    ASSUME U!ScenesAreSound, UpdateInv, NEW b \in BOOLEAN, U!Attempt(b)
    PROVE  UpdateInv' /\ U!Vc \notin tried \ renewed
<1> DEFINE new == U!Attempted(round.rec, U!Vc)
<1>1. PICK p \in U!Agreeing :
        round' = [round EXCEPT !.at = "look", !.pkg = p, !.rec = U!Attempted(@, U!Vc)]
  BY DEF U!Attempt
<1>2. /\ round.at = "query" /\ tried' = tried \cup {U!Vc}
      /\ \/ rec' = round'.rec /\ renewed' = renewed
         \/ rec' = rec /\ renewed' = renewed \cup {U!Vc}
      /\ UNCHANGED <<scene, asked, seen, check, installed, staged, helpers, result>>
  <2>1. CASE b
    <3>1. rec' = round'.rec /\ UNCHANGED <<flaws, renewed>>
      BY <2>1, Zenon DEF U!Attempt
    <3>2. round.at = "query" /\ tried' = tried \cup {U!Vc}
      BY Zenon DEF U!Attempt
    <3>3. UNCHANGED <<scene, asked, seen, check, installed, staged, helpers, result>>
      BY Zenon DEF U!Attempt
    <3> QED
      BY <3>1, <3>2, <3>3
  <2>2. CASE ~b
    BY <2>2, Zenon DEF U!Attempt
  <2> QED
    BY <2>1, <2>2
<1>3. /\ U!Vc \in Versions /\ round.rec \in U!Records \cup {None} /\ round.rec = rec
      /\ U!Vc \notin tried \ renewed /\ (rec # None => rec.vc = U!Vc)
      /\ round.clause \in U!Packages /\ round.clause \in Asked /\ round \in Rounds
  BY <1>2 DEF UpdateInv, UpdateTypes, RoundInv, Rounds, U!Packages, U!Vc
<1>4. p = round.clause /\ p \in scene.announced
  BY DEF U!Agreeing
<1>5. new \in U!Records /\ new # None /\ new.vc = U!Vc /\ new.attempts = 1 /\ new.due = FALSE
  BY <1>3, AttemptedIs
<1> HIDE DEF new
<1>6. /\ round' \in Rounds /\ round'.at = "look" /\ round'.clause = round.clause
      /\ round'.pkg = round.clause /\ round'.rec = new
  <2>1. round' = [round EXCEPT !.at = "look", !.pkg = p, !.rec = new]
    BY <1>1 DEF new
  <2> QED
    BY <1>3, <1>4, <1>5, <2>1 DEF Rounds
<1>7. U!Vc' = U!Vc
  BY <1>6 DEF U!Vc
<1>8. Asked' = Asked
  BY <1>2 DEF Asked
<1>9. UpdateTypes'
  <2>1. rec' \in U!Records \cup {None}
    BY <1>2, <1>3, <1>5, <1>6
  <2> QED
    BY <1>2, <1>6, <1>8, <2>1, <1>3 DEF UpdateInv, UpdateTypes
<1>10. StagedInv' /\ U!TwoKeysAgree'
  BY <1>2, StagedStay, NamedStay
<1>11. RoundInv'
  BY <1>2, <1>3, <1>4, <1>5, <1>6, <1>7, <1>8 DEF RoundInv
<1>12. KeptInv'
  BY <1>2, <1>3, <1>5, <1>6 DEF UpdateInv, KeptInv
<1> QED
  BY <1>3, <1>9, <1>10, <1>11, <1>12 DEF UpdateInv

\* What a step within a round keeps of it.
LEMMA GoesIs ==
    ASSUME UpdateTypes, NEW at \in {"rest", "query", "look", "fetch", "launch"}, U!Goes(at)
    PROVE  /\ round' \in Rounds /\ round'.at = at /\ round'.clause = round.clause
           /\ round'.pkg = round.pkg /\ round'.rec = round.rec /\ U!Vc' = U!Vc
BY DEF UpdateTypes, U!Goes, Rounds, U!Vc

\* What is staged with the hash of the clause may be installed.
LEMMA LookUpdates ==
    ASSUME U!ScenesAreSound, UpdateInv, U!Look
    PROVE  UpdateInv'
<1>1. /\ round.at = "look"
      /\ U!Goes(IF staged[U!Vc] = round.clause.sha THEN "launch" ELSE "fetch")
      /\ UNCHANGED <<scene, asked, seen, check, installed, staged, rec, helpers, tried,
                     renewed>>
  BY DEF U!Look
<1>2. /\ round' \in Rounds /\ round'.clause = round.clause /\ U!Vc' = U!Vc
      /\ round'.pkg = round.pkg /\ round'.rec = round.rec
      /\ round'.at = IF staged[U!Vc] = round.clause.sha THEN "launch" ELSE "fetch"
  BY <1>1, GoesIs DEF UpdateInv
<1>3. round.clause.sha # None
  BY <1>1 DEF UpdateInv, RoundInv, U!Packages, U!ScenesAreSound
<1>4. Asked' = Asked
  BY <1>1 DEF Asked
<1>5. UpdateTypes'
  BY <1>1, <1>2, <1>4 DEF UpdateInv, UpdateTypes
<1>6. StagedInv' /\ U!TwoKeysAgree'
  BY <1>1, StagedStay, NamedStay
<1>7. RoundInv'
  BY <1>1, <1>2, <1>3, <1>4 DEF UpdateInv, RoundInv
<1>8. KeptInv'
  BY <1>1, KeptStay, InstalledIs DEF UpdateInv
<1> QED
  BY <1>5, <1>6, <1>7, <1>8 DEF UpdateInv

\* A round whose attempt failed leaves that attempt in the record, with an error.
LEMMA FailsUpdates ==
    ASSUME U!ScenesAreSound, UpdateInv, round.at \in {"look", "fetch", "launch"}, U!Fails,
           UNCHANGED <<scene, asked, seen, check, installed, staged, helpers, tried, renewed>>
    PROVE  UpdateInv'
<1>1. rec' = [round.rec EXCEPT !.error = TRUE] /\ round' = U!Resting
  BY DEF U!Fails
<1>2. /\ round.rec \in U!Records /\ round.rec.vc = U!Vc /\ round.rec.attempts = 1
      /\ round.rec.due = FALSE /\ (rec # None => rec.vc = U!Vc)
  BY DEF UpdateInv, UpdateTypes, RoundInv, Rounds
<1>3. rec' \in U!Records /\ rec' # None /\ rec'.vc = U!Vc /\ rec'.attempts = 1 /\ rec'.due = FALSE
  BY <1>1, <1>2, ErredIs
<1>4. Asked' = Asked
  BY DEF Asked
<1>5. UpdateTypes'
  BY <1>1, <1>3, <1>4, Rests DEF UpdateInv, UpdateTypes
<1>6. StagedInv' /\ U!TwoKeysAgree' /\ RoundInv'
  BY <1>1, StagedStay, NamedStay, RoundEnds
<1>7. KeptInv'
  BY <1>2, <1>3 DEF UpdateInv, KeptInv
<1> QED
  BY <1>5, <1>6, <1>7 DEF UpdateInv

\* What is staged anew was announced too.
LEMMA StagedAnew ==
    ASSUME U!ScenesAreSound, UpdateInv, NEW p \in scene.announced,
           staged' = [staged EXCEPT ![p.vc] = p.sha], UNCHANGED <<scene, asked, helpers>>
    PROVE  /\ staged' \in [Versions -> Hashes \cup {None}] /\ StagedInv' /\ staged'[p.vc] # None
           /\ \A v \in Versions : staged[v] # None => staged'[v] # None
<1>1. p \in U!Packages
  BY DEF UpdateInv, UpdateTypes, U!ScenesAreSound
<1>2. p.vc \in Versions /\ p.sha \in Hashes /\ p.sha # None /\ p = [vc |-> p.vc, sha |-> p.sha]
  BY <1>1 DEF U!Packages, U!ScenesAreSound
<1>3. staged \in [Versions -> Hashes \cup {None}]
  BY DEF UpdateInv, UpdateTypes
<1>4. \A v \in Versions : staged'[v] = IF v = p.vc THEN p.sha ELSE staged[v]
  BY <1>3
<1>5. \A v : Agreed(v) => Agreed(v)'
  BY NamedStay
<1>6. \A h \in helpers : h.vc \in Versions
  BY DEF UpdateInv, UpdateTypes
<1>7. \A v \in Versions : staged'[v] # None => [vc |-> v, sha |-> staged'[v]] \in scene.announced
  BY <1>2, <1>4 DEF UpdateInv, StagedInv
<1>8. \A h \in helpers' : staged'[h.vc] # None /\ Agreed(h.vc)'
  BY <1>2, <1>4, <1>5, <1>6 DEF UpdateInv, StagedInv
<1> QED
  BY <1>2, <1>3, <1>4, <1>7, <1>8 DEF StagedInv

\* What is fetched is what was announced.
LEMMA FetchUpdates ==
    ASSUME U!ScenesAreSound, UpdateInv, NEW b \in BOOLEAN, U!Fetch(b)
    PROVE  UpdateInv'
<1>1. /\ round.at = "fetch"
      /\ UNCHANGED <<scene, asked, seen, check, installed, helpers, tried, renewed>>
  BY DEF U!Fetch
<1>2. CASE b
  <2>1. staged' = [staged EXCEPT ![U!Vc] = round.pkg.sha] /\ U!Goes("launch") /\ rec' = rec
    BY <1>2 DEF U!Fetch
  <2>2. round.pkg = round.clause /\ round.pkg \in scene.announced /\ U!Vc = round.pkg.vc
    BY <1>1 DEF UpdateInv, RoundInv, U!Vc
  <2>3. staged' \in [Versions -> Hashes \cup {None}] /\ StagedInv' /\ staged'[U!Vc] # None
    BY <1>1, <2>1, <2>2, StagedAnew
  <2>4. /\ round' \in Rounds /\ round'.clause = round.clause /\ U!Vc' = U!Vc
        /\ round'.pkg = round.pkg /\ round'.rec = round.rec /\ round'.at = "launch"
    BY <2>1, GoesIs DEF UpdateInv
  <2>5. Asked' = Asked
    BY <1>1 DEF Asked
  <2>6. UpdateTypes'
    BY <1>1, <2>1, <2>3, <2>4, <2>5 DEF UpdateInv, UpdateTypes
  <2>7. RoundInv'
    BY <1>1, <2>1, <2>3, <2>4, <2>5 DEF UpdateInv, RoundInv
  <2>8. KeptInv' /\ U!TwoKeysAgree'
    BY <1>1, <2>1, KeptStay, NamedStay, InstalledIs DEF UpdateInv
  <2> QED
    BY <2>3, <2>6, <2>7, <2>8 DEF UpdateInv
<1>3. CASE ~b
  BY <1>1, <1>3, FailsUpdates DEF U!Fetch
<1> QED
  BY <1>2, <1>3

\* An install is started of what is staged, for a version both keys named.
LEMMA LaunchUpdates ==
    ASSUME U!ScenesAreSound, UpdateInv, NEW b \in BOOLEAN, U!Launch(b)
    PROVE  UpdateInv'
<1>1. /\ round.at = "launch"
      /\ UNCHANGED <<scene, asked, seen, check, installed, staged, tried, renewed>>
  BY DEF U!Launch
<1>2. CASE b
  <2>1. /\ helpers' = helpers \cup {[vc |-> U!Vc, apt |-> "to do"]}
        /\ round' = U!Resting /\ rec' = rec
    BY <1>2 DEF U!Launch
  <2>2. U!Vc \in Versions /\ staged[U!Vc] # None /\ Agreed(U!Vc)
    BY <1>1 DEF UpdateInv, RoundInv, U!Packages, U!Vc, Agreed
  <2>3. [vc |-> U!Vc, apt |-> "to do"] \in [vc : Versions, apt : {"to do", "done", "failed"}]
    BY <2>2
  <2>4. Asked' = Asked
    BY <1>1 DEF Asked
  <2>5. UpdateTypes'
    <3>1. \A h \in helpers' : h \in [vc : Versions, apt : {"to do", "done", "failed"}]
      BY <2>1, <2>3 DEF UpdateInv, UpdateTypes
    <3> QED
      BY <1>1, <2>1, <2>4, <3>1, Rests DEF UpdateInv, UpdateTypes
  <2>6. StagedInv'
    <3>1. \A v : Agreed(v) => Agreed(v)'
      BY <1>1, NamedStay
    <3>2. \A h \in helpers' : staged'[h.vc] # None /\ Agreed(h.vc)'
      <4> SUFFICES ASSUME NEW h \in helpers' PROVE staged'[h.vc] # None /\ Agreed(h.vc)'
        OBVIOUS
      <4>1. h \in helpers \/ h = [vc |-> U!Vc, apt |-> "to do"]
        BY <2>1
      <4>2. staged[h.vc] # None /\ Agreed(h.vc)
        <5>1. CASE h \in helpers
          BY <5>1, Zenon DEF UpdateInv, StagedInv
        <5>2. CASE h = [vc |-> U!Vc, apt |-> "to do"]
          BY <2>2, <5>2
        <5> QED
          BY <4>1, <5>1, <5>2
      <4> QED
        BY <1>1, <3>1, <4>2
    <3> QED
      BY <1>1, <3>2 DEF UpdateInv, StagedInv
  <2>7. KeptInv'
    <3>1. installed.vc \in Nat
      BY InstalledIs DEF UpdateInv
    <3>2. installed' = installed /\ installed.vc <= installed'.vc
      BY <1>1, <3>1
    <3> QED
      BY <1>1, <2>1, <3>1, <3>2, KeptStay
  <2>8. U!TwoKeysAgree' /\ RoundInv'
    BY <1>1, <2>1, NamedStay, RoundEnds
  <2> QED
    BY <2>5, <2>6, <2>7, <2>8 DEF UpdateInv
<1>3. CASE ~b
  BY <1>1, <1>3, FailsUpdates DEF U!Launch
<1> QED
  BY <1>2, <1>3

\* The release check fetches what was announced.
LEMMA CheckUpdates ==
    ASSUME U!ScenesAreSound, UpdateInv, NEW p \in U!Packages, U!Check(p)
    PROVE  UpdateInv'
<1>1. Asked' = Asked
  BY DEF U!Check, Asked
<1>2. UpdateTypes'
  BY <1>1 DEF U!Check, UpdateInv, UpdateTypes
<1>3. StagedInv' /\ RoundInv' /\ U!TwoKeysAgree'
  BY StagedStay, RoundStays, NamedStay DEF U!Check
<1>4. KeptInv'
  BY KeptStay, InstalledIs DEF U!Check, UpdateInv
<1> QED
  BY <1>2, <1>3, <1>4 DEF UpdateInv

\* And stages it, over another file of the version if there is one.
LEMMA StageUpdates ==
    ASSUME U!ScenesAreSound, UpdateInv, NEW b \in BOOLEAN, U!Stage(b)
    PROVE  UpdateInv'
<1>1. /\ check # None /\ check' = None
      /\ UNCHANGED <<scene, asked, seen, round, installed, rec, helpers, tried, renewed>>
      /\ staged' = staged \/ staged' = [staged EXCEPT ![check.vc] = check.sha]
  BY DEF U!Stage
<1>2. check \in scene.announced
  BY <1>1 DEF UpdateInv, UpdateTypes
<1>3. /\ staged' \in [Versions -> Hashes \cup {None}] /\ StagedInv'
      /\ \A v \in Versions : staged[v] # None => staged'[v] # None
  <2>1. CASE staged' = staged
    BY <1>1, <2>1, StagedStay DEF UpdateInv, UpdateTypes
  <2>2. CASE staged' = [staged EXCEPT ![check.vc] = check.sha]
    BY <1>1, <1>2, <2>2, StagedAnew
  <2> QED
    BY <1>1, <2>1, <2>2
<1>4. Asked' = Asked
  BY <1>1 DEF Asked
<1>5. UpdateTypes'
  BY <1>1, <1>3, <1>4 DEF UpdateInv, UpdateTypes
<1>6. RoundInv' /\ U!TwoKeysAgree'
  BY <1>1, <1>3, RoundStays, NamedStay
<1>7. KeptInv'
  BY <1>1, KeptStay, InstalledIs DEF UpdateInv
<1> QED
  BY <1>3, <1>5, <1>6, <1>7 DEF UpdateInv

\* A restart forgets the clause, the round and the check, and nothing that is on disk.
LEMMA RestartUpdates ==
    ASSUME U!ScenesAreSound, UpdateInv, U!Restarted, helpers' \subseteq helpers,
           UNCHANGED <<scene, asked, installed, staged, rec, tried, renewed>>
    PROVE  UpdateInv'
<1>1. Asked' = Asked
  BY DEF Asked
<1>2. UpdateTypes'
  BY <1>1, Rests DEF U!Restarted, UpdateInv, UpdateTypes
<1>3. StagedInv' /\ RoundInv' /\ U!TwoKeysAgree'
  BY StagedStay, NamedStay, RoundEnds DEF U!Restarted
<1>4. KeptInv'
  BY KeptStay, InstalledIs DEF UpdateInv
<1> QED
  BY <1>2, <1>3, <1>4 DEF UpdateInv

\* A crash, of the daemon or of the computer with its helpers.
LEMMA CrashUpdates ==
    ASSUME U!ScenesAreSound, UpdateInv, NEW b \in BOOLEAN, U!Crash(b)
    PROVE  UpdateInv'
BY RestartUpdates DEF U!Crash

\* The staged file is one that was announced, and the version is one that both keys named:
\* either it is the very file, or the version was announced twice.
LEMMA AptUpdates ==
    ASSUME U!ScenesAreSound, UpdateInv, NEW h \in helpers, NEW b \in BOOLEAN, U!Apt(h, b)
    PROVE  UpdateInv'
<1> DEFINE k == [h EXCEPT !.apt = IF b THEN "done" ELSE "failed"]
<1>1. /\ helpers' = (helpers \ {h}) \cup {k}
      /\ UNCHANGED <<scene, asked, staged, rec, result, tried, renewed>>
  BY DEF U!Apt
<1>2. h \in [vc : Versions, apt : {"to do", "done", "failed"}]
  BY DEF UpdateInv, UpdateTypes
<1>3. k \in [vc : Versions, apt : {"to do", "done", "failed"}] /\ k.vc = h.vc
  BY <1>2
<1> HIDE DEF k
<1>4. /\ \A x \in helpers' : x \in [vc : Versions, apt : {"to do", "done", "failed"}]
      /\ \A x \in helpers' : \E y \in helpers : x.vc = y.vc
  BY <1>1, <1>3 DEF UpdateInv, UpdateTypes
<1>5. StagedInv'
  BY <1>1, <1>4, StagedStay
<1>6. Asked' = Asked
  BY <1>1 DEF Asked
<1>7. CASE b
  <2>1. /\ h.vc > installed.vc /\ installed' = [vc |-> h.vc, sha |-> staged[h.vc]] /\ U!Restarted
    BY <1>7 DEF U!Apt
  <2>2. h.vc \in Versions /\ h.vc \in Nat /\ staged[h.vc] # None /\ Agreed(h.vc)
    BY <1>2 DEF UpdateInv, StagedInv, U!ScenesAreSound
  <2>3. installed' \in scene.announced /\ installed'.vc = h.vc
    BY <2>1, <2>2 DEF UpdateInv, StagedInv
  <2>4. scene.announced \subseteq U!Packages /\ IsFiniteSet(scene.announced)
    BY UpdatesCounted DEF UpdateInv, UpdateTypes, U!ScenesAreSound
  <2>5. UpdateTypes'
    <3>1. installed' \in U!Packages
      BY <2>3, <2>4
    <3>2. seen' = Unknown /\ round' \in Rounds /\ check' = None
      BY <2>1, Rests DEF U!Restarted
    <3> QED
      BY <1>1, <1>4, <1>6, <3>1, <3>2 DEF UpdateInv, UpdateTypes
  <2>6. RoundInv'
    BY <2>1, RoundEnds DEF U!Restarted
  <2>7. KeptInv'
    BY <1>1, <2>1, <2>2, <2>3, KeptStay, InstalledIs DEF UpdateInv
  <2>8. U!TwoKeysAgree'
    <3>1. PICK c \in Asked : c \in scene.announced /\ c.vc = h.vc
      BY <2>2 DEF Agreed
    <3>2. CASE installed' = c
      BY <1>1, <1>6, <2>3, <3>1, <3>2 DEF U!TwoKeysAgree, Asked
    <3>3. CASE installed' # c
      <4> DEFINE S == {p \in scene.announced : p.vc = h.vc}
      <4>1. IsFiniteSet(S)
        BY <2>4, FS_Subset
      <4>2. installed' \in S /\ c \in S
        BY <2>3, <3>1
      <4>3. Cardinality(S) > 1
        <5> HIDE DEF S
        <5> QED
          BY <3>3, <4>1, <4>2, TwoAre, Zenon
      <4>4. U!Twice(installed.vc)'
        <5>1. U!Cardinality(S) > 1
          BY <4>3, UpdatesCounted
        <5> QED
          BY <1>1, <2>3, <5>1 DEF U!Twice
      <4> QED
        BY <1>1, <2>3, <4>4 DEF U!TwoKeysAgree
    <3> QED
      BY <3>2, <3>3
  <2> QED
    BY <1>5, <2>5, <2>6, <2>7, <2>8 DEF UpdateInv
<1>8. CASE ~b
  <2>1. UNCHANGED <<installed, seen, round, check>>
    BY <1>8 DEF U!Apt, U!daemon
  <2>2. UpdateTypes'
    BY <1>1, <1>4, <1>6, <2>1 DEF UpdateInv, UpdateTypes
  <2>3. RoundInv' /\ KeptInv' /\ U!TwoKeysAgree'
    BY <1>1, <2>1, RoundStays, KeptStay, NamedStay, InstalledIs DEF UpdateInv
  <2> QED
    BY <1>5, <2>2, <2>3 DEF UpdateInv
<1> QED
  BY <1>7, <1>8

\* A result is left, and nothing reads it yet.
LEMMA ReportUpdates ==
    ASSUME U!ScenesAreSound, UpdateInv, NEW h \in helpers, U!Report(h)
    PROVE  UpdateInv'
<1>1. Asked' = Asked
  BY DEF U!Report, Asked
<1>2. UpdateTypes'
  BY <1>1 DEF U!Report, U!daemon, UpdateInv, UpdateTypes
<1>3. StagedInv' /\ RoundInv' /\ U!TwoKeysAgree'
  BY StagedStay, RoundStays, NamedStay DEF U!Report, U!daemon
<1>4. KeptInv'
  <2>1. installed.vc \in Nat
    BY InstalledIs DEF UpdateInv
  <2>2. UNCHANGED <<installed, rec, tried, renewed>>
    BY DEF U!Report
  <2> QED
    BY <2>1, <2>2, KeptStay
<1> QED
  BY <1>2, <1>3, <1>4 DEF UpdateInv

\* Every step keeps the invariant.
LEMMA UpdateGoesOn ==
    ASSUME U!ScenesAreSound, UpdateInv, [U!Next]_(U!vars)
    PROVE  UpdateInv'
<1>1. CASE UNCHANGED U!vars
  <2>1. Asked' = Asked
    BY <1>1 DEF U!vars, Asked
  <2>2. UpdateTypes'
    BY <1>1, <2>1 DEF U!vars, U!daemon, UpdateInv, UpdateTypes
  <2>3. StagedInv' /\ RoundInv' /\ U!TwoKeysAgree'
    BY <1>1, StagedStay, RoundStays, NamedStay DEF U!vars, U!daemon
  <2>4. KeptInv'
    BY <1>1, KeptStay, InstalledIs DEF U!vars, UpdateInv
  <2> QED
    BY <2>2, <2>3, <2>4 DEF UpdateInv
<1> QED
  BY <1>1, AskUpdates, SetClauseUpdates, LapseUpdates, BeginUpdates, RefuseUpdates, AttemptUpdates,
     LookUpdates, FetchUpdates, LaunchUpdates, CheckUpdates, StageUpdates, AptUpdates, ReportUpdates,
     CrashUpdates
  DEF U!Next

\* Only an attempt goes from asking the relays to looking for the file.
LEMMA OnlyAttempts ==
    ASSUME U!ScenesAreSound, UpdateInv, [U!Next]_(U!vars), round.at = "query", round'.at = "look"
    PROVE  U!Vc \notin tried \ renewed
BY DEF UpdateInv, RoundInv

\* The attempts that are kept are the ones STATUS reports.
LEMMA KeptAreShown == U!ScenesAreSound /\ UpdateInv => U!AttemptsAreKept
<1> SUFFICES ASSUME U!ScenesAreSound, UpdateInv, NEW v \in tried \ renewed, ~(v <= installed.vc)
             PROVE  U!Health # None /\ U!Health.vc = v /\ U!Health.attempts > 0
  BY DEF U!AttemptsAreKept
<1>1. v \in Nat /\ installed.vc \in Nat
  BY InstalledIs, NoneIsNone DEF UpdateInv, UpdateTypes
<1>2. rec # None /\ rec.vc = v /\ rec.attempts > 0
  BY <1>1 DEF UpdateInv, KeptInv
<1>3. U!Health = rec
  BY <1>1, <1>2 DEF U!Health
<1> QED
  BY <1>2, <1>3

\* A behaviour of the parts is one of the updater, or leaves it alone.
LEMMA LiveStarts == LiveInit => U!Init
BY DEF LiveInit

LEMMA LiveSteps == [LiveNext]_<<part, lockVars, updateVars>> => [U!Next]_(U!vars)
BY DEF LiveNext, updateVars, U!vars, U!daemon

\* The invariant of the updater, for any scenes of clauses, announcements and faults.
THEOREM UpdateInvHolds == LiveSpec => []UpdateInv
<1>1. LiveInit => UpdateInv
  BY LiveStarts, UpdateStarts, UpdatesAssumption
<1>2. UpdateInv /\ [LiveNext]_<<part, lockVars, updateVars>> => UpdateInv'
  BY LiveSteps, UpdateGoesOn, UpdatesAssumption
<1> QED
  BY <1>1, <1>2, PTL DEF LiveSpec

\* What runs was named by both keys (or its version announced twice); an attempt is on disk
\* until its version runs, its clause goes or its window ends, whatever crashes; and there
\* is one of a version in a window: for any clauses, announcements and number of faults
\* (self_update.rs update_round, record_attempt, due; release_check.rs; install-update).
THEOREM UpdatesAreMeasuredHolds == LiveSpec => UpdatesAreMeasured
<1>1. UpdateInv => U!TwoKeysAgree /\ U!AttemptsAreKept
  BY KeptAreShown, UpdatesAssumption DEF UpdateInv
<1>2. UpdateInv /\ [LiveNext]_<<part, lockVars, updateVars>> =>
        [round.at = "query" /\ round'.at = "look" => U!Vc \notin tried \ renewed]_(U!vars)
  BY LiveSteps, OnlyAttempts, UpdatesAssumption
<1> QED
  BY <1>1, <1>2, UpdateInvHolds, PTL
  DEF LiveSpec, UpdatesAreMeasured, U!UpdatesAreMeasured, U!OneAttemptAWindow
=============================================================================
