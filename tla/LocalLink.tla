------------------------------- MODULE LocalLink -------------------------------
(***************************************************************************)
(* The local link (core/crates/charter-link): a ward's outbox, drained     *)
(* over every session with the guardian's carrier, and the carrier's       *)
(* store of what came in, its queue of what waits for a ward, and its      *)
(* record of how far each delivery came.                                   *)
(*                                                                         *)
(* One ward.  A session is named by the address the ward dialled; a new    *)
(* one at an address takes the place of the old.  The handshake is one     *)
(* step.  Either process may crash, a session may close at any moment, and *)
(* a write of a file may fail.  Each file has one writer and one staged    *)
(* snapshot (store.rs), so a flush writes the newest state of its file,    *)
(* not the state its caller staged.                                        *)
(***************************************************************************)
EXTENDS Integers, FiniteSets, SequencesExt

CONSTANTS
  Up, Down,      \* the wraps of the ward, and those for it
  Addrs,         \* the addresses the carrier is reachable at
  None,
  OutboxCap,     \* OUTBOX_CAP
  QueueCap,      \* QUEUE_PER_MACHINE
  InboxCap,      \* INBOX_CAP
  Scenes         \* the wraps and addresses that take part, the offers that share
                 \* a replacement key, and how many faults

VARIABLES
  scene,
  faults,
  outbox,        \* the ward's outbox, oldest first
  wstaged,       \* its staged snapshot, or None
  wdisk,         \* link-outbox.json
  aged,          \* the wraps whose retention has passed
  wup,           \* the addresses the ward has a session at
  pumped,        \* what each session's pump has sent: its cursor
  job,           \* the wrap each session's ingest works on, or None
  loose,         \* the ingests whose session has closed
  received,      \* the wraps the ward has answered OK (history)
  applied,       \* the wraps the broker has applied (durable)
  gup,           \* the carrier's sessions, oldest first
  gsent,         \* Session.sent
  wake,          \* the sessions whose flusher has been woken
  mem,           \* the carrier's stores in memory
  staged,        \* the newest snapshot of each not yet written, or None
  disk,          \* their files
  saving,        \* per session: the files its reader has yet to flush, and the
                 \* wrap it then answers
  flushing,      \* per session: the same of its flusher, and the wraps it then
                 \* writes
  console,       \* the files the console's own call has yet to flush
  orphans,       \* flushes whose session has closed
  toCarrier, toWard, \* the frames on each session
  oked,          \* history: the wraps the carrier has answered OK
  early,         \* history: those it answered as duplicates before they were on
                 \* its disk
  unlanded,      \* history: what a failed write of the inbox or the queue left
                 \* out, or a crash before the queue's
  consumed,      \* history: the wraps the console has taken
  evicted        \* history: the wraps a cap or the age limit of the carrier threw out

ward == <<outbox, wstaged, wdisk, aged, pumped>>
broker == <<job, loose, received, applied>>
flushes == <<saving, flushing, console, orphans>>
carrier == <<mem, staged, disk, flushes, oked, early, unlanded, consumed, evicted>>
links == <<wup, gup, gsent, wake, toCarrier, toWard>>
vars == <<scene, faults, ward, broker, carrier, links>>

Stores == {"queue", "delivery", "inbox", "seen"}
Acks == {"applied", "unchanged", "failed"}
States == {"none", "queued", "sent", "received", "rejected"} \cup Acks
Idle == [stores |-> <<>>, then |-> <<>>]
Files == [queue : Seq(Down), delivery : [Down -> States], inbox : Seq(Up), seen : SUBSET Up]

ASSUME NoneAssumption ==
  /\ None \notin Seq(Up) /\ None \notin Seq(Down) /\ None \notin Up \cup Down
  /\ None \notin [Down -> States] /\ \A seen \in SUBSET Up : seen # None
ASSUME CapsAssumption == OutboxCap \in Nat /\ QueueCap \in Nat /\ InboxCap \in Nat
ASSUME ScenesAssumption ==
  \A s \in Scenes : /\ s.up \subseteq Up /\ s.same \subseteq s.up /\ s.down \subseteq Down
                     /\ s.addrs \subseteq Addrs /\ s.faults \in Nat

Init ==
  /\ scene \in Scenes /\ faults = 0
  /\ outbox = <<>> /\ wstaged = None /\ wdisk = <<>> /\ aged = {}
  /\ pumped = [a \in Addrs |-> {}]
  /\ job = [a \in Addrs |-> None] /\ loose = {}
  /\ received = {} /\ applied = {}
  /\ mem = [queue |-> <<>>, delivery |-> [d \in Down |-> "none"],
            inbox |-> <<>>, seen |-> {}]
  /\ disk = mem /\ staged = [x \in Stores |-> None]
  /\ saving = [a \in Addrs |-> Idle] /\ flushing = [a \in Addrs |-> Idle]
  /\ console = <<>> /\ orphans = {}
  /\ oked = {} /\ early = {} /\ unlanded = {} /\ consumed = {} /\ evicted = {}
  /\ wup = {} /\ gup = <<>> /\ gsent = [a \in Addrs |-> {}] /\ wake = {}
  /\ toCarrier = [a \in Addrs |-> <<>>] /\ toWard = [a \in Addrs |-> <<>>]

Fault == faults < scene.faults /\ faults' = faults + 1

\* SelectSeq(s, LAMBDA e : e \notin S), by a function the proofs can expand.
Without(s, S) ==
  LET kept[i \in 0 .. Len(s)] ==
        IF i = 0 THEN <<>>
        ELSE IF s[i] \in S THEN kept[i - 1] ELSE Append(kept[i - 1], s[i])
  IN  kept[Len(s)]
Frames(s) == [i \in DOMAIN s |-> <<"EVENT", s[i]>>]
Newest(s, n) == IF Len(s) > n THEN SubSeq(s, Len(s) - n + 1, Len(s)) ELSE s

-----------------------------------------------------------------------------
(* Sessions. *)

\* What sessions at the addresses A leave behind: their flushes run to the end.
Orphaned(A) ==
  (orphans \cup {saving[a].stores : a \in A} \cup {flushing[a].stores : a \in A}) \ {<<>>}

\* Mutation: the carrier's new session takes over what the old one had sent.
ConnectInheriting(a) ==
  /\ a \in scene.addrs \ wup
  /\ wup' = wup \cup {a}
  /\ pumped' = [pumped EXCEPT ![a] = {}]
  /\ gup' = Append(Without(gup, {a}), a)
  /\ wake' = wake \cup {a}
  /\ orphans' = Orphaned({a})
  /\ saving' = [saving EXCEPT ![a] = Idle] /\ flushing' = [flushing EXCEPT ![a] = Idle]
  /\ toCarrier' = [toCarrier EXCEPT ![a] = <<>>]
  /\ toWard' = [toWard EXCEPT ![a] = <<>>]
  /\ UNCHANGED <<scene, faults, outbox, wstaged, wdisk, aged, broker, gsent, mem, staged,
                 disk, console, oked, early, unlanded, consumed, evicted>>

\* A session opens: connector, attempt, and the carrier's connection.
Connect(a) ==
  /\ a \in scene.addrs \ wup
  /\ wup' = wup \cup {a}
  /\ pumped' = [pumped EXCEPT ![a] = {}]
  /\ gup' = Append(Without(gup, {a}), a)
  /\ gsent' = [gsent EXCEPT ![a] = {}]
  /\ wake' = wake \cup {a}
  /\ orphans' = Orphaned({a})
  /\ saving' = [saving EXCEPT ![a] = Idle] /\ flushing' = [flushing EXCEPT ![a] = Idle]
  /\ toCarrier' = [toCarrier EXCEPT ![a] = <<>>]
  /\ toWard' = [toWard EXCEPT ![a] = <<>>]
  /\ UNCHANGED <<scene, faults, outbox, wstaged, wdisk, aged, broker, mem, staged, disk,
                 console, oked, early, unlanded, consumed, evicted>>

WardEnds(A) ==
  /\ wup' = wup \ A
  /\ loose' = (loose \cup {job[a] : a \in A}) \ {None}
  /\ job' = [a \in Addrs |-> IF a \in A THEN None ELSE job[a]]

CarrierEnds(A) ==
  /\ gup' = Without(gup, A)
  /\ orphans' = Orphaned(A)
  /\ saving' = [a \in Addrs |-> IF a \in A THEN Idle ELSE saving[a]]
  /\ flushing' = [a \in Addrs |-> IF a \in A THEN Idle ELSE flushing[a]]

\* The ward's end closes, by itself or because it sees the other end gone.
WardCloses(a) ==
  /\ a \in wup
  /\ IF a \in ToSet(gup) THEN Fault ELSE UNCHANGED faults
  /\ WardEnds({a})
  /\ UNCHANGED <<scene, ward, received, applied, carrier, gup, gsent, wake, toCarrier, toWard>>

\* The carrier's end closes: off the home network, unpaired, idle, or because
\* the ward is gone.
CarrierCloses(a) ==
  /\ a \in ToSet(gup)
  /\ IF a \in wup THEN Fault ELSE UNCHANGED faults
  /\ CarrierEnds({a})
  /\ UNCHANGED <<scene, ward, broker, mem, staged, disk, console, oked, early, unlanded,
                 consumed, evicted, wup, gsent, wake, toCarrier, toWard>>

-----------------------------------------------------------------------------
(* The ward: offers and their removal. *)

\* Mutation: the outbox is pruned by age only.
PrunedOutboxByAge(s) == Without(s, aged)

\* prune_outbox: by age, then by number.
PrunedOutbox(s) == Newest(Without(s, aged), OutboxCap)

\* Outbox.offer.
Offer(u) ==
  /\ u \in scene.up \ ToSet(outbox) /\ u \notin received \cup oked /\ u \notin aged
  /\ LET others == IF u \in scene.same THEN scene.same ELSE {}
     IN outbox' = PrunedOutbox(Append(Without(PrunedOutbox(outbox), others), u))
  /\ wstaged' = outbox'
  /\ UNCHANGED <<scene, faults, wdisk, aged, pumped, broker, carrier, links>>

\* The ward's one writer.
WardFlush ==
  /\ wstaged # None
  /\ wdisk' = wstaged /\ wstaged' = None
  /\ UNCHANGED <<scene, faults, outbox, aged, pumped, broker, carrier, links>>

\* pump: every entry this session has not sent, oldest first.
Pump(a) ==
  /\ a \in wup
  /\ LET kept == PrunedOutbox(outbox)
         batch == Without(kept, pumped[a])
     IN /\ batch # <<>>
        /\ outbox' = kept
        /\ toCarrier' = [toCarrier EXCEPT ![a] = @ \o Frames(batch)]
        /\ pumped' = [pumped EXCEPT ![a] = @ \cup ToSet(batch)]
  /\ UNCHANGED <<scene, faults, wstaged, wdisk, aged, broker, carrier, wup, gup, gsent, wake, toWard>>

\* A wrap's retention passes.
Age(w) ==
  /\ w \in (ToSet(outbox) \cup ToSet(mem.queue)) \ aged /\ Fault
  /\ aged' = aged \cup {w}
  /\ UNCHANGED <<scene, outbox, wstaged, wdisk, pumped, broker, carrier, links>>

\* The ward's process dies, and loads its outbox anew.
WardCrashes ==
  /\ Fault
  /\ wup' = {} /\ job' = [a \in Addrs |-> None] /\ loose' = {}
  /\ outbox' = PrunedOutbox(wdisk)
  /\ wstaged' = IF outbox' # wdisk THEN outbox' ELSE None
  /\ UNCHANGED <<scene, wdisk, aged, pumped, received, applied, carrier, gup, gsent, wake,
                 toCarrier, toWard>>

\* session: one frame from the carrier.  An ingest under way holds the loop.
WardReceives(a) ==
  /\ a \in wup /\ job[a] = None /\ toWard[a] # <<>>
  /\ LET f == Head(toWard[a])
     IN \/ /\ f[1] = "EVENT"
           /\ received' = received \cup {f[2]}
           /\ job' = [job EXCEPT ![a] = f[2]]
           /\ toCarrier' = [toCarrier EXCEPT ![a] = Append(@, <<"OK", f[2]>>)]
           /\ UNCHANGED <<outbox, wstaged>>
        \/ /\ f[1] = "OK"
           /\ outbox' = Without(outbox, {f[2]})
           /\ wstaged' = IF outbox' # outbox THEN outbox' ELSE wstaged
           /\ UNCHANGED <<received, job, toCarrier>>
  /\ toWard' = [toWard EXCEPT ![a] = Tail(@)]
  /\ UNCHANGED <<scene, faults, wdisk, aged, pumped, loose, applied, carrier, wup, gup, gsent, wake>>

\* Mutation: an ingest that fails is reported as one that applied.
OutcomeAlwaysApplied(d, r) ==
  /\ r = "applied"
  /\ \/ applied' = applied \cup {d} /\ UNCHANGED faults
     \/ UNCHANGED applied /\ Fault

\* What the broker may answer: it fails only by a fault.
Outcome(d, r) ==
  CASE d \in applied -> r = "unchanged" /\ UNCHANGED <<applied, faults>>
    [] d \notin applied /\ r = "applied" -> applied' = applied \cup {d} /\ UNCHANGED faults
    [] d \notin applied /\ r # "applied" -> r = "failed" /\ Fault /\ UNCHANGED applied

\* An ingest ends, and its session reports the result.
Ingested(a, r) ==
  /\ job[a] # None
  /\ Outcome(job[a], r)
  /\ toCarrier' = [toCarrier EXCEPT ![a] = Append(@, <<r, job[a]>>)]
  /\ job' = [job EXCEPT ![a] = None]
  /\ UNCHANGED <<scene, ward, loose, received, carrier, wup, gup, gsent, wake, toWard>>

\* An ingest whose session has closed ends all the same; the ACK is lost.
IngestedLoose(d, r) ==
  /\ d \in loose
  /\ Outcome(d, r)
  /\ loose' = loose \ {d}
  /\ UNCHANGED <<scene, ward, job, received, carrier, links>>

-----------------------------------------------------------------------------
(* The carrier's stores. *)

Waiting == {"queued", "sent"}
Acked == Acks

\* Mutation: a repeated frame moves a record back.
AdvancedAnyway(old, new) == old # new

\* DeliveryState.advanced_by: records only move forward, and a later ACK
\* replaces only a failed one.
Advanced(old, new) ==
  /\ old # new
  /\ \/ old = "none"
     \/ new \in Acked /\ (old \notin Acked \/ old = "failed")
     \/ new \in {"received", "rejected"} /\ old \in Waiting
     \/ new = "sent" /\ old = "queued"

\* set_delivery, for every wrap of D.
Recorded(m, D, st) ==
  [m EXCEPT !.delivery =
     [d \in Down |-> IF d \in D /\ Advanced(@[d], st) THEN st ELSE @[d]]]

\* prune_queue: by age, then by number; what still waited is rejected.
PrunedQueue(m) ==
  LET kept == Newest(Without(m.queue, aged), QueueCap)
      dropped == {d \in ToSet(m.queue) \ ToSet(kept) : m.delivery[d] \in Waiting}
  IN  Recorded([m EXCEPT !.queue = kept], dropped, "rejected")

\* The new state of the stores, with a snapshot of each that changed; stage.
Staged(m) ==
  /\ mem' = m
  /\ staged' = [x \in Stores |-> IF m[x] # mem[x] THEN m[x] ELSE staged[x]]

\* The files a caller then flushes, in the order of Inner.flush.
Flushed(old, new) ==
  LET one(x) == IF new[x] # old[x] THEN <<x>> ELSE <<>>
  IN  one("queue") \o one("delivery") \o one("inbox") \o one("seen")
Dirty(m) == Flushed(mem, m)

\* Persist.flush: the newest snapshot, if any; a failed write is logged, and
\* what only it would have stored is noted.
Written(x, lands) ==
  /\ IF lands THEN UNCHANGED faults ELSE staged[x] # None /\ Fault
  /\ disk' = IF staged[x] # None /\ lands THEN [disk EXCEPT ![x] = staged[x]] ELSE disk
  /\ staged' = [staged EXCEPT ![x] = None]
  /\ unlanded' = IF lands \/ x \notin {"inbox", "queue"} THEN unlanded
                 ELSE unlanded \cup (ToSet(staged[x]) \ ToSet(disk[x]))

\* GuardianLink.send, from the console, which sends each wrap once: to the newest
\* session, whose channel may be full.
Send(d, roomy) ==
  /\ console = <<>> /\ d \in scene.down \ aged /\ mem.delivery[d] = "none"
  /\ IF roomy THEN UNCHANGED faults ELSE gup # <<>> /\ Fault
  /\ LET queued == IF d \in ToSet(mem.queue) THEN mem.queue ELSE Append(mem.queue, d)
         m == PrunedQueue([mem EXCEPT !.queue = queued])
         a == Last(gup)
         sent == gup # <<>> /\ (roomy \/ d \in gsent[a])
     IN /\ Staged(Recorded(m, {d}, IF sent THEN "sent" ELSE "queued"))
        /\ evicted' = evicted \cup (ToSet(queued) \ ToSet(m.queue))
        /\ console' = Dirty(mem')
        /\ IF sent /\ d \notin gsent[a]
           THEN /\ toWard' = [toWard EXCEPT ![a] = Append(@, <<"EVENT", d>>)]
                /\ gsent' = [gsent EXCEPT ![a] = @ \cup {d}]
           ELSE UNCHANGED <<toWard, gsent>>
        /\ wake' = IF gup # <<>> /\ ~sent THEN wake \cup {a} ELSE wake
  /\ UNCHANGED <<scene, ward, broker, disk, saving, flushing, orphans, oked, early, unlanded,
                 consumed, wup, gup, toCarrier>>

\* One round of a session's flusher: what the queue holds and this session has
\* not written.
FlusherRound(a) ==
  /\ a \in ToSet(gup) /\ a \in wake /\ flushing[a] = Idle
  /\ LET m == PrunedQueue(mem)
         fresh == Without(m.queue, gsent[a])
     IN /\ Staged(Recorded(m, ToSet(fresh), "sent"))
        /\ evicted' = evicted \cup (ToSet(mem.queue) \ ToSet(m.queue))
        /\ gsent' = [gsent EXCEPT ![a] = ToSet(m.queue)]
        /\ flushing' = [flushing EXCEPT ![a] = [stores |-> Dirty(mem'), then |-> fresh]]
  /\ wake' = wake \ {a}
  /\ UNCHANGED <<scene, faults, ward, broker, disk, saving, console, orphans, oked,
                 early, unlanded, consumed, wup, gup, toCarrier, toWard>>

\* The flusher's write of one file, and its frames after the last.
FlusherSaves(a, lands) ==
  /\ flushing[a].stores # <<>>
  /\ Written(Head(flushing[a].stores), lands)
  /\ flushing' = [flushing EXCEPT ![a].stores = Tail(@)]
  /\ UNCHANGED <<scene, ward, broker, mem, saving, console, orphans, oked, early, consumed,
                 evicted, links>>
FlusherWrites(a) ==
  /\ a \in ToSet(gup) /\ flushing[a].stores = <<>> /\ flushing[a].then # <<>>
  /\ toWard' = [toWard EXCEPT ![a] = @ \o Frames(flushing[a].then)]
  /\ flushing' = [flushing EXCEPT ![a] = Idle]
  /\ UNCHANGED <<scene, faults, ward, broker, mem, staged, disk, saving, console, orphans,
                 oked, early, unlanded, consumed, evicted, wup, gup, gsent, wake, toCarrier>>

-----------------------------------------------------------------------------
(* The carrier: what comes in. *)

\* The reader answers OK for u.
Stored(u) == u \in ToSet(disk.inbox) \cup consumed \cup evicted
AnswerOk(a, u) ==
  /\ toWard' = [toWard EXCEPT ![a] = Append(@, <<"OK", u>>)]
  /\ oked' = oked \cup {u}

\* Mutation: a new wrap is answered before its flush, as a duplicate is.
StoredAfterAnswer(a, u) ==
  /\ Staged([mem EXCEPT !.seen = @ \cup {u}, !.inbox = Newest(Append(@, u), InboxCap)])
  /\ evicted' = evicted \cup (ToSet(Append(mem.inbox, u)) \ ToSet(mem'.inbox))
  /\ orphans' = orphans \cup {Dirty(mem')}
  /\ AnswerOk(a, u)
  /\ UNCHANGED <<saving, early>>

\* inbound_wrap, a new wrap: into the inbox, which may push out the oldest, and
\* answered once both files are written.
StoredThenAnswered(a, u) ==
  /\ Staged([mem EXCEPT !.seen = @ \cup {u}, !.inbox = Newest(Append(@, u), InboxCap)])
  /\ evicted' = evicted \cup (ToSet(Append(mem.inbox, u)) \ ToSet(mem'.inbox))
  /\ saving' = [saving EXCEPT ![a] = [stores |-> Dirty(mem'), then |-> <<u>>]]
  /\ UNCHANGED <<toWard, oked, early, orphans>>

\* A wrap of the ward.
CarrierTakes(a) ==
  /\ a \in ToSet(gup) /\ saving[a] = Idle
  /\ toCarrier[a] # <<>> /\ Head(toCarrier[a])[1] = "EVENT"
  /\ LET u == Head(toCarrier[a])[2]
     IN IF u \notin mem.seen THEN StoredThenAnswered(a, u)
        ELSE /\ AnswerOk(a, u)
             /\ early' = IF Stored(u) THEN early ELSE early \cup {u}
             /\ UNCHANGED <<mem, staged, saving, evicted, orphans>>
  /\ toCarrier' = [toCarrier EXCEPT ![a] = Tail(@)]
  /\ UNCHANGED <<scene, faults, ward, broker, disk, flushing, console, unlanded, consumed,
                 wup, gup, gsent, wake>>

\* An OK of the ward, for a wrap written to it.
CarrierSeesOk(a) ==
  /\ a \in ToSet(gup) /\ saving[a] = Idle
  /\ toCarrier[a] # <<>> /\ Head(toCarrier[a])[1] = "OK"
  /\ LET d == Head(toCarrier[a])[2]
     IN IF d \in gsent[a] \/ mem.delivery[d] \notin {"none", "queued"}
        THEN /\ Staged(Recorded([mem EXCEPT !.queue = Without(@, {d})],
                               {d} \cap {e \in Down : mem.delivery[e] # "none"}, "received"))
             /\ saving' = [saving EXCEPT ![a].stores = Dirty(mem')]
        ELSE UNCHANGED <<mem, staged, saving>>
  /\ toCarrier' = [toCarrier EXCEPT ![a] = Tail(@)]
  /\ UNCHANGED <<scene, faults, ward, broker, disk, flushing, console, orphans, oked,
                 early, unlanded, consumed, evicted, wup, gup, gsent, wake, toWard>>

\* An ACK of the ward, for a wrap that was sent.
CarrierSeesAck(a) ==
  /\ a \in ToSet(gup) /\ saving[a] = Idle
  /\ toCarrier[a] # <<>> /\ Head(toCarrier[a])[1] \in Acks
  /\ LET r == Head(toCarrier[a])[1]
         d == Head(toCarrier[a])[2]
     IN IF mem.delivery[d] \notin {"none", "queued"}
        THEN /\ Staged(Recorded(mem, {d}, r))
             /\ saving' = [saving EXCEPT ![a].stores = Dirty(mem')]
        ELSE UNCHANGED <<mem, staged, saving>>
  /\ toCarrier' = [toCarrier EXCEPT ![a] = Tail(@)]
  /\ UNCHANGED <<scene, faults, ward, broker, disk, flushing, console, orphans, oked,
                 early, unlanded, consumed, evicted, wup, gup, gsent, wake, toWard>>

\* The reader's write of one file; after the last it answers the wrap.
ReaderSaves(a, lands) ==
  /\ saving[a].stores # <<>>
  /\ Written(Head(saving[a].stores), lands)
  /\ IF Len(saving[a].stores) = 1
     THEN /\ saving' = [saving EXCEPT ![a] = Idle]
          /\ IF saving[a].then = <<>> THEN UNCHANGED <<toWard, oked>>
             ELSE AnswerOk(a, saving[a].then[1])
     ELSE /\ saving' = [saving EXCEPT ![a].stores = Tail(@)]
          /\ UNCHANGED <<toWard, oked>>
  /\ UNCHANGED <<scene, ward, broker, mem, flushing, console, orphans, early, consumed, evicted,
                 wup, gup, gsent, wake, toCarrier>>

\* A flush that outlived its session.
OrphanSaves(q, lands) ==
  /\ q \in orphans
  /\ Written(Head(q), lands)
  /\ orphans' = (orphans \ {q}) \cup ({Tail(q)} \ {<<>>})
  /\ UNCHANGED <<scene, ward, broker, mem, saving, flushing, console, oked, early, consumed,
                 evicted, links>>

\* The console's call waits for its own flush.
ConsoleSaves(lands) ==
  /\ console # <<>>
  /\ Written(Head(console), lands)
  /\ console' = Tail(console)
  /\ UNCHANGED <<scene, ward, broker, mem, saving, flushing, orphans, oked, early, consumed,
                 evicted, links>>

\* The console drains the inbox and says what it has.
Consume ==
  /\ console = <<>> /\ mem.inbox # <<>>
  /\ consumed' = consumed \cup ToSet(mem.inbox)
  /\ Staged([mem EXCEPT !.inbox = <<>>])
  /\ console' = Dirty(mem')
  /\ UNCHANGED <<scene, faults, ward, broker, disk, saving, flushing, orphans, oked,
                 early, unlanded, evicted, links>>

\* The carrier's process ends and starts anew from its files.
CarrierStarts(files) ==
  /\ mem' = PrunedQueue(files)
  /\ disk' = files
  /\ evicted' = evicted \cup (ToSet(files.queue) \ ToSet(mem'.queue))
  /\ staged' = [x \in Stores |-> IF mem'[x] # files[x] THEN mem'[x] ELSE None]
  /\ console' = Flushed(files, mem')
  /\ saving' = [a \in Addrs |-> Idle] /\ flushing' = [a \in Addrs |-> Idle]
  /\ orphans' = {} /\ gup' = <<>> /\ wake' = {}

\* A crash: what is not on disk is gone.
CarrierCrashes ==
  /\ Fault
  /\ CarrierStarts(disk)
  /\ unlanded' = unlanded \cup (ToSet(mem.queue) \ ToSet(disk.queue))
  /\ UNCHANGED <<scene, ward, broker, oked, early, consumed, wup, gsent,
                 toCarrier, toWard>>

\* GuardianLink.shutdown, and a new link on the same files: what is staged lands.
CarrierRestarts ==
  /\ Fault
  /\ CarrierStarts([x \in Stores |-> IF staged[x] # None THEN staged[x] ELSE disk[x]])
  /\ UNCHANGED <<scene, ward, broker, oked, early, unlanded, consumed, wup, gsent,
                 toCarrier, toWard>>

-----------------------------------------------------------------------------
CarrierReads(a) == CarrierTakes(a) \/ CarrierSeesOk(a) \/ CarrierSeesAck(a)

Next ==
  \/ \E a \in Addrs : \/ Connect(a) \/ WardCloses(a) \/ CarrierCloses(a)
                       \/ Pump(a) \/ WardReceives(a) \/ \E r \in Acks : Ingested(a, r)
                       \/ FlusherRound(a) \/ FlusherWrites(a) \/ CarrierReads(a)
                       \/ \E lands \in BOOLEAN : FlusherSaves(a, lands) \/ ReaderSaves(a, lands)
  \/ \E u \in Up : Offer(u)
  \/ \E w \in Up \cup Down : Age(w)
  \/ \E d \in Down, r \in Acks : IngestedLoose(d, r)
  \/ \E d \in Down, roomy \in BOOLEAN : Send(d, roomy)
  \/ \E q \in orphans, lands \in BOOLEAN : OrphanSaves(q, lands)
  \/ \E lands \in BOOLEAN : ConsoleSaves(lands)
  \/ WardFlush \/ WardCrashes \/ Consume \/ CarrierCrashes \/ CarrierRestarts

\* The steps of the two ends' own tasks, none of them a fault.
TaskStep ==
  \E a \in Addrs :
    \/ Connect(a) \/ Pump(a) \/ WardReceives(a) \/ \E r \in Acks : Ingested(a, r)
    \/ FlusherRound(a) \/ FlusherWrites(a) \/ CarrierReads(a)
    \/ FlusherSaves(a, TRUE) \/ ReaderSaves(a, TRUE)
    \/ a \notin wup /\ CarrierCloses(a)
    \/ a \notin ToSet(gup) /\ WardCloses(a)

\* Each end's tasks go on while its process runs; the connector goes on dialling
\* an address without a session, and an end that is alone sees it
\* (IDLE_TIMEOUT).  One condition does for all: faults are bounded and no task
\* runs for ever, so none can starve another.
Fairness == WF_vars(TaskStep)

Spec == Init /\ [][Next]_vars
FairSpec == Spec /\ Fairness

--------------------------------------------------------------------------------
(* Properties. *)

\* The types of the variables; the caps hold after every step; a session's
\* reader is not held by a flush it does not have.
TypeOK ==
  /\ scene \in Scenes /\ faults \in 0 .. scene.faults
  /\ ToSet(outbox) \subseteq scene.up /\ Len(outbox) <= OutboxCap
  /\ IsInjective(outbox)
  /\ wup \subseteq scene.addrs /\ ToSet(gup) \subseteq scene.addrs /\ IsInjective(gup)
  /\ Len(mem.queue) <= QueueCap /\ Len(mem.inbox) <= InboxCap
  /\ IsInjective(mem.queue) /\ IsInjective(mem.inbox)
  /\ mem.delivery \in [Down -> States] /\ disk.delivery \in [Down -> States]
  /\ \A a \in Addrs : saving[a].then # <<>> => saving[a].stores # <<>>
  /\ \A x \in Stores : staged[x] # None => staged[x] = mem[x]

\* What the carrier has answered is on its disk, or taken by the console, or
\* pushed out by a newer wrap, unless it was answered as a duplicate of a wrap
\* not yet written, or a write failed: a crash of the carrier forgets nothing
\* else the ward has dropped (session's "Stored on disk before the ward drops
\* it from its outbox").
AnsweredIsStored == \A u \in oked \ (early \cup unlanded) : Stored(u)

\* The same without the exception of duplicates, as the comment has it.
AnsweredIsOnDisk == \A u \in oked \ unlanded : Stored(u)

\* What the carrier tells the console of a delivery is so: a wrap reported
\* received or applied was, and one reported as held is in the queue, has
\* reached the ward or was thrown out, unless a crash or a failed write kept it out of the
\* queue's file.
ReportsAreTrue ==
  \A d \in Down :
    /\ mem.delivery[d] \in {"applied", "unchanged"} => d \in applied
    /\ mem.delivery[d] \in {"received"} \cup Acks => d \in received
    /\ mem.delivery[d] \in Waiting => d \in ToSet(mem.queue) \cup received \cup evicted \cup unlanded

\* Both ends may rely on what the carrier says.
CarrierKeepsItsWord == AnsweredIsStored /\ ReportsAreTrue

Rank(st) ==
  [none |-> 0, queued |-> 1, sent |-> 2, received |-> 3, rejected |-> 3,
   failed |-> 4, applied |-> 5, unchanged |-> 5][st]

\* A delivery record never moves back while no crash and no failed write forgets
\* it, a restart of the link included (advanced_by, Persist.close).
RecordsOnlyAdvance ==
  [][\A d \in Down :
       \/ Rank(mem'.delivery[d]) > Rank(mem.delivery[d])
       \/ mem'.delivery[d] = mem.delivery[d]
       \/ CarrierCrashes
       \/ staged["delivery"] = None /\ disk.delivery # mem.delivery]_vars

\* Every offer leaves the outbox and every held wrap the queue before its
\* retention ends, through closed sessions and crashes of either end (pump, flusher).
EverythingLeaves ==
  /\ \A u \in Up : u \in ToSet(outbox) ~> u \notin ToSet(outbox) \ aged
  /\ \A d \in Down : d \in ToSet(mem.queue) ~> d \notin ToSet(mem.queue) \ aged
================================================================================
