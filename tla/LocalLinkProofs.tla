--------------------------- MODULE LocalLinkProofs ---------------------------
(***************************************************************************)
(* The local link, for any number of offers, deliveries, addresses and     *)
(* faults, and any caps: what the carrier has answered is stored, what it  *)
(* reports of a delivery is so, and its records only advance.              *)
(*                                                                         *)
(* The argument follows a wrap through the carrier's stores.  There is one *)
(* staged snapshot of a file and it is the newest state; without one, the  *)
(* file holds what memory does but for failed writes.  So a flush of the   *)
(* inbox's file stores whatever the inbox holds, whoever staged it, and a  *)
(* reader that has the inbox among its files, or had no need of it, may    *)
(* answer at its end.                                                      *)
(***************************************************************************)
EXTENDS LocalLink, FoldProofs, SequenceTheorems

FromWard == ({"EVENT"} \X Up) \cup (({"OK"} \cup Acks) \X Down)
FromCarrier == ({"EVENT"} \X Down) \cup ({"OK"} \X Up)

WardTypes ==
  /\ outbox \in Seq(Up) /\ wstaged \in Seq(Up) \cup {None} /\ wdisk \in Seq(Up)
  /\ aged \subseteq Up \cup Down
  /\ pumped \in [Addrs -> SUBSET Up]
  /\ job \in [Addrs -> Down \cup {None}] /\ loose \subseteq Down
  /\ received \subseteq Down /\ applied \subseteq Down

CarrierTypes ==
  /\ mem \in Files /\ disk \in Files
  /\ staged = [x \in Stores |-> staged[x]]
  /\ \A x \in Stores : staged[x] # None => staged[x] = mem[x]
  /\ oked \subseteq Up /\ early \subseteq Up /\ consumed \subseteq Up
  /\ unlanded \subseteq Up \cup Down /\ evicted \subseteq Up \cup Down

FlushTypes ==
  /\ saving \in [Addrs -> [stores : Seq(Stores), then : Seq(Up)]]
  /\ flushing \in [Addrs -> [stores : Seq(Stores), then : Seq(Down)]]
  /\ console \in Seq(Stores)
  /\ orphans \subseteq Seq(Stores) \ {<<>>}

LinkTypes ==
  /\ wup \subseteq Addrs /\ gup \in Seq(Addrs)
  /\ gsent \in [Addrs -> SUBSET Down] /\ wake \subseteq Addrs
  /\ toCarrier \in [Addrs -> Seq(FromWard)] /\ toWard \in [Addrs -> Seq(FromCarrier)]

TypeInv ==
  /\ scene \in Scenes /\ faults \in Nat
  /\ WardTypes /\ CarrierTypes /\ FlushTypes /\ LinkTypes

\* What the inbox's file holds is in the inbox or has left it, and the other way round but
\* for a staged snapshot; the last wrap taken in since the last start is known to be.
InboxInv ==
  /\ ToSet(disk.inbox) \subseteq ToSet(mem.inbox) \cup consumed \cup evicted
  /\ staged["inbox"] = None => ToSet(mem.inbox) \subseteq ToSet(disk.inbox) \cup unlanded
  /\ staged["inbox"] # None /\ mem.inbox # <<>> => Last(mem.inbox) \in mem.seen

\* A reader about to answer for a wrap has the inbox's flush ahead of it, or needs none.
Safe(u) == Stored(u) \/ u \in unlanded
Answerable(a) ==
  LET u == saving[a].then[1]
  IN  Safe(u) \/ (u \in ToSet(mem.inbox) /\ "inbox" \in ToSet(saving[a].stores))
AnswersInv == \A a \in Addrs : saving[a].then # <<>> => Answerable(a)

\* A delivery record, in memory or on disk, speaks of what the ward did, as the ward's frames
\* do; one that waits is in the queue, or left it for a reason.
Gone == received \cup evicted \cup unlanded
Reported(d, st) ==
  /\ st \in {"applied", "unchanged"} => d \in applied
  /\ st \in {"received"} \cup Acks => d \in received
  /\ st \in Waiting => d \in ToSet(mem.queue) \cup Gone
Truthful(record) == \A d \in Down : Reported(d, record[d])
FramesInv ==
  /\ \A a \in Addrs : job[a] # None => job[a] \in received
  /\ \A a \in Addrs : \A f \in ToSet(toCarrier[a]) :
       /\ f[1] \in {"applied", "unchanged"} => f[2] \in applied
       /\ f[1] \in {"OK"} \cup Acks => f[2] \in received
RecordsInv ==
  /\ Truthful(mem.delivery) /\ Truthful(disk.delivery)
  /\ staged["queue"] = None => ToSet(mem.queue) \subseteq ToSet(disk.queue) \cup unlanded

IInv == TypeInv /\ InboxInv /\ AnswersInv /\ AnsweredIsStored /\ FramesInv /\ RecordsInv

-----------------------------------------------------------------------------
(* Sequences. *)

\* The set of a sequence follows its making: of an append, a concatenation, a tail.
LEMMA SetOfAppend ==
  ASSUME NEW S, NEW s \in Seq(S), NEW e \in S
  PROVE  Append(s, e) \in Seq(S) /\ ToSet(Append(s, e)) = ToSet(s) \cup {e}
<1>1. /\ Append(s, e) \in Seq(S)
      /\ DOMAIN Append(s, e) = 1 .. Len(s) + 1 /\ DOMAIN s = 1 .. Len(s) /\ Len(s) \in Nat
      /\ \A i \in 1 .. Len(s) : Append(s, e)[i] = s[i]
      /\ Append(s, e)[Len(s) + 1] = e
  BY AppendProperties
<1>2. 1 .. Len(s) + 1 = (1 .. Len(s)) \cup {Len(s) + 1}
  BY <1>1
<1> QED
  BY <1>1, <1>2 DEF ToSet

LEMMA SetOfConcat ==
  ASSUME NEW S, NEW s \in Seq(S), NEW t \in Seq(S)
  PROVE  s \o t \in Seq(S) /\ ToSet(s \o t) = ToSet(s) \cup ToSet(t)
<1>1. s \o t \in Seq(S) /\ Range(s \o t) = Range(s) \cup Range(t)
  BY ConcatProperties, RangeConcatenation
<1> QED
  BY <1>1 DEF ToSet, Range

LEMMA SetOfTail ==
  ASSUME NEW S, NEW s \in Seq(S), s # <<>>
  PROVE  /\ Head(s) \in S /\ Head(s) \in ToSet(s)
         /\ Tail(s) \in Seq(S) /\ ToSet(s) = {Head(s)} \cup ToSet(Tail(s))
<1>1. /\ Head(s) = s[1] /\ Head(s) \in S /\ Tail(s) \in Seq(S) /\ Len(Tail(s)) = Len(s) - 1
      /\ \A i \in 1 .. Len(Tail(s)) : Tail(s)[i] = s[i + 1]
  BY HeadTailProperties
<1>2. /\ DOMAIN s = 1 .. Len(s) /\ DOMAIN Tail(s) = 1 .. Len(Tail(s))
      /\ Len(s) \in Nat \ {0}
  BY <1>1
<1>3. \A i \in 2 .. Len(s) : i - 1 \in 1 .. Len(Tail(s)) /\ Tail(s)[i - 1] = s[i]
  BY <1>1, <1>2
<1>4. ToSet(s) \subseteq {Head(s)} \cup ToSet(Tail(s))
  <2> SUFFICES ASSUME NEW i \in 1 .. Len(s) PROVE s[i] \in {Head(s)} \cup ToSet(Tail(s))
    BY <1>2 DEF ToSet
  <2>1. i = 1 \/ i \in 2 .. Len(s)
    BY <1>2
  <2> QED
    BY <1>1, <1>2, <1>3, <2>1 DEF ToSet
<1>5. {Head(s)} \cup ToSet(Tail(s)) \subseteq ToSet(s)
  <2>1. \A i \in 1 .. Len(Tail(s)) : i + 1 \in 1 .. Len(s)
    BY <1>1, <1>2
  <2> QED
    BY <1>1, <1>2, <2>1 DEF ToSet
<1> QED
  BY <1>1, <1>4, <1>5

LEMMA SetOfEmpty == ToSet(<<>>) = {}
BY DEF ToSet

LEMMA InSet ==
  ASSUME NEW S, NEW s \in Seq(S)
  PROVE  ToSet(s) \subseteq S
BY DEF ToSet

\* A cap leaves a sequence of the same elements.
LEMMA NewestIsSeq ==
  ASSUME NEW S, NEW s \in Seq(S), NEW n \in Nat
  PROVE  Newest(s, n) \in Seq(S)
<1>1. CASE Len(s) > n
  <2>1. \A i \in Len(s) - n + 1 .. Len(s) : s[i] \in S
    BY <1>1
  <2> QED
    BY <1>1, <2>1, SubSeqProperties DEF Newest
<1>2. CASE ~(Len(s) > n)
  BY <1>2 DEF Newest
<1> QED
  BY <1>1, <1>2

\* What Without leaves of the first n elements.
Keeps(f, n, s, X) ==
  f = [i \in 0 .. n |-> IF i = 0 THEN <<>>
                        ELSE IF s[i] \in X THEN f[i - 1] ELSE Append(f[i - 1], s[i])]

\* The function Without is made from exists, by the least length without one.
LEMMA KeepsExists ==
  ASSUME NEW s, NEW X, NEW n \in Nat
  PROVE  \E f : Keeps(f, n, s, X)
<1> DEFINE B == {k \in Nat : ~ \E f : Keeps(f, k, s, X)}
<1> SUFFICES ASSUME B # {} PROVE FALSE
  OBVIOUS
<1>1. PICK m \in B : \A k \in B : m <= k
  <2> HIDE DEF B
  <2>1. B \subseteq Nat
    BY DEF B
  <2> QED
    BY <2>1, Least
<1>2. CASE m = 0
  <2>1. Keeps([i \in 0 .. 0 |-> <<>>], 0, s, X)
    BY DEF Keeps
  <2> QED
    BY <1>1, <1>2, <2>1
<1>3. CASE m # 0
  <2>1. m - 1 \in Nat /\ m - 1 \notin B
    BY <1>1, <1>3
  <2>2. PICK f : Keeps(f, m - 1, s, X)
    BY <2>1
  <2> DEFINE g == [i \in 0 .. m |-> IF i = m
                    THEN (IF s[m] \in X THEN f[m - 1] ELSE Append(f[m - 1], s[m])) ELSE f[i]]
  <2>3. \A i \in 0 .. m - 1 : g[i] = f[i]
    BY <1>1, <2>1
  <2>4. \A i \in 0 .. m - 1 :
          f[i] = IF i = 0 THEN <<>>
                 ELSE IF s[i] \in X THEN f[i - 1] ELSE Append(f[i - 1], s[i])
    BY <2>2 DEF Keeps
  <2>5. \A i \in 0 .. m :
          g[i] = IF i = 0 THEN <<>>
                 ELSE IF s[i] \in X THEN g[i - 1] ELSE Append(g[i - 1], s[i])
    <3> SUFFICES ASSUME NEW i \in 0 .. m
                 PROVE  g[i] = IF i = 0 THEN <<>>
                               ELSE IF s[i] \in X THEN g[i - 1] ELSE Append(g[i - 1], s[i])
      OBVIOUS
    <3>1. CASE i = m
      <4>1. g[m] = IF s[m] \in X THEN f[m - 1] ELSE Append(f[m - 1], s[m])
        BY <1>1
      <4>2. g[m - 1] = f[m - 1]
        BY <2>1, <2>3
      <4> HIDE DEF g
      <4> QED
        BY <1>3, <3>1, <4>1, <4>2
    <3>2. CASE i # m
      <4>1. i \in 0 .. m - 1 /\ (i # 0 => i - 1 \in 0 .. m - 1)
        BY <1>1, <3>2
      <4> HIDE DEF g
      <4> QED
        BY <2>3, <2>4, <4>1
    <3> QED
      BY <3>1, <3>2
  <2>6. Keeps(g, m, s, X)
    <3>1. g = [i \in 0 .. m |-> g[i]]
      OBVIOUS
    <3> HIDE DEF g
    <3> QED
      BY <2>5, <3>1 DEF Keeps
  <2> QED
    BY <1>1, <2>6
<1> QED
  BY <1>2, <1>3

\* It holds what it should, by the least index at which it does not.
LEMMA KeepsIs ==
  ASSUME NEW S, NEW s \in Seq(S), NEW X, NEW f, Keeps(f, Len(s), s, X)
  PROVE  f[Len(s)] \in Seq(S) /\ ToSet(f[Len(s)]) = ToSet(s) \ X
<1> DEFINE Right(i) == f[i] \in Seq(S) /\ ToSet(f[i]) = {s[j] : j \in 1 .. i} \ X
           B == {i \in 0 .. Len(s) : ~Right(i)}
<1> SUFFICES ASSUME B # {} PROVE FALSE
  <2>1. ToSet(s) = {s[j] : j \in 1 .. Len(s)} /\ Len(s) \in 0 .. Len(s)
    BY DEF ToSet
  <2> QED
    BY <2>1
<1>0. Len(s) \in Nat
  OBVIOUS
<1>1. PICK m \in B : \A k \in B : m <= k
  <2>1. B \subseteq Nat
    BY <1>0
  <2> HIDE DEF B
  <2> QED
    BY <2>1, Least
<1>2. m \in 0 .. Len(s) /\ ~Right(m)
  OBVIOUS
<1>3. f[m] = IF m = 0 THEN <<>>
             ELSE IF s[m] \in X THEN f[m - 1] ELSE Append(f[m - 1], s[m])
  BY <1>2 DEF Keeps
<1>4. CASE m = 0
  <2>1. f[m] = <<>> /\ {s[j] : j \in 1 .. m} = {}
    BY <1>3, <1>4
  <2> QED
    BY <1>2, <2>1, SetOfEmpty
<1>5. CASE m # 0
  <2>1. m - 1 \in 0 .. Len(s) /\ m \in 1 .. Len(s)
    BY <1>0, <1>2, <1>5
  <2>2. Right(m - 1)
    <3>1. m - 1 \notin B
      <4>1. ~(m <= m - 1)
        BY <2>1, <1>0
      <4> HIDE DEF B
      <4> QED
        BY <1>1, <4>1
    <3> QED
      BY <2>1, <3>1
  <2>3. {s[j] : j \in 1 .. m} = {s[j] : j \in 1 .. m - 1} \cup {s[m]}
    <3>1. 1 .. m = (1 .. m - 1) \cup {m}
      BY <2>1
    <3> QED
      BY <3>1
  <2>4. s[m] \in S
    BY <2>1
  <2>5. CASE s[m] \in X
    BY <1>2, <1>3, <1>5, <2>2, <2>3, <2>5
  <2>6. CASE s[m] \notin X
    <3>1. f[m] = Append(f[m - 1], s[m])
      BY <1>3, <1>5, <2>6
    <3>2. f[m] \in Seq(S) /\ ToSet(f[m]) = ToSet(f[m - 1]) \cup {s[m]}
      BY <2>2, <2>4, <3>1, SetOfAppend
    <3> QED
      BY <1>2, <2>2, <2>3, <2>6, <3>2
  <2> QED
    BY <2>5, <2>6
<1> QED
  BY <1>4, <1>5

\* Without keeps the elements outside X.
LEMMA WithoutIs ==
  ASSUME NEW S, NEW s \in Seq(S), NEW X
  PROVE  Without(s, X) \in Seq(S) /\ ToSet(Without(s, X)) = ToSet(s) \ X
<1> DEFINE kept == CHOOSE f : Keeps(f, Len(s), s, X)
<1>1. Without(s, X) = kept[Len(s)]
  BY DEF Without, Keeps
<1>2. Keeps(kept, Len(s), s, X)
  BY KeepsExists
<1> HIDE DEF kept
<1>3. kept[Len(s)] \in Seq(S) /\ ToSet(kept[Len(s)]) = ToSet(s) \ X
  BY <1>2, KeepsIs
<1> QED
  BY <1>1, <1>3

-----------------------------------------------------------------------------
(* The carrier's stores. *)

USE NoneAssumption

\* set_delivery changes records only, and those only forward.
LEMMA RecordedIs ==
  ASSUME NEW m \in Files, NEW D, NEW st \in States
  PROVE  /\ Recorded(m, D, st) \in Files
         /\ Recorded(m, D, st).queue = m.queue /\ Recorded(m, D, st).inbox = m.inbox
         /\ Recorded(m, D, st).seen = m.seen
         /\ \A d \in Down : Recorded(m, D, st).delivery[d] =
              IF d \in D /\ Advanced(m.delivery[d], st) THEN st ELSE m.delivery[d]
BY DEF Recorded, Files

\* prune_queue changes the queue, and rejects what it drops.
LEMMA PrunedQueueIs ==
  ASSUME NEW m \in Files
  PROVE  /\ PrunedQueue(m) \in Files
         /\ PrunedQueue(m).inbox = m.inbox /\ PrunedQueue(m).seen = m.seen
         /\ \A d \in Down : \/ PrunedQueue(m).delivery[d] = m.delivery[d]
                            \/ /\ Advanced(m.delivery[d], "rejected")
                               /\ PrunedQueue(m).delivery[d] = "rejected"
<1> DEFINE kept == Newest(Without(m.queue, aged), QueueCap)
           dropped == {d \in ToSet(m.queue) \ ToSet(kept) : m.delivery[d] \in Waiting}
           n == [m EXCEPT !.queue = kept]
<1>1. kept \in Seq(Down)
  BY WithoutIs, NewestIsSeq, CapsAssumption DEF Files
<1>2. PrunedQueue(m) = Recorded(n, dropped, "rejected")
  BY DEF PrunedQueue
<1> HIDE DEF kept, dropped
<1>3. /\ n \in Files
      /\ n.inbox = m.inbox /\ n.seen = m.seen /\ n.delivery = m.delivery
  BY <1>1 DEF Files
<1> HIDE DEF n
<1> "rejected" \in States
  BY DEF States
<1> QED
  BY <1>2, <1>3, RecordedIs

\* A caller flushes exactly the files that changed.
LEMMA FlushedIs ==
  ASSUME NEW old, NEW new
  PROVE  /\ Flushed(old, new) \in Seq(Stores)
         /\ ToSet(Flushed(old, new)) = {x \in Stores : new[x] # old[x]}
<1> DEFINE one(x) == IF new[x] # old[x] THEN <<x>> ELSE <<>>
           named(x) == IF new[x] # old[x] THEN {x} ELSE {}
<1>1. ASSUME NEW x \in Stores PROVE one(x) \in Seq(Stores) /\ ToSet(one(x)) = named(x)
  BY DEF ToSet
<1>2. Flushed(old, new) = one("queue") \o one("delivery") \o one("inbox") \o one("seen")
  BY DEF Flushed
<1> HIDE DEF one
<1>3. {"queue", "delivery", "inbox", "seen"} \subseteq Stores
  BY DEF Stores
<1> HIDE DEF named
<1> DEFINE two == one("queue") \o one("delivery")
           three == two \o one("inbox")
<1>4. two \in Seq(Stores) /\ ToSet(two) = named("queue") \cup named("delivery")
  BY <1>1, <1>3, SetOfConcat
<1> HIDE DEF two
<1>5. three \in Seq(Stores) /\ ToSet(three) = named("queue") \cup named("delivery") \cup named("inbox")
  BY <1>1, <1>3, <1>4, SetOfConcat
<1>6. Flushed(old, new) = three \o one("seen")
  BY <1>2 DEF two
<1> HIDE DEF three
<1>7. /\ Flushed(old, new) \in Seq(Stores)
      /\ ToSet(Flushed(old, new))
           = named("queue") \cup named("delivery") \cup named("inbox") \cup named("seen")
  BY <1>1, <1>3, <1>5, <1>6, SetOfConcat
<1> QED
  BY <1>7 DEF Stores, named

\* stage leaves one snapshot of each file, its newest state.
LEMMA StagedIs ==
  ASSUME TypeInv, NEW m \in Files, Staged(m)
  PROVE  /\ mem' = m
         /\ staged' = [x \in Stores |-> staged'[x]]
         /\ \A x \in Stores : staged'[x] = IF m[x] # mem[x] THEN m[x] ELSE staged[x]
         /\ \A x \in Stores : staged'[x] # None => staged'[x] = m[x]
         /\ Dirty(mem') \in Seq(Stores)
         /\ ToSet(Dirty(mem')) = {x \in Stores : m[x] # mem[x]}
<1>1. mem' = m /\ staged' = [x \in Stores |-> IF m[x] # mem[x] THEN m[x] ELSE staged[x]]
  BY DEF Staged
<1>2. /\ Dirty(mem') \in Seq(Stores)
      /\ ToSet(Dirty(mem')) = {x \in Stores : m[x] # mem[x]}
  BY <1>1, FlushedIs DEF Dirty
<1>3. \A x \in Stores : staged[x] # None => staged[x] = mem[x]
  BY DEF TypeInv, CarrierTypes
<1> QED
  BY <1>1, <1>2, <1>3

\* What a file or a snapshot may hold.
LEMMA StoreTypes ==
  ASSUME NEW m \in Files
  PROVE  /\ m["queue"] \in Seq(Down) /\ m["delivery"] \in [Down -> States]
         /\ m["inbox"] \in Seq(Up) /\ m["seen"] \in SUBSET Up
         /\ \A x \in Stores : m[x] # None
BY DEF Files, Stores

\* Persist.flush: the file takes the newest snapshot, or what was lost is noted.
LEMMA WrittenIs ==
  ASSUME TypeInv, NEW x \in Stores, NEW lands \in BOOLEAN, Written(x, lands)
  PROVE  /\ disk' \in Files
         /\ staged' = [y \in Stores |-> staged'[y]]
         /\ \A y \in Stores : staged'[y] = IF y = x THEN None ELSE staged[y]
         /\ \A y \in Stores : disk'[y] = IF y = x /\ staged[y] # None /\ lands
                                        THEN mem[y] ELSE disk[y]
         /\ unlanded \subseteq unlanded' /\ unlanded' \subseteq Up \cup Down
         /\ ~lands /\ x \in {"inbox", "queue"} => ToSet(mem[x]) \subseteq ToSet(disk[x]) \cup unlanded'
         /\ faults' \in Nat
<1>1. /\ mem \in Files /\ disk \in Files /\ faults \in Nat
      /\ staged = [y \in Stores |-> staged[y]]
      /\ \A y \in Stores : staged[y] # None => staged[y] = mem[y]
      /\ unlanded \subseteq Up \cup Down
  BY DEF TypeInv, CarrierTypes
<1>2. staged' = [staged EXCEPT ![x] = None]
  BY DEF Written
<1>3. disk' = IF staged[x] # None /\ lands THEN [disk EXCEPT ![x] = mem[x]] ELSE disk
  BY <1>1 DEF Written
<1>4. [disk EXCEPT ![x] = mem[x]] \in Files
  BY <1>1 DEF Files, Stores
<1>5. \A y \in Stores : [disk EXCEPT ![x] = mem[x]][y] = IF y = x THEN mem[y] ELSE disk[y]
  BY <1>1 DEF Files, Stores
<1>6. /\ unlanded \subseteq unlanded' /\ unlanded' \subseteq Up \cup Down
      /\ ~lands /\ x \in {"inbox", "queue"} => ToSet(mem[x]) \subseteq ToSet(disk[x]) \cup unlanded'
  <2>1. x \in {"inbox", "queue"} => ToSet(mem[x]) \subseteq Up \cup Down
    BY <1>1, StoreTypes, InSet
  <2>2. ~lands => staged[x] = mem[x]
    BY <1>1 DEF Written
  <2>3. unlanded' = IF lands \/ x \notin {"inbox", "queue"} THEN unlanded
                    ELSE unlanded \cup (ToSet(mem[x]) \ ToSet(disk[x]))
    BY <2>2 DEF Written
  <2> QED
    BY <1>1, <2>1, <2>3
<1>7. faults' \in Nat
  BY <1>1 DEF Written, Fault
<1> QED
  BY <1>1, <1>2, <1>3, <1>4, <1>5, <1>6, <1>7

-----------------------------------------------------------------------------
(* Types. *)

LEMMA HeadOf ==
  ASSUME NEW S, NEW s \in Seq(S), s # <<>>
  PROVE  /\ Head(s) \in S /\ Head(s) \in ToSet(s)
         /\ Tail(s) \in Seq(S) /\ ToSet(Tail(s)) \subseteq ToSet(s)
BY SetOfTail

\* The frames of a batch.
LEMMA FramesAre ==
  /\ \A s \in Seq(Up) : Frames(s) \in Seq(FromWard) /\ ToSet(Frames(s)) \subseteq {"EVENT"} \X Up
  /\ \A s \in Seq(Down) : Frames(s) \in Seq(FromCarrier)
<1>1. ASSUME NEW S, NEW s \in Seq(S)
      PROVE  Frames(s) \in Seq({"EVENT"} \X S) /\ ToSet(Frames(s)) \subseteq {"EVENT"} \X S
  <2>1. Frames(s) = [i \in 1 .. Len(s) |-> <<"EVENT", s[i]>>] /\ Len(s) \in Nat
    BY DEF Frames
  <2>2. \A i \in 1 .. Len(s) : <<"EVENT", s[i]>> \in {"EVENT"} \X S
    OBVIOUS
  <2>3. Frames(s) \in Seq({"EVENT"} \X S)
    BY <2>1, <2>2, IsASeq
  <2> QED
    BY <2>3, InSet
<1>2. {"EVENT"} \X Up \subseteq FromWard /\ {"EVENT"} \X Down \subseteq FromCarrier
  BY DEF FromWard, FromCarrier
<1>3. Seq({"EVENT"} \X Up) \subseteq Seq(FromWard) /\ Seq({"EVENT"} \X Down) \subseteq Seq(FromCarrier)
  BY <1>2, SeqMonotonic
<1> QED
  BY <1>1, <1>3

LEMMA PrunedOutboxIs == \A s \in Seq(Up) : PrunedOutbox(s) \in Seq(Up)
BY WithoutIs, NewestIsSeq, CapsAssumption DEF PrunedOutbox

LEMMA OrphanedIs ==
  ASSUME FlushTypes, NEW A, A \subseteq Addrs
  PROVE  Orphaned(A) \subseteq Seq(Stores) \ {<<>>}
<1>1. \A a \in A : saving[a].stores \in Seq(Stores) /\ flushing[a].stores \in Seq(Stores)
  BY DEF FlushTypes
<1> QED
  BY <1>1 DEF Orphaned, FlushTypes

LEMMA IdleIs ==
  /\ Idle \in [stores : Seq(Stores), then : Seq(Up)]
  /\ Idle \in [stores : Seq(Stores), then : Seq(Down)]
BY DEF Idle

\* An ingest reported as applied was.
LEMMA OutcomeIs ==
  ASSUME TypeInv, NEW d \in Down, NEW r \in Acks, Outcome(d, r)
  PROVE  /\ applied \subseteq applied' /\ applied' \subseteq Down /\ faults' \in Nat
         /\ r \in {"applied", "unchanged"} => d \in applied'
<1>1. applied \subseteq Down /\ faults \in Nat
  BY DEF TypeInv, WardTypes
<1>2. CASE d \in applied
  BY <1>1, <1>2 DEF Outcome
<1>3. CASE d \notin applied /\ r = "applied"
  BY <1>1, <1>3 DEF Outcome
<1>4. CASE d \notin applied /\ r # "applied"
  BY <1>1, <1>4 DEF Outcome, Fault
<1> QED
  BY <1>2, <1>3, <1>4

\* The initial state.
LEMMA InitTypes == Init => TypeInv
<1> SUFFICES ASSUME Init PROVE TypeInv
  OBVIOUS
<1>1. "none" \in States
  BY DEF States
<1>2. mem \in Files /\ disk \in Files
  BY <1>1 DEF Init, Files
<1>3. WardTypes
  BY DEF Init, WardTypes
<1>4. CarrierTypes
  BY <1>2 DEF Init, CarrierTypes
<1>5. FlushTypes
  BY IdleIs DEF Init, FlushTypes
<1>6. LinkTypes
  BY DEF Init, LinkTypes
<1> QED
  BY <1>3, <1>4, <1>5, <1>6 DEF Init, TypeInv

\* The steps of the ward.
LEMMA WardTypeStep ==
  ASSUME TypeInv
  PROVE  /\ \A a \in Addrs : Connect(a) \/ WardCloses(a) \/ Pump(a) \/ WardReceives(a) => TypeInv'
         /\ \A a \in Addrs, r \in Acks : Ingested(a, r) => TypeInv'
         /\ \A u \in Up : Offer(u) => TypeInv'
         /\ \A w \in Up \cup Down : Age(w) => TypeInv'
         /\ \A d \in Down, r \in Acks : IngestedLoose(d, r) => TypeInv'
         /\ WardFlush \/ WardCrashes => TypeInv'
<1> USE DEF ward, broker, flushes, carrier, links
<1>0. /\ scene \in Scenes /\ faults \in Nat
      /\ WardTypes /\ CarrierTypes /\ FlushTypes /\ LinkTypes
  BY DEF TypeInv
<1>1. ASSUME NEW a \in Addrs, Connect(a) PROVE TypeInv'
  <2>1. scene' \in Scenes /\ faults' \in Nat
    BY <1>0, <1>1 DEF Connect
  <2>2. WardTypes'
    BY <1>0, <1>1 DEF Connect, WardTypes
  <2>3. CarrierTypes'
    BY <1>0, <1>1 DEF Connect, CarrierTypes
  <2>4. FlushTypes'
    BY <1>0, <1>1, IdleIs, OrphanedIs DEF Connect, FlushTypes
  <2>5. LinkTypes'
    <3>1. gup' \in Seq(Addrs)
      BY <1>0, <1>1, WithoutIs DEF Connect, LinkTypes
    <3> QED
      BY <1>0, <1>1, <3>1 DEF Connect, LinkTypes
  <2> QED
    BY <2>1, <2>2, <2>3, <2>4, <2>5 DEF TypeInv
<1>2. ASSUME NEW a \in Addrs, WardCloses(a) PROVE TypeInv'
  <2>1. scene' \in Scenes /\ faults' \in Nat
    BY <1>0, <1>2 DEF WardCloses, Fault
  <2>2. WardTypes'
    <3>1. \A b \in Addrs : job[b] \in Down \cup {None}
      BY <1>0 DEF WardTypes
    <3> QED
      BY <1>0, <1>2, <3>1 DEF WardCloses, WardEnds, WardTypes
  <2>3. CarrierTypes' /\ FlushTypes'
    BY <1>0, <1>2 DEF WardCloses, CarrierTypes, FlushTypes
  <2>4. LinkTypes'
    BY <1>0, <1>2 DEF WardCloses, WardEnds, LinkTypes
  <2> QED
    BY <2>1, <2>2, <2>3, <2>4 DEF TypeInv
<1>3. ASSUME NEW a \in Addrs, Pump(a) PROVE TypeInv'
  <2> DEFINE kept == PrunedOutbox(outbox)
             batch == Without(kept, pumped[a])
  <2>1. kept \in Seq(Up)
    BY <1>0, PrunedOutboxIs DEF WardTypes
  <2>2. batch \in Seq(Up) /\ ToSet(batch) \subseteq Up
    BY <2>1, WithoutIs, InSet
  <2>3. Frames(batch) \in Seq(FromWard)
    BY <2>2, FramesAre
  <2>4. /\ outbox' = kept
        /\ toCarrier' = [toCarrier EXCEPT ![a] = @ \o Frames(batch)]
        /\ pumped' = [pumped EXCEPT ![a] = @ \cup ToSet(batch)]
    BY <1>3 DEF Pump
  <2> HIDE DEF batch, kept
  <2>5. WardTypes'
    BY <1>0, <1>3, <2>1, <2>2, <2>4 DEF Pump, WardTypes
  <2>6. LinkTypes'
    <3>1. toCarrier[a] \o Frames(batch) \in Seq(FromWard)
      BY <1>0, <2>3 DEF LinkTypes
    <3> QED
      BY <1>0, <1>3, <2>4, <3>1 DEF Pump, LinkTypes
  <2>7. scene' \in Scenes /\ faults' \in Nat /\ CarrierTypes' /\ FlushTypes'
    BY <1>0, <1>3 DEF Pump, CarrierTypes, FlushTypes
  <2> QED
    BY <2>5, <2>6, <2>7 DEF TypeInv
<1>4. ASSUME NEW a \in Addrs, WardReceives(a) PROVE TypeInv'
  <2> DEFINE f == Head(toWard[a])
  <2>1. toWard[a] \in Seq(FromCarrier) /\ toWard[a] # <<>>
    BY <1>0, <1>4 DEF WardReceives, LinkTypes
  <2>2. f \in FromCarrier /\ Tail(toWard[a]) \in Seq(FromCarrier)
    BY <2>1, HeadOf
  <2>3. f[1] = "EVENT" => f[2] \in Down
    BY <2>2 DEF FromCarrier
  <2>4. \/ /\ f[1] = "EVENT"
           /\ received' = received \cup {f[2]}
           /\ job' = [job EXCEPT ![a] = f[2]]
           /\ toCarrier' = [toCarrier EXCEPT ![a] = Append(@, <<"OK", f[2]>>)]
           /\ UNCHANGED <<outbox, wstaged>>
        \/ /\ f[1] = "OK"
           /\ outbox' = Without(outbox, {f[2]})
           /\ wstaged' = IF outbox' # outbox THEN outbox' ELSE wstaged
           /\ UNCHANGED <<received, job, toCarrier>>
    BY <1>4 DEF WardReceives
  <2> HIDE DEF f
  <2>5. WardTypes'
    <3>1. Without(outbox, {f[2]}) \in Seq(Up)
      BY <1>0, WithoutIs DEF WardTypes
    <3> QED
      BY <1>0, <1>4, <2>3, <2>4, <3>1 DEF WardReceives, WardTypes
  <2>6. LinkTypes'
    <3>1. f[1] = "EVENT" => <<"OK", f[2]>> \in FromWard
      BY <2>3 DEF FromWard
    <3>2. toCarrier' \in [Addrs -> Seq(FromWard)]
      <4>1. f[1] = "EVENT" => Append(toCarrier[a], <<"OK", f[2]>>) \in Seq(FromWard)
        BY <1>0, <3>1 DEF LinkTypes
      <4>2. \/ toCarrier' = toCarrier
            \/ f[1] = "EVENT" /\ toCarrier' = [toCarrier EXCEPT ![a] = Append(@, <<"OK", f[2]>>)]
        BY <2>4
      <4> QED
        BY <1>0, <4>1, <4>2 DEF LinkTypes
    <3>3. toWard' \in [Addrs -> Seq(FromCarrier)]
      BY <1>0, <1>4, <2>2 DEF LinkTypes, WardReceives
    <3> QED
      BY <1>0, <1>4, <3>2, <3>3 DEF WardReceives, LinkTypes
  <2>7. scene' \in Scenes /\ faults' \in Nat /\ CarrierTypes' /\ FlushTypes'
    BY <1>0, <1>4 DEF WardReceives, CarrierTypes, FlushTypes
  <2> QED
    BY <2>5, <2>6, <2>7 DEF TypeInv
<1>5. ASSUME NEW a \in Addrs, NEW r \in Acks, Ingested(a, r) PROVE TypeInv'
  <2>1. job[a] \in Down /\ Outcome(job[a], r)
    BY <1>0, <1>5 DEF Ingested, WardTypes
  <2>2. applied' \subseteq Down /\ faults' \in Nat
    BY <2>1, OutcomeIs
  <2>3. <<r, job[a]>> \in FromWard
    BY <2>1 DEF FromWard
  <2>4. WardTypes'
    BY <1>0, <1>5, <2>2 DEF Ingested, WardTypes
  <2>5. LinkTypes'
    BY <1>0, <1>5, <2>3 DEF Ingested, LinkTypes
  <2>6. scene' \in Scenes /\ CarrierTypes' /\ FlushTypes'
    BY <1>0, <1>5 DEF Ingested, CarrierTypes, FlushTypes
  <2> QED
    BY <2>2, <2>4, <2>5, <2>6 DEF TypeInv
<1>6. ASSUME NEW u \in Up, Offer(u) PROVE TypeInv'
  <2>1. outbox' \in Seq(Up)
    <3> DEFINE others == IF u \in scene.same THEN scene.same ELSE {}
    <3>1. Without(PrunedOutbox(outbox), others) \in Seq(Up)
      BY <1>0, PrunedOutboxIs, WithoutIs DEF WardTypes
    <3>2. Append(Without(PrunedOutbox(outbox), others), u) \in Seq(Up)
      BY <3>1
    <3>3. outbox' = PrunedOutbox(Append(Without(PrunedOutbox(outbox), others), u))
      BY <1>6 DEF Offer
    <3> QED
      BY <3>2, <3>3, PrunedOutboxIs
  <2>2. WardTypes'
    BY <1>0, <1>6, <2>1 DEF Offer, WardTypes
  <2>3. scene' \in Scenes /\ faults' \in Nat /\ CarrierTypes' /\ FlushTypes' /\ LinkTypes'
    BY <1>0, <1>6 DEF Offer, CarrierTypes, FlushTypes, LinkTypes
  <2> QED
    BY <2>2, <2>3 DEF TypeInv
<1>7. ASSUME NEW w \in Up \cup Down, Age(w) PROVE TypeInv'
  <2>1. WardTypes' /\ faults' \in Nat
    BY <1>0, <1>7 DEF Age, Fault, WardTypes
  <2>2. scene' \in Scenes /\ CarrierTypes' /\ FlushTypes' /\ LinkTypes'
    BY <1>0, <1>7 DEF Age, CarrierTypes, FlushTypes, LinkTypes
  <2> QED
    BY <2>1, <2>2 DEF TypeInv
<1>8. ASSUME NEW d \in Down, NEW r \in Acks, IngestedLoose(d, r) PROVE TypeInv'
  <2>1. applied' \subseteq Down /\ faults' \in Nat
    BY <1>8, OutcomeIs DEF IngestedLoose
  <2>2. WardTypes'
    BY <1>0, <1>8, <2>1 DEF IngestedLoose, WardTypes
  <2>3. scene' \in Scenes /\ CarrierTypes' /\ FlushTypes' /\ LinkTypes'
    BY <1>0, <1>8 DEF IngestedLoose, CarrierTypes, FlushTypes, LinkTypes
  <2> QED
    BY <2>1, <2>2, <2>3 DEF TypeInv
<1>9. ASSUME WardFlush \/ WardCrashes PROVE TypeInv'
  <2>1. WardTypes' /\ faults' \in Nat
    BY <1>0, <1>9, PrunedOutboxIs DEF WardFlush, WardCrashes, Fault, WardTypes
  <2>2. scene' \in Scenes /\ CarrierTypes' /\ FlushTypes' /\ LinkTypes'
    BY <1>0, <1>9 DEF WardFlush, WardCrashes, CarrierTypes, FlushTypes, LinkTypes
  <2> QED
    BY <2>1, <2>2 DEF TypeInv
<1> QED
  BY <1>1, <1>2, <1>3, <1>4, <1>5, <1>6, <1>7, <1>8, <1>9

\* The steps of the carrier that write a file: nothing but the file, its snapshot and who has
\* it to flush changes.
LEMMA SavesTypeStep ==
  ASSUME TypeInv, NEW lands \in BOOLEAN
  PROVE  /\ \A a \in Addrs : FlusherSaves(a, lands) \/ ReaderSaves(a, lands) => TypeInv'
         /\ \A q \in orphans : OrphanSaves(q, lands) => TypeInv'
         /\ ConsoleSaves(lands) => TypeInv'
<1> USE DEF ward, broker, flushes, links
<1>0. /\ scene \in Scenes
      /\ WardTypes /\ CarrierTypes /\ FlushTypes /\ LinkTypes
  BY DEF TypeInv
<1>1. ASSUME NEW x \in Stores, Written(x, lands), mem' = mem, oked' \subseteq Up, early' = early,
             consumed' = consumed, evicted' = evicted
      PROVE  CarrierTypes' /\ faults' \in Nat
  <2>1. /\ disk' \in Files /\ staged' = [y \in Stores |-> staged'[y]]
        /\ \A y \in Stores : staged'[y] = IF y = x THEN None ELSE staged[y]
        /\ unlanded' \subseteq Up \cup Down /\ faults' \in Nat
    BY <1>1, WrittenIs
  <2> QED
    BY <1>0, <1>1, <2>1 DEF CarrierTypes
<1>2. ASSUME NEW s \in Seq(Stores), s # <<>>
      PROVE  Head(s) \in Stores /\ Tail(s) \in Seq(Stores)
  BY <1>2, HeadOf
<1>3. ASSUME NEW a \in Addrs, FlusherSaves(a, lands) PROVE TypeInv'
  <2>1. flushing[a].stores \in Seq(Stores) /\ flushing[a].stores # <<>>
    BY <1>0, <1>3 DEF FlushTypes, FlusherSaves
  <2>2. CarrierTypes' /\ faults' \in Nat
    BY <1>0, <1>1, <1>2, <1>3, <2>1 DEF FlusherSaves, CarrierTypes
  <2>3. FlushTypes'
    BY <1>0, <1>2, <1>3, <2>1 DEF FlusherSaves, FlushTypes
  <2>4. scene' \in Scenes /\ WardTypes' /\ LinkTypes'
    BY <1>0, <1>3 DEF FlusherSaves, WardTypes, LinkTypes
  <2> QED
    BY <2>2, <2>3, <2>4 DEF TypeInv
<1>4. ASSUME NEW a \in Addrs, ReaderSaves(a, lands) PROVE TypeInv'
  <2>1. /\ saving[a].stores \in Seq(Stores) /\ saving[a].stores # <<>>
        /\ saving[a].then \in Seq(Up)
    BY <1>0, <1>4 DEF FlushTypes, ReaderSaves
  <2>2. saving[a].then # <<>> => saving[a].then[1] \in Up
    BY <2>1
  <2>3. /\ oked' \subseteq Up
        /\ toWard' \in [Addrs -> Seq(FromCarrier)]
    <3>1. \/ UNCHANGED <<toWard, oked>>
          \/ saving[a].then # <<>> /\ AnswerOk(a, saving[a].then[1])
      BY <1>4 DEF ReaderSaves
    <3>2. \A u \in Up : <<"OK", u>> \in FromCarrier
      BY DEF FromCarrier
    <3>3. CASE UNCHANGED <<toWard, oked>>
      BY <1>0, <3>3 DEF CarrierTypes, LinkTypes
    <3>4. CASE saving[a].then # <<>> /\ AnswerOk(a, saving[a].then[1])
      <4> DEFINE u == saving[a].then[1]
      <4>1. u \in Up /\ <<"OK", u>> \in FromCarrier
        BY <2>2, <3>2, <3>4
      <4>2. /\ toWard' = [toWard EXCEPT ![a] = Append(@, <<"OK", u>>)]
            /\ oked' = oked \cup {u}
        BY <3>4 DEF AnswerOk
      <4> HIDE DEF u
      <4>3. Append(toWard[a], <<"OK", u>>) \in Seq(FromCarrier)
        BY <1>0, <4>1 DEF LinkTypes
      <4> QED
        BY <1>0, <4>1, <4>2, <4>3 DEF CarrierTypes, LinkTypes
    <3> QED
      BY <3>1, <3>3, <3>4
  <2>4. CarrierTypes' /\ faults' \in Nat
    BY <1>0, <1>1, <1>2, <1>4, <2>1, <2>3 DEF ReaderSaves
  <2>5. FlushTypes'
    <3>1. /\ \/ saving' = [saving EXCEPT ![a] = Idle]
             \/ saving' = [saving EXCEPT ![a].stores = Tail(@)]
          /\ UNCHANGED <<flushing, console, orphans>>
      BY <1>4 DEF ReaderSaves
    <3>2. Tail(saving[a].stores) \in Seq(Stores)
      BY <2>1
    <3>3. saving \in [Addrs -> [stores : Seq(Stores), then : Seq(Up)]]
      BY <1>0 DEF FlushTypes
    <3>4. [saving EXCEPT ![a].stores = Tail(@)] \in [Addrs -> [stores : Seq(Stores), then : Seq(Up)]]
      BY <3>2, <3>3
    <3>5. [saving EXCEPT ![a] = Idle] \in [Addrs -> [stores : Seq(Stores), then : Seq(Up)]]
      BY <3>3, IdleIs
    <3>6. saving' \in [Addrs -> [stores : Seq(Stores), then : Seq(Up)]]
      BY <3>1, <3>4, <3>5
    <3> QED
      BY <1>0, <3>1, <3>6 DEF FlushTypes
  <2>6. scene' \in Scenes /\ WardTypes' /\ LinkTypes'
    BY <1>0, <1>4, <2>3 DEF ReaderSaves, WardTypes, LinkTypes
  <2> QED
    BY <2>4, <2>5, <2>6 DEF TypeInv
<1>5. ASSUME NEW q \in orphans, OrphanSaves(q, lands) PROVE TypeInv'
  <2>1. q \in Seq(Stores) /\ q # <<>>
    BY <1>0 DEF FlushTypes
  <2>2. CarrierTypes' /\ faults' \in Nat
    BY <1>0, <1>1, <1>2, <1>5, <2>1 DEF OrphanSaves, CarrierTypes
  <2>3. FlushTypes'
    BY <1>0, <1>2, <1>5, <2>1 DEF OrphanSaves, FlushTypes
  <2>4. scene' \in Scenes /\ WardTypes' /\ LinkTypes'
    BY <1>0, <1>5 DEF OrphanSaves, WardTypes, LinkTypes
  <2> QED
    BY <2>2, <2>3, <2>4 DEF TypeInv
<1>6. ASSUME ConsoleSaves(lands) PROVE TypeInv'
  <2>1. console \in Seq(Stores) /\ console # <<>>
    BY <1>0, <1>6 DEF FlushTypes, ConsoleSaves
  <2>2. CarrierTypes' /\ faults' \in Nat
    BY <1>0, <1>1, <1>2, <1>6, <2>1 DEF ConsoleSaves, CarrierTypes
  <2>3. FlushTypes'
    BY <1>0, <1>2, <1>6, <2>1 DEF ConsoleSaves, FlushTypes
  <2>4. scene' \in Scenes /\ WardTypes' /\ LinkTypes'
    BY <1>0, <1>6 DEF ConsoleSaves, WardTypes, LinkTypes
  <2> QED
    BY <2>2, <2>3, <2>4 DEF TypeInv
<1> QED
  BY <1>3, <1>4, <1>5, <1>6

\* The steps of the carrier that change what its stores hold.
LEMMA StagedTypes ==
  ASSUME TypeInv, NEW m \in Files, Staged(m), disk' = disk, UNCHANGED <<early, unlanded>>,
         oked' \subseteq Up, consumed' \subseteq Up, evicted' \subseteq Up \cup Down
  PROVE  CarrierTypes'
<1>1. /\ mem' = m /\ staged' = [x \in Stores |-> staged'[x]]
      /\ \A x \in Stores : staged'[x] # None => staged'[x] = m[x]
  BY StagedIs
<1> QED
  BY <1>1 DEF TypeInv, CarrierTypes

\* A wrap taken into the inbox, or left out of the queue, is a wrap.
LEMMA InboxGrows ==
  ASSUME TypeInv, NEW u \in Up
  PROVE  /\ [mem EXCEPT !.seen = @ \cup {u}, !.inbox = Newest(Append(@, u), InboxCap)] \in Files
         /\ ToSet(Append(mem.inbox, u)) = ToSet(mem.inbox) \cup {u}
         /\ ToSet(Append(mem.inbox, u)) \subseteq Up
<1>1. mem \in Files /\ mem.inbox \in Seq(Up) /\ mem.seen \subseteq Up
  BY DEF TypeInv, CarrierTypes, Files
<1>2. Append(mem.inbox, u) \in Seq(Up) /\ ToSet(Append(mem.inbox, u)) = ToSet(mem.inbox) \cup {u}
  BY <1>1, SetOfAppend
<1>3. Newest(Append(mem.inbox, u), InboxCap) \in Seq(Up)
  BY <1>2, NewestIsSeq, CapsAssumption
<1> QED
  BY <1>1, <1>2, <1>3, InSet DEF Files

\* A wrap the ward has answered leaves the queue.
LEMMA QueueShrinks ==
  ASSUME TypeInv, NEW X
  PROVE  /\ [mem EXCEPT !.queue = Without(@, X)] \in Files
         /\ ToSet(Without(mem.queue, X)) = ToSet(mem.queue) \ X
         /\ [mem EXCEPT !.queue = Without(@, X)].delivery = mem.delivery
         /\ [mem EXCEPT !.queue = Without(@, X)].queue = Without(mem.queue, X)
         /\ [mem EXCEPT !.queue = Without(@, X)].inbox = mem.inbox
         /\ [mem EXCEPT !.queue = Without(@, X)].seen = mem.seen
<1>1. mem \in Files /\ mem.queue \in Seq(Down)
  BY DEF TypeInv, CarrierTypes, Files
<1>2. Without(mem.queue, X) \in Seq(Down) /\ ToSet(Without(mem.queue, X)) = ToSet(mem.queue) \ X
  BY <1>1, WithoutIs
<1> QED
  BY <1>1, <1>2 DEF Files

\* The files a restart finds are the newest of each.
Restored == [x \in Stores |-> IF staged[x] # None THEN staged[x] ELSE disk[x]]

LEMMA RestoredIs ==
  ASSUME TypeInv
  PROVE  /\ Restored \in Files
         /\ \A x \in Stores : Restored[x] = IF staged[x] # None THEN mem[x] ELSE disk[x]
<1>1. /\ mem \in Files /\ disk \in Files
      /\ \A x \in Stores : staged[x] # None => staged[x] = mem[x]
  BY DEF TypeInv, CarrierTypes
<1>2. \A x \in Stores : Restored[x] = IF staged[x] # None THEN mem[x] ELSE disk[x]
  BY <1>1 DEF Restored
<1>3. /\ Restored["queue"] \in Seq(Down) /\ Restored["delivery"] \in [Down -> States]
      /\ Restored["inbox"] \in Seq(Up) /\ Restored["seen"] \in SUBSET Up
  BY <1>1, <1>2, StoreTypes DEF Stores
<1>4. Restored = [x \in Stores |-> Restored[x]]
  BY DEF Restored
<1> HIDE DEF Restored
<1>5. Restored \in Files
  BY <1>3, <1>4 DEF Files, Stores
<1> QED
  BY <1>2, <1>5

\* A start of the carrier: files pruned, flushes and sessions gone.
LEMMA StartsIs ==
  ASSUME TypeInv, NEW files \in Files, CarrierStarts(files)
  PROVE  /\ mem' = PrunedQueue(files) /\ mem' \in Files /\ disk' = files
         /\ staged' = [x \in Stores |-> staged'[x]]
         /\ \A x \in Stores : staged'[x] = IF mem'[x] # files[x] THEN mem'[x] ELSE None
         /\ evicted \subseteq evicted' /\ evicted' \subseteq Up \cup Down
         /\ ToSet(files.queue) \subseteq ToSet(mem'.queue) \cup evicted'
         /\ FlushTypes' /\ gup' = <<>> /\ wake' = {}
         /\ \A a \in Addrs : saving'[a].then = <<>>
<1>1. mem' = PrunedQueue(files) /\ disk' = files
  BY DEF CarrierStarts
<1>2. mem' \in Files
  BY <1>1, PrunedQueueIs
<1>3. evicted' = evicted \cup (ToSet(files.queue) \ ToSet(mem'.queue))
  BY DEF CarrierStarts
<1>4. ToSet(files.queue) \subseteq Down
  BY InSet DEF Files
<1>5. FlushTypes'
  BY FlushedIs, IdleIs DEF CarrierStarts, FlushTypes
<1>6. staged' = [x \in Stores |-> IF mem'[x] # files[x] THEN mem'[x] ELSE None]
  BY DEF CarrierStarts
<1>7. gup' = <<>> /\ wake' = {} /\ \A a \in Addrs : saving'[a].then = <<>>
  BY DEF CarrierStarts, Idle
<1> QED
  BY <1>1, <1>2, <1>3, <1>4, <1>5, <1>6, <1>7 DEF TypeInv, CarrierTypes

LEMMA StartTypeStep ==
  ASSUME TypeInv, CarrierCrashes \/ CarrierRestarts
  PROVE  TypeInv'
<1> USE DEF ward, broker
<1>1. PICK files \in Files : CarrierStarts(files)
  <2>1. CASE CarrierCrashes
    BY <2>1 DEF CarrierCrashes, TypeInv, CarrierTypes
  <2>2. CASE CarrierRestarts
    BY <2>2, RestoredIs DEF CarrierRestarts, Restored
  <2> QED
    BY <2>1, <2>2
<1>2. unlanded' \subseteq Up \cup Down
  <2>1. CASE CarrierCrashes
    <3>1. ToSet(mem.queue) \subseteq Down
      BY InSet DEF TypeInv, CarrierTypes, Files
    <3>2. unlanded' = unlanded \cup (ToSet(mem.queue) \ ToSet(disk.queue))
      BY <2>1 DEF CarrierCrashes
    <3> QED
      BY <3>1, <3>2 DEF TypeInv, CarrierTypes
  <2>2. CASE CarrierRestarts
    BY <2>2 DEF CarrierRestarts, TypeInv, CarrierTypes
  <2> QED
    BY <2>1, <2>2
<1>3. /\ faults' \in Nat /\ scene' = scene
      /\ UNCHANGED <<ward, broker, oked, early, consumed, wup, gsent, toCarrier, toWard>>
  BY DEF CarrierCrashes, CarrierRestarts, Fault, TypeInv
<1>4. CarrierTypes'
  BY <1>1, <1>2, <1>3, StartsIs, StoreTypes DEF TypeInv, CarrierTypes
<1>5. WardTypes'
  BY <1>3 DEF TypeInv, WardTypes
<1>6. LinkTypes'
  <2>1. gup' = <<>> /\ wake' = {} /\ <<>> \in Seq(Addrs)
    BY <1>1, StartsIs
  <2> QED
    BY <1>3, <2>1 DEF TypeInv, LinkTypes
<1> QED
  BY <1>1, <1>3, <1>4, <1>5, <1>6, StartsIs DEF TypeInv

\* What a reader hands to its flush.
LEMMA ReaderHands ==
  ASSUME TypeInv, NEW a \in Addrs, NEW m \in Files, Staged(m), NEW then \in Seq(Up)
  PROVE  /\ [saving EXCEPT ![a] = [stores |-> Dirty(mem'), then |-> then]]
              \in [Addrs -> [stores : Seq(Stores), then : Seq(Up)]]
         /\ [saving EXCEPT ![a].stores = Dirty(mem')]
              \in [Addrs -> [stores : Seq(Stores), then : Seq(Up)]]
<1>1. Dirty(mem') \in Seq(Stores)
  BY StagedIs
<1> QED
  BY <1>1 DEF TypeInv, FlushTypes

\* inbound_wrap, without its frames of the wire.
LEMMA TakesIs ==
  ASSUME TypeInv, NEW a \in Addrs, CarrierTakes(a), NEW u, u = Head(toCarrier[a])[2],
         NEW m, m = [mem EXCEPT !.seen = @ \cup {u}, !.inbox = Newest(Append(@, u), InboxCap)]
  PROVE  /\ u \in Up /\ m \in Files /\ saving[a] = Idle
         /\ \/ /\ u \notin mem.seen /\ Staged(m)
               /\ evicted' = evicted \cup (ToSet(Append(mem.inbox, u)) \ ToSet(mem'.inbox))
               /\ saving' = [saving EXCEPT ![a] = [stores |-> Dirty(mem'), then |-> <<u>>]]
               /\ UNCHANGED <<toWard, oked, early>>
            \/ /\ u \in mem.seen /\ AnswerOk(a, u)
               /\ early' = IF Stored(u) THEN early ELSE early \cup {u}
               /\ UNCHANGED <<mem, staged, saving, evicted>>
         /\ toCarrier' = [toCarrier EXCEPT ![a] = Tail(@)]
         /\ Tail(toCarrier[a]) \in Seq(FromWard)
         /\ ToSet(Tail(toCarrier[a])) \subseteq ToSet(toCarrier[a])
         /\ UNCHANGED <<scene, faults, ward, broker, disk, flushing, console, orphans, unlanded,
                        consumed, wup, gup, gsent, wake>>
<1>1. toCarrier[a] \in Seq(FromWard) /\ toCarrier[a] # <<>> /\ Head(toCarrier[a])[1] = "EVENT"
  BY DEF CarrierTakes, TypeInv, LinkTypes
<1>2. /\ Head(toCarrier[a]) \in FromWard /\ Tail(toCarrier[a]) \in Seq(FromWard)
      /\ ToSet(Tail(toCarrier[a])) \subseteq ToSet(toCarrier[a])
  BY <1>1, HeadOf
<1>3. u \in Up
  BY <1>1, <1>2 DEF FromWard, Acks
<1>4. m \in Files
  BY <1>3, InboxGrows
<1>5. /\ \/ u \notin mem.seen /\ StoredThenAnswered(a, u)
         \/ /\ u \in mem.seen /\ AnswerOk(a, u)
            /\ early' = IF Stored(u) THEN early ELSE early \cup {u}
            /\ UNCHANGED <<mem, staged, saving, evicted, orphans>>
      /\ saving[a] = Idle
      /\ toCarrier' = [toCarrier EXCEPT ![a] = Tail(@)]
      /\ UNCHANGED <<scene, faults, ward, broker, disk, flushing, console, unlanded, consumed,
                     wup, gup, gsent, wake>>
  BY Zenon DEF CarrierTakes
<1>6. StoredThenAnswered(a, u) =>
        /\ Staged(m)
        /\ evicted' = evicted \cup (ToSet(Append(mem.inbox, u)) \ ToSet(mem'.inbox))
        /\ saving' = [saving EXCEPT ![a] = [stores |-> Dirty(mem'), then |-> <<u>>]]
        /\ UNCHANGED <<toWard, oked, early, orphans>>
  BY DEF StoredThenAnswered
<1> QED
  BY <1>2, <1>3, <1>4, <1>5, <1>6

\* What CarrierSeesOk and CarrierSeesAck have in common.
LEMMA SeesIs ==
  ASSUME TypeInv, NEW a \in Addrs, CarrierSeesOk(a) \/ CarrierSeesAck(a)
  PROVE  /\ toCarrier' = [toCarrier EXCEPT ![a] = Tail(@)]
         /\ Tail(toCarrier[a]) \in Seq(FromWard)
         /\ ToSet(Tail(toCarrier[a])) \subseteq ToSet(toCarrier[a])
         /\ Head(toCarrier[a]) \in ToSet(toCarrier[a])
         /\ Head(toCarrier[a])[1] \in {"OK"} \cup Acks
         /\ Head(toCarrier[a])[2] \in Down
         /\ saving[a] = Idle
         /\ UNCHANGED <<scene, faults, ward, broker, disk, flushing, console, orphans, oked,
                        early, unlanded, consumed, evicted, wup, gup, gsent, wake, toWard>>
<1>1. /\ toCarrier[a] \in Seq(FromWard) /\ toCarrier[a] # <<>>
      /\ Head(toCarrier[a])[1] \in {"OK"} \cup Acks
  BY DEF CarrierSeesOk, CarrierSeesAck, TypeInv, LinkTypes
<1>2. /\ Head(toCarrier[a]) \in FromWard /\ Tail(toCarrier[a]) \in Seq(FromWard)
      /\ Head(toCarrier[a]) \in ToSet(toCarrier[a])
      /\ ToSet(Tail(toCarrier[a])) \subseteq ToSet(toCarrier[a])
  BY <1>1, HeadOf
<1>3. Head(toCarrier[a])[2] \in Down
  BY <1>1, <1>2 DEF FromWard, Acks
<1>4. /\ toCarrier' = [toCarrier EXCEPT ![a] = Tail(@)]
      /\ saving[a] = Idle
      /\ UNCHANGED <<scene, faults, ward, broker, disk, flushing, console, orphans, oked,
                     early, unlanded, consumed, evicted, wup, gup, gsent, wake, toWard>>
  BY DEF CarrierSeesOk, CarrierSeesAck
<1> QED
  BY <1>1, <1>2, <1>3, <1>4

\* The reader at an OK, and at an ACK.
LEMMA SeesOkIs ==
  ASSUME TypeInv, NEW a \in Addrs, CarrierSeesOk(a),
         NEW d, d = Head(toCarrier[a])[2],
         NEW m, m = [mem EXCEPT !.queue = Without(@, {d})],
         NEW D, D = {d} \cap {e \in Down : mem.delivery[e] # "none"}
  PROVE  /\ m \in Files /\ Recorded(m, D, "received") \in Files
         /\ Head(toCarrier[a])[1] = "OK"
         /\ \/ /\ Staged(Recorded(m, D, "received"))
               /\ saving' = [saving EXCEPT ![a].stores = Dirty(mem')]
            \/ UNCHANGED <<mem, staged, saving>>
<1>1. m \in Files
  BY QueueShrinks
<1>2. "received" \in States
  BY DEF States
<1> QED
  BY <1>1, <1>2, RecordedIs DEF CarrierSeesOk

LEMMA SeesAckIs ==
  ASSUME TypeInv, NEW a \in Addrs, CarrierSeesAck(a),
         NEW r, r = Head(toCarrier[a])[1], NEW d, d = Head(toCarrier[a])[2]
  PROVE  /\ r \in Acks /\ Recorded(mem, {d}, r) \in Files
         /\ \/ /\ Staged(Recorded(mem, {d}, r))
               /\ saving' = [saving EXCEPT ![a].stores = Dirty(mem')]
            \/ UNCHANGED <<mem, staged, saving>>
<1>1. r \in Acks /\ r \in States /\ mem \in Files
  BY DEF CarrierSeesAck, States, TypeInv, CarrierTypes
<1> QED
  BY <1>1, RecordedIs DEF CarrierSeesAck

\* A round of the flusher.
LEMMA RoundIs ==
  ASSUME TypeInv, NEW a \in Addrs, FlusherRound(a),
         NEW m, m = PrunedQueue(mem), NEW fresh, fresh = Without(m.queue, gsent[a])
  PROVE  /\ m \in Files /\ m.queue \in Seq(Down) /\ fresh \in Seq(Down)
         /\ ToSet(fresh) = ToSet(m.queue) \ gsent[a] /\ ToSet(m.queue) \subseteq Down
         /\ Recorded(m, ToSet(fresh), "sent") \in Files
         /\ Staged(Recorded(m, ToSet(fresh), "sent"))
         /\ evicted' = evicted \cup (ToSet(mem.queue) \ ToSet(m.queue))
         /\ gsent' = [gsent EXCEPT ![a] = ToSet(m.queue)]
         /\ flushing' = [flushing EXCEPT ![a] = [stores |-> Dirty(mem'), then |-> fresh]]
         /\ wake' = wake \ {a}
         /\ UNCHANGED <<scene, faults, ward, broker, disk, saving, console, orphans, oked,
                        early, unlanded, consumed, wup, gup, toCarrier, toWard>>
<1>1. m \in Files /\ m.queue \in Seq(Down)
  BY PrunedQueueIs DEF TypeInv, CarrierTypes, Files
<1>2. fresh \in Seq(Down) /\ ToSet(fresh) = ToSet(m.queue) \ gsent[a] /\ ToSet(m.queue) \subseteq Down
  BY <1>1, WithoutIs, InSet
<1>3. Recorded(m, ToSet(fresh), "sent") \in Files
  BY <1>1, RecordedIs DEF States
<1> QED
  BY <1>1, <1>2, <1>3 DEF FlusherRound

\* The queue a send makes, what its caps leave of it, and the record.
Sends(d, queued, m, st) ==
  /\ queued \in Seq(Down) /\ ToSet(queued) = ToSet(mem.queue) \cup {d}
  /\ m = PrunedQueue([mem EXCEPT !.queue = queued]) /\ m \in Files
  /\ \A e \in Down : \/ m.delivery[e] = mem.delivery[e]
                     \/ /\ Advanced(mem.delivery[e], "rejected")
                        /\ m.delivery[e] = "rejected"
  /\ m.inbox = mem.inbox /\ m.seen = mem.seen
  /\ st \in {"sent", "queued"} /\ st \in States
  /\ Recorded(m, {d}, st) \in Files
  /\ Staged(Recorded(m, {d}, st))
  /\ evicted' = evicted \cup (ToSet(queued) \ ToSet(m.queue))
  /\ console' = Dirty(mem')

LEMMA SendIs ==
  ASSUME TypeInv, NEW d \in Down, NEW roomy \in BOOLEAN, Send(d, roomy)
  PROVE  \E queued, m, st : Sends(d, queued, m, st)
<1> DEFINE queued == IF d \in ToSet(mem.queue) THEN mem.queue ELSE Append(mem.queue, d)
           n == [mem EXCEPT !.queue = queued]
           m == PrunedQueue(n)
           st == IF gup # <<>> /\ (roomy \/ d \in gsent[Last(gup)]) THEN "sent" ELSE "queued"
<1>1. /\ Staged(Recorded(m, {d}, st))
      /\ evicted' = evicted \cup (ToSet(queued) \ ToSet(m.queue))
      /\ console' = Dirty(mem')
  BY Zenon DEF Send
<1>2. /\ queued \in Seq(Down) /\ ToSet(queued) = ToSet(mem.queue) \cup {d}
      /\ n \in Files /\ n.delivery = mem.delivery /\ n.inbox = mem.inbox /\ n.seen = mem.seen
  <2>1. mem \in Files /\ mem.queue \in Seq(Down)
    BY DEF TypeInv, CarrierTypes, Files
  <2>2. queued \in Seq(Down) /\ ToSet(queued) = ToSet(mem.queue) \cup {d}
    BY <2>1, SetOfAppend
  <2> HIDE DEF queued
  <2> QED
    BY <2>1, <2>2 DEF Files
<1> HIDE DEF queued
<1>3. /\ m \in Files /\ m.inbox = n.inbox /\ m.seen = n.seen
      /\ \A e \in Down : \/ m.delivery[e] = n.delivery[e]
                         \/ /\ Advanced(n.delivery[e], "rejected")
                            /\ m.delivery[e] = "rejected"
  <2> HIDE DEF n
  <2> QED
    BY <1>2, PrunedQueueIs
<1>4. st \in {"sent", "queued"} /\ st \in States
  BY DEF States
<1> HIDE DEF st
<1>5. Recorded(m, {d}, st) \in Files
  <2> HIDE DEF m
  <2> QED
    BY <1>3, <1>4, RecordedIs
<1>6. m = PrunedQueue([mem EXCEPT !.queue = queued])
  OBVIOUS
<1> HIDE DEF m, n
<1>7. Sends(d, queued, m, st)
  BY <1>1, <1>2, <1>3, <1>4, <1>5, <1>6 DEF Sends
<1> QED
  BY <1>7

LEMMA CarrierTypeStep ==
  ASSUME TypeInv
  PROVE  /\ \A a \in Addrs :
              CarrierCloses(a) \/ FlusherRound(a) \/ FlusherWrites(a) \/ CarrierReads(a) => TypeInv'
         /\ \A d \in Down, roomy \in BOOLEAN : Send(d, roomy) => TypeInv'
         /\ Consume => TypeInv'
<1> USE DEF ward, broker
<1>0. /\ scene \in Scenes /\ faults \in Nat
      /\ WardTypes /\ CarrierTypes /\ FlushTypes /\ LinkTypes
  BY DEF TypeInv
<1>1. ASSUME NEW a \in Addrs, CarrierCloses(a) PROVE TypeInv'
  <2>1. faults' \in Nat /\ scene' \in Scenes
    BY <1>0, <1>1 DEF CarrierCloses, Fault
  <2>2. WardTypes' /\ CarrierTypes'
    BY <1>0, <1>1 DEF CarrierCloses, WardTypes, CarrierTypes
  <2>3. FlushTypes'
    <3>1. /\ \A b \in Addrs : /\ saving[b] \in [stores : Seq(Stores), then : Seq(Up)]
                              /\ flushing[b] \in [stores : Seq(Stores), then : Seq(Down)]
      BY <1>0 DEF FlushTypes
    <3>2. orphans' \subseteq Seq(Stores) \ {<<>>}
      BY <1>0, <1>1, OrphanedIs DEF CarrierCloses, CarrierEnds
    <3>3. /\ saving' \in [Addrs -> [stores : Seq(Stores), then : Seq(Up)]]
          /\ flushing' \in [Addrs -> [stores : Seq(Stores), then : Seq(Down)]]
      BY <1>1, <3>1, IdleIs DEF CarrierCloses, CarrierEnds
    <3> QED
      BY <1>0, <1>1, <3>2, <3>3 DEF CarrierCloses, FlushTypes
  <2>4. LinkTypes'
    <3>1. gup' \in Seq(Addrs)
      BY <1>0, <1>1, WithoutIs DEF CarrierCloses, CarrierEnds, LinkTypes
    <3> QED
      BY <1>0, <1>1, <3>1 DEF CarrierCloses, LinkTypes
  <2> QED
    BY <2>1, <2>2, <2>3, <2>4 DEF TypeInv
<1>2. ASSUME NEW a \in Addrs, FlusherRound(a) PROVE TypeInv'
  <2> DEFINE m == PrunedQueue(mem)
             fresh == Without(m.queue, gsent[a])
             n == Recorded(m, ToSet(fresh), "sent")
  <2>1. /\ m \in Files /\ fresh \in Seq(Down) /\ ToSet(m.queue) \subseteq Down
        /\ n \in Files /\ Staged(n)
        /\ evicted' = evicted \cup (ToSet(mem.queue) \ ToSet(m.queue))
        /\ gsent' = [gsent EXCEPT ![a] = ToSet(m.queue)]
        /\ flushing' = [flushing EXCEPT ![a] = [stores |-> Dirty(mem'), then |-> fresh]]
        /\ wake' = wake \ {a}
        /\ UNCHANGED <<scene, faults, ward, broker, disk, saving, console, orphans, oked,
                       early, unlanded, consumed, wup, gup, toCarrier, toWard>>
    BY <1>2, RoundIs
  <2> HIDE DEF m, fresh, n
  <2>2. ToSet(mem.queue) \subseteq Down
    BY <1>0, InSet DEF CarrierTypes, Files
  <2>3. CarrierTypes'
    BY <1>0, <2>1, <2>2, StagedTypes DEF CarrierTypes
  <2>4. FlushTypes'
    <3>1. Dirty(mem') \in Seq(Stores)
      BY <2>1, StagedIs
    <3> QED
      BY <1>0, <2>1, <3>1 DEF FlushTypes
  <2>5. WardTypes' /\ LinkTypes'
    BY <1>0, <2>1 DEF WardTypes, LinkTypes
  <2> QED
    BY <1>0, <2>1, <2>3, <2>4, <2>5 DEF TypeInv
<1>3. ASSUME NEW a \in Addrs, FlusherWrites(a) PROVE TypeInv'
  <2>1. Frames(flushing[a].then) \in Seq(FromCarrier)
    BY <1>0, FramesAre DEF FlushTypes
  <2>2. toWard[a] \o Frames(flushing[a].then) \in Seq(FromCarrier)
    BY <1>0, <2>1 DEF LinkTypes
  <2>3. LinkTypes'
    BY <1>0, <1>3, <2>2 DEF FlusherWrites, LinkTypes
  <2>4. FlushTypes'
    BY <1>0, <1>3, IdleIs DEF FlusherWrites, FlushTypes
  <2>5. WardTypes' /\ CarrierTypes' /\ scene' \in Scenes /\ faults' \in Nat
    BY <1>0, <1>3 DEF FlusherWrites, WardTypes, CarrierTypes
  <2> QED
    BY <2>3, <2>4, <2>5 DEF TypeInv
<1>4. ASSUME NEW a \in Addrs, CarrierTakes(a) PROVE TypeInv'
  <2> DEFINE u == Head(toCarrier[a])[2]
             m == [mem EXCEPT !.seen = @ \cup {u}, !.inbox = Newest(Append(@, u), InboxCap)]
  <2>1. /\ u \in Up /\ m \in Files
        /\ \/ /\ Staged(m)
              /\ evicted' = evicted \cup (ToSet(Append(mem.inbox, u)) \ ToSet(mem'.inbox))
              /\ saving' = [saving EXCEPT ![a] = [stores |-> Dirty(mem'), then |-> <<u>>]]
              /\ UNCHANGED <<toWard, oked, early>>
           \/ /\ AnswerOk(a, u)
              /\ early' = IF Stored(u) THEN early ELSE early \cup {u}
              /\ UNCHANGED <<mem, staged, saving, evicted>>
        /\ toCarrier' = [toCarrier EXCEPT ![a] = Tail(@)]
        /\ Tail(toCarrier[a]) \in Seq(FromWard)
        /\ UNCHANGED <<scene, faults, ward, broker, disk, flushing, console, orphans, unlanded,
                       consumed, wup, gup, gsent, wake>>
    BY <1>4, TakesIs
  <2> HIDE DEF u, m
  <2>2. CASE /\ Staged(m)
             /\ evicted' = evicted \cup (ToSet(Append(mem.inbox, u)) \ ToSet(mem'.inbox))
             /\ saving' = [saving EXCEPT ![a] = [stores |-> Dirty(mem'), then |-> <<u>>]]
             /\ UNCHANGED <<toWard, oked, early>>
    <3>1. evicted' \subseteq Up \cup Down
      BY <1>0, <2>1, <2>2, InboxGrows DEF CarrierTypes
    <3>2. CarrierTypes'
      BY <1>0, <2>1, <2>2, <3>1, StagedTypes DEF CarrierTypes
    <3>3. saving' \in [Addrs -> [stores : Seq(Stores), then : Seq(Up)]]
      <4>1. <<u>> \in Seq(Up)
        BY <2>1
      <4> QED
        BY <2>1, <2>2, <4>1, ReaderHands
    <3>4. FlushTypes'
      BY <1>0, <2>1, <3>3 DEF FlushTypes
    <3>5. WardTypes' /\ LinkTypes'
      BY <1>0, <2>1, <2>2 DEF WardTypes, LinkTypes
    <3> QED
      BY <1>0, <2>1, <3>2, <3>4, <3>5 DEF TypeInv
  <2>3. CASE /\ AnswerOk(a, u)
             /\ early' = IF Stored(u) THEN early ELSE early \cup {u}
             /\ UNCHANGED <<mem, staged, saving, evicted>>
    <3>1. oked' = oked \cup {u} /\ toWard' = [toWard EXCEPT ![a] = Append(@, <<"OK", u>>)]
      BY <2>3 DEF AnswerOk
    <3>2. CarrierTypes'
      BY <1>0, <2>1, <2>3, <3>1 DEF CarrierTypes
    <3>3. FlushTypes'
      BY <1>0, <2>1, <2>3 DEF FlushTypes
    <3>4. Append(toWard[a], <<"OK", u>>) \in Seq(FromCarrier)
      BY <1>0, <2>1 DEF LinkTypes, FromCarrier
    <3>5. WardTypes' /\ LinkTypes'
      BY <1>0, <2>1, <3>1, <3>4 DEF WardTypes, LinkTypes
    <3> QED
      BY <1>0, <2>1, <3>2, <3>3, <3>5 DEF TypeInv
  <2> QED
    BY <2>1, <2>2, <2>3
<1>5. ASSUME NEW a \in Addrs, CarrierSeesOk(a) \/ CarrierSeesAck(a) PROVE TypeInv'
  <2>1. /\ toCarrier' = [toCarrier EXCEPT ![a] = Tail(@)]
        /\ Tail(toCarrier[a]) \in Seq(FromWard)
        /\ UNCHANGED <<scene, faults, ward, broker, disk, flushing, console, orphans, oked,
                       early, unlanded, consumed, evicted, wup, gup, gsent, wake, toWard>>
    BY <1>5, SeesIs
  <2>2. \/ \E m \in Files : /\ Staged(m)
                            /\ saving' = [saving EXCEPT ![a].stores = Dirty(mem')]
        \/ UNCHANGED <<mem, staged, saving>>
    BY <1>5, SeesOkIs, SeesAckIs
  <2>3. CASE UNCHANGED <<mem, staged, saving>>
    <3>1. CarrierTypes' /\ FlushTypes'
      BY <1>0, <2>1, <2>3 DEF CarrierTypes, FlushTypes
    <3>2. WardTypes' /\ LinkTypes'
      BY <1>0, <2>1 DEF WardTypes, LinkTypes
    <3> QED
      BY <1>0, <2>1, <3>1, <3>2 DEF TypeInv
  <2>4. ASSUME NEW m \in Files, Staged(m), saving' = [saving EXCEPT ![a].stores = Dirty(mem')]
        PROVE  TypeInv'
    <3>1. CarrierTypes'
      BY <1>0, <2>1, <2>4, StagedTypes DEF CarrierTypes
    <3>2. FlushTypes'
      <4>1. <<>> \in Seq(Up)
        OBVIOUS
      <4>2. saving' \in [Addrs -> [stores : Seq(Stores), then : Seq(Up)]]
        BY <2>4, <4>1, ReaderHands
      <4> QED
        BY <1>0, <2>1, <4>2 DEF FlushTypes
    <3>3. WardTypes' /\ LinkTypes'
      BY <1>0, <2>1 DEF WardTypes, LinkTypes
    <3> QED
      BY <1>0, <2>1, <3>1, <3>2, <3>3 DEF TypeInv
  <2> QED
    BY <2>2, <2>3, <2>4
<1>6. ASSUME NEW d \in Down, NEW roomy \in BOOLEAN, Send(d, roomy) PROVE TypeInv'
  <2>1. PICK queued, n, st : Sends(d, queued, n, st)
    BY <1>6, SendIs
  <2> DEFINE m == Recorded(n, {d}, st)
  <2>2. /\ queued \in Seq(Down) /\ m \in Files /\ Staged(m)
        /\ evicted' = evicted \cup (ToSet(queued) \ ToSet(n.queue))
        /\ console' = Dirty(mem')
    BY <2>1 DEF Sends
  <2> HIDE DEF m
  <2>3. evicted' \subseteq Up \cup Down
    BY <1>0, <2>2, InSet DEF CarrierTypes
  <2>4. /\ UNCHANGED <<scene, ward, broker, disk, saving, flushing, orphans, oked, early,
                       unlanded, consumed, wup, gup, toCarrier>>
        /\ faults' \in Nat
    BY <1>0, <1>6 DEF Send, Fault
  <2>5. CarrierTypes'
    BY <1>0, <2>2, <2>3, <2>4, StagedTypes DEF CarrierTypes
  <2>6. FlushTypes'
    BY <1>0, <2>2, <2>4, StagedIs DEF FlushTypes
  <2>7. LinkTypes'
    <3> DEFINE b == Last(gup)
    <3>1. gup # <<>> => b \in Addrs
      BY <1>0 DEF LinkTypes, Last
    <3>2. /\ \/ /\ gup # <<>>
                /\ toWard' = [toWard EXCEPT ![b] = Append(@, <<"EVENT", d>>)]
                /\ gsent' = [gsent EXCEPT ![b] = @ \cup {d}]
             \/ UNCHANGED <<toWard, gsent>>
          /\ wake' = wake \/ (gup # <<>> /\ wake' = wake \cup {b})
      BY <1>6 DEF Send
    <3>3. <<"EVENT", d>> \in FromCarrier
      BY DEF FromCarrier
    <3> HIDE DEF b
    <3>4. gup # <<>> => Append(toWard[b], <<"EVENT", d>>) \in Seq(FromCarrier)
      BY <1>0, <3>1, <3>3 DEF LinkTypes
    <3>5. toWard' \in [Addrs -> Seq(FromCarrier)] /\ gsent' \in [Addrs -> SUBSET Down]
      <4>1. CASE UNCHANGED <<toWard, gsent>>
        BY <1>0, <4>1 DEF LinkTypes
      <4>2. CASE /\ gup # <<>>
                 /\ toWard' = [toWard EXCEPT ![b] = Append(@, <<"EVENT", d>>)]
                 /\ gsent' = [gsent EXCEPT ![b] = @ \cup {d}]
        <5>1. toWard' \in [Addrs -> Seq(FromCarrier)]
          BY <1>0, <3>1, <3>4, <4>2 DEF LinkTypes
        <5>2. gsent' \in [Addrs -> SUBSET Down]
          BY <1>0, <3>1, <4>2 DEF LinkTypes
        <5> QED
          BY <5>1, <5>2
      <4> QED
        BY <3>2, <4>1, <4>2
    <3>6. wake' \subseteq Addrs
      BY <1>0, <3>1, <3>2 DEF LinkTypes
    <3> QED
      BY <1>0, <2>4, <3>5, <3>6 DEF LinkTypes
  <2>8. WardTypes'
    BY <1>0, <2>4 DEF WardTypes
  <2> QED
    BY <1>0, <2>4, <2>5, <2>6, <2>7, <2>8 DEF TypeInv
<1>7. ASSUME Consume PROVE TypeInv'
  <2> DEFINE m == [mem EXCEPT !.inbox = <<>>]
  <2>1. /\ m \in Files /\ ToSet(mem.inbox) \subseteq Up
    <3>1. mem \in Files /\ <<>> \in Seq(Up)
      BY <1>0 DEF CarrierTypes
    <3>2. m \in Files
      BY <3>1 DEF Files
    <3>3. ToSet(mem.inbox) \subseteq Up
      BY <3>1, InSet DEF Files
    <3> QED
      BY <3>2, <3>3
  <2>2. Staged(m) /\ console' = Dirty(mem') /\ consumed' = consumed \cup ToSet(mem.inbox)
    BY <1>7 DEF Consume
  <2> HIDE DEF m
  <2>3. CarrierTypes'
    BY <1>0, <1>7, <2>1, <2>2, StagedTypes DEF Consume, CarrierTypes
  <2>4. FlushTypes'
    BY <1>0, <1>7, <2>1, <2>2, StagedIs DEF Consume, FlushTypes
  <2>5. WardTypes' /\ LinkTypes' /\ scene' \in Scenes /\ faults' \in Nat
    BY <1>0, <1>7 DEF Consume, WardTypes, LinkTypes, links
  <2> QED
    BY <2>3, <2>4, <2>5 DEF TypeInv
<1> QED
  BY <1>1, <1>2, <1>3, <1>4, <1>5, <1>6, <1>7 DEF CarrierReads

\* Every step keeps the types.
LEMMA TypeStep == TypeInv /\ [Next]_vars => TypeInv'
<1> SUFFICES ASSUME TypeInv, [Next]_vars PROVE TypeInv'
  OBVIOUS
<1>1. CASE UNCHANGED vars
  BY <1>1 DEF vars, ward, broker, carrier, flushes, links, TypeInv, WardTypes, CarrierTypes,
              FlushTypes, LinkTypes
<1>2. CASE Next
  BY <1>2, WardTypeStep, SavesTypeStep, CarrierTypeStep, StartTypeStep DEF Next
<1> QED
  BY <1>1, <1>2

\* Every store, frame and flush keeps its shape, and the one staged snapshot of a file
\* is the newest state of its store (store.rs, Persist).
THEOREM TypesHold == Spec => []TypeInv
<1> QED
  BY InitTypes, TypeStep, PTL DEF Spec

-----------------------------------------------------------------------------
(* The inbox and the answers to the ward. *)

InboxPart == InboxInv /\ AnswersInv /\ AnsweredIsStored

\* The last of the newest is the last.
LEMMA NewestEndsIn ==
  ASSUME NEW S, NEW s \in Seq(S), NEW e \in S, NEW n \in Nat, Newest(Append(s, e), n) # <<>>
  PROVE  Last(Newest(Append(s, e), n)) = e
<1> DEFINE t == Append(s, e)
<1>1. /\ t \in Seq(S) /\ Len(t) = Len(s) + 1 /\ Len(s) \in Nat /\ t[Len(t)] = e
  BY AppendProperties
<1> HIDE DEF t
<1>2. CASE Len(t) > n
  <2>1. \A i \in Len(t) - n + 1 .. Len(t) : t[i] \in S
    BY <1>1, <1>2
  <2> DEFINE v == SubSeq(t, Len(t) - n + 1, Len(t))
  <2>2. Newest(t, n) = v
    BY <1>2 DEF Newest
  <2>3. n # 0
    <3> SUFFICES ASSUME n = 0 PROVE FALSE
      OBVIOUS
    <3>1. v = <<>>
      BY <1>1, SubSeqProperties
    <3> QED
      BY <2>2, <3>1 DEF t
  <2>4. Len(v) = n /\ v[n] = t[Len(t)]
    BY <1>1, <1>2, <2>1, <2>3, SubSeqProperties
  <2> HIDE DEF v
  <2> QED
    BY <1>1, <2>2, <2>4 DEF Last, t
<1>3. CASE ~(Len(t) > n)
  BY <1>1, <1>3 DEF Newest, Last, t
<1> QED
  BY <1>2, <1>3

\* A step that leaves the inbox, its file and its snapshot alone.
LEMMA InboxQuiet ==
  ASSUME TypeInv, InboxPart,
         mem'.inbox = mem.inbox, mem.seen \subseteq mem'.seen, disk'.inbox = disk.inbox,
         staged'["inbox"] = staged["inbox"],
         unlanded \subseteq unlanded', consumed \subseteq consumed', evicted \subseteq evicted',
         early' = early, oked' = oked,
         \A a \in Addrs : saving'[a].then = <<>> \/ saving'[a] = saving[a]
  PROVE  InboxPart'
<1>1. InboxInv'
  BY DEF InboxPart, InboxInv
<1>2. \A u : (Stored(u) => Stored(u)') /\ (Safe(u) => Safe(u)')
  BY DEF Stored, Safe
<1>3. AnswersInv'
  <2> SUFFICES ASSUME NEW a \in Addrs, saving'[a].then # <<>> PROVE Answerable(a)'
    BY DEF AnswersInv
  <2>1. saving'[a] = saving[a] /\ Answerable(a)
    BY DEF InboxPart, AnswersInv
  <2> QED
    BY <1>2, <2>1 DEF Answerable
<1>4. AnsweredIsStored'
  BY <1>2 DEF InboxPart, AnsweredIsStored
<1> QED
  BY <1>1, <1>3, <1>4 DEF InboxPart

\* A step that changes nothing of it but stages other stores.
LEMMA InboxStaged ==
  ASSUME TypeInv, InboxPart, NEW m \in Files, Staged(m), m.inbox = mem.inbox, m.seen = mem.seen,
         UNCHANGED <<disk, early, oked, unlanded, consumed>>, evicted \subseteq evicted',
         \A a \in Addrs : saving'[a].then = <<>> \/ saving'[a] = saving[a]
  PROVE  InboxPart'
<1>1. mem' = m /\ staged'["inbox"] = staged["inbox"]
  BY StagedIs DEF Stores
<1> QED
  BY <1>1, InboxQuiet

\* A write of a file: whatever is stored stays so, and the inbox's file takes in the inbox.
LEMMA InboxWritten ==
  ASSUME TypeInv, InboxPart, NEW x \in Stores, NEW lands \in BOOLEAN, Written(x, lands),
         UNCHANGED <<mem, early, consumed, evicted>>
  PROVE  /\ InboxInv'
         /\ \A u : (Stored(u) => Stored(u)') /\ (Safe(u) => Safe(u)')
         /\ x = "inbox" => \A u \in ToSet(mem.inbox) : Safe(u)'
<1>1. /\ "inbox" \in Stores
      /\ staged'["inbox"] = IF x = "inbox" THEN None ELSE staged["inbox"]
      /\ disk'.inbox = IF x = "inbox" /\ staged["inbox"] # None /\ lands
                       THEN mem.inbox ELSE disk.inbox
      /\ unlanded \subseteq unlanded'
      /\ ~lands /\ x = "inbox" => ToSet(mem.inbox) \subseteq ToSet(disk.inbox) \cup unlanded'
  BY WrittenIs DEF Stores
<1>2. InboxInv
  BY DEF InboxPart
<1>3. ToSet(disk'.inbox) \subseteq ToSet(mem.inbox) \cup consumed \cup evicted
  BY <1>1, <1>2 DEF InboxInv
<1>4. x = "inbox" => ToSet(mem.inbox) \subseteq ToSet(disk'.inbox) \cup unlanded'
  BY <1>1, <1>2 DEF InboxInv
<1>5. InboxInv'
  BY <1>1, <1>2, <1>3, <1>4 DEF InboxInv
<1>6. ToSet(disk.inbox) \subseteq ToSet(disk'.inbox) \cup consumed \cup evicted
  BY <1>1, <1>2 DEF InboxInv
<1> QED
  BY <1>1, <1>4, <1>5, <1>6 DEF Stored, Safe

\* Nobody else's answer is lost by a write.
LEMMA OthersWritten ==
  ASSUME TypeInv, InboxPart, NEW x \in Stores, NEW lands \in BOOLEAN, Written(x, lands),
         UNCHANGED <<mem, early, consumed, evicted>>, NEW a \in Addrs,
         saving'[a] = saving[a], saving'[a].then # <<>>
  PROVE  Answerable(a)'
<1>1. Answerable(a)
  BY DEF InboxPart, AnswersInv
<1> QED
  BY <1>1, InboxWritten DEF Answerable

\* The writes of files: a reader whose last file is written has its wrap stored.
LEMMA InboxSavesStep ==
  ASSUME TypeInv, InboxPart, NEW lands \in BOOLEAN
  PROVE  /\ \A a \in Addrs : FlusherSaves(a, lands) \/ ReaderSaves(a, lands) => InboxPart'
         /\ \A q \in orphans : OrphanSaves(q, lands) => InboxPart'
         /\ ConsoleSaves(lands) => InboxPart'
<1>0. FlushTypes
  BY DEF TypeInv
<1>1. ASSUME NEW x \in Stores, Written(x, lands),
             UNCHANGED <<mem, early, consumed, evicted, oked, saving>>
      PROVE  InboxPart'
  <2>1. InboxInv' /\ \A u : Stored(u) => Stored(u)'
    BY <1>1, InboxWritten
  <2>2. AnswersInv'
    BY <1>1, OthersWritten DEF AnswersInv
  <2>3. unlanded \subseteq unlanded'
    BY <1>1, WrittenIs
  <2>4. AnsweredIsStored'
    BY <1>1, <2>1, <2>3 DEF InboxPart, AnsweredIsStored
  <2> QED
    BY <2>1, <2>2, <2>4 DEF InboxPart
<1>2. ASSUME NEW a \in Addrs, FlusherSaves(a, lands) PROVE InboxPart'
  <2>1. Head(flushing[a].stores) \in Stores
    BY <1>0, <1>2, HeadOf DEF FlusherSaves, FlushTypes
  <2> QED
    BY <1>1, <1>2, <2>1 DEF FlusherSaves
<1>3. ASSUME NEW q \in orphans, OrphanSaves(q, lands) PROVE InboxPart'
  <2>1. q \in Seq(Stores) /\ q # <<>>
    BY <1>0 DEF FlushTypes
  <2>2. Head(q) \in Stores
    BY <2>1, HeadOf
  <2> QED
    BY <1>1, <1>3, <2>2 DEF OrphanSaves
<1>4. ASSUME ConsoleSaves(lands) PROVE InboxPart'
  <2>1. Head(console) \in Stores
    BY <1>0, <1>4, HeadOf DEF ConsoleSaves, FlushTypes
  <2> QED
    BY <1>1, <1>4, <2>1 DEF ConsoleSaves
<1>5. ASSUME NEW a \in Addrs, ReaderSaves(a, lands) PROVE InboxPart'
  <2>0. PICK x, u : x = Head(saving[a].stores) /\ u = saving[a].then[1]
    OBVIOUS
  <2>1. /\ saving[a].stores \in Seq(Stores) /\ saving[a].stores # <<>>
        /\ x \in Stores /\ ToSet(saving[a].stores) = {x} \cup ToSet(Tail(saving[a].stores))
        /\ Tail(saving[a].stores) \in Seq(Stores)
        /\ Len(Tail(saving[a].stores)) = Len(saving[a].stores) - 1
    BY <1>0, <1>5, <2>0, SetOfTail, HeadTailProperties DEF ReaderSaves, FlushTypes
  <2>2. Written(x, lands) /\ UNCHANGED <<mem, early, consumed, evicted>>
    BY <1>5, <2>0 DEF ReaderSaves
  <2>3. \/ /\ Len(saving[a].stores) = 1
           /\ saving' = [saving EXCEPT ![a] = Idle]
           /\ \/ oked' = oked
              \/ saving[a].then # <<>> /\ oked' = oked \cup {u}
        \/ /\ Len(saving[a].stores) # 1
           /\ saving' = [saving EXCEPT ![a].stores = Tail(@)]
           /\ oked' = oked
    BY <1>5, <2>0 DEF ReaderSaves, AnswerOk
  <2>4. /\ InboxInv' /\ \A w : (Stored(w) => Stored(w)') /\ (Safe(w) => Safe(w)')
        /\ x = "inbox" => \A w \in ToSet(mem.inbox) : Safe(w)'
    BY <2>1, <2>2, InboxWritten
  <2>5. unlanded \subseteq unlanded'
    BY <2>1, <2>2, WrittenIs
  <2>6. saving[a].then # <<>> =>
          \/ Safe(u)
          \/ u \in ToSet(mem.inbox) /\ "inbox" \in {x} \cup ToSet(Tail(saving[a].stores))
    BY <2>0, <2>1 DEF InboxPart, AnswersInv, Answerable
  <2>7. \A b \in Addrs \ {a} : saving'[b] = saving[b]
    BY <1>0, <2>3 DEF FlushTypes
  <2>8. CASE /\ Len(saving[a].stores) = 1
             /\ saving' = [saving EXCEPT ![a] = Idle]
             /\ \/ oked' = oked
                \/ saving[a].then # <<>> /\ oked' = oked \cup {u}
    <3>1. ToSet(Tail(saving[a].stores)) = {}
      <4>1. Tail(saving[a].stores) = <<>>
        <5>1. Len(Tail(saving[a].stores)) = 0
          BY <2>1, <2>8
        <5> QED
          BY <2>1, <5>1, EmptySeq
      <4> QED
        BY <4>1, SetOfEmpty
    <3>2. saving[a].then # <<>> => Safe(u)'
      BY <2>4, <2>6, <3>1
    <3>3. AnsweredIsStored'
      BY <2>2, <2>4, <2>5, <2>8, <3>2 DEF InboxPart, AnsweredIsStored, Safe
    <3>4. saving'[a].then = <<>>
      BY <1>0, <2>8 DEF FlushTypes, Idle
    <3>5. AnswersInv'
      BY <2>1, <2>2, <2>7, <3>4, OthersWritten DEF AnswersInv
    <3> QED
      BY <2>4, <3>3, <3>5 DEF InboxPart
  <2>9. CASE /\ saving' = [saving EXCEPT ![a].stores = Tail(@)]
             /\ oked' = oked
    <3>1. saving'[a].then = saving[a].then /\ saving'[a].stores = Tail(saving[a].stores)
      BY <1>0, <2>9 DEF FlushTypes
    <3>2. saving[a].then # <<>> => Answerable(a)'
      BY <2>0, <2>2, <2>4, <2>6, <3>1 DEF Answerable
    <3>3. AnswersInv'
      BY <2>1, <2>2, <2>7, <3>1, <3>2, OthersWritten DEF AnswersInv
    <3>4. AnsweredIsStored'
      BY <2>2, <2>4, <2>5, <2>9 DEF InboxPart, AnsweredIsStored
    <3> QED
      BY <2>4, <3>3, <3>4 DEF InboxPart
  <2> QED
    BY <2>3, <2>8, <2>9
<1> QED
  BY <1>2, <1>3, <1>4, <1>5

\* A wrap taken in: the reader gets the inbox among its files, or needs it not.
LEMMA InboxTakesStep ==
  ASSUME TypeInv, InboxPart, NEW a \in Addrs, CarrierTakes(a)
  PROVE  InboxPart'
<1> DEFINE u == Head(toCarrier[a])[2]
           m == [mem EXCEPT !.seen = @ \cup {u}, !.inbox = Newest(Append(@, u), InboxCap)]
<1>1. /\ u \in Up /\ m \in Files
      /\ \/ /\ u \notin mem.seen /\ Staged(m)
            /\ evicted' = evicted \cup (ToSet(Append(mem.inbox, u)) \ ToSet(mem'.inbox))
            /\ saving' = [saving EXCEPT ![a] = [stores |-> Dirty(mem'), then |-> <<u>>]]
            /\ UNCHANGED <<oked, early>>
         \/ /\ u \in mem.seen /\ oked' = oked \cup {u}
            /\ early' = IF Stored(u) THEN early ELSE early \cup {u}
            /\ UNCHANGED <<mem, staged, saving, evicted>>
      /\ UNCHANGED <<disk, unlanded, consumed>>
  BY TakesIs DEF AnswerOk
<1>2. /\ m.inbox = Newest(Append(mem.inbox, u), InboxCap) /\ m.seen = mem.seen \cup {u}
      /\ mem.inbox \in Seq(Up) /\ ToSet(Append(mem.inbox, u)) = ToSet(mem.inbox) \cup {u}
  BY <1>1, InboxGrows DEF TypeInv, CarrierTypes, Files
<1> HIDE DEF u, m
<1>3. m.inbox # <<>> => Last(m.inbox) = u
  BY <1>1, <1>2, NewestEndsIn, CapsAssumption
<1>4. CASE /\ u \notin mem.seen /\ Staged(m)
           /\ evicted' = evicted \cup (ToSet(Append(mem.inbox, u)) \ ToSet(mem'.inbox))
           /\ saving' = [saving EXCEPT ![a] = [stores |-> Dirty(mem'), then |-> <<u>>]]
           /\ UNCHANGED <<oked, early>>
  <2>1. /\ mem' = m /\ "inbox" \in Stores
        /\ staged'["inbox"] = IF m.inbox # mem.inbox THEN m.inbox ELSE staged["inbox"]
        /\ "inbox" \in ToSet(Dirty(mem')) <=> m.inbox # mem.inbox
        /\ ToSet(mem.inbox) \cup {u} \subseteq ToSet(m.inbox) \cup evicted'
        /\ evicted \subseteq evicted' /\ m["inbox"] # None
    BY <1>1, <1>2, <1>4, StagedIs, StoreTypes DEF Stores
  <2>2. InboxInv'
    <3>1. ToSet(disk'.inbox) \subseteq ToSet(mem'.inbox) \cup consumed' \cup evicted'
      BY <1>1, <2>1 DEF InboxPart, InboxInv
    <3>2. staged'["inbox"] = None => ToSet(mem'.inbox) \subseteq ToSet(disk'.inbox) \cup unlanded'
      BY <1>1, <2>1 DEF InboxPart, InboxInv
    <3>3. mem'.inbox # <<>> => Last(mem'.inbox) \in mem'.seen
      BY <1>2, <1>3, <2>1
    <3> QED
      BY <3>1, <3>2, <3>3 DEF InboxInv
  <2>3. \A w : (Stored(w) => Stored(w)') /\ (Safe(w) => Safe(w)')
    BY <1>1, <2>1 DEF Stored, Safe
  <2>4. saving'[a] = [stores |-> Dirty(mem'), then |-> <<u>>]
        /\ \A b \in Addrs \ {a} : saving'[b] = saving[b]
    BY <1>4 DEF TypeInv, FlushTypes
  <2>5. Answerable(a)'
    <3>1. saving'[a].then[1] = u /\ saving'[a].stores = Dirty(mem')
      BY <2>4
    <3>2. CASE u \notin ToSet(m.inbox)
      BY <2>1, <3>1, <3>2 DEF Answerable, Safe, Stored
    <3>3. CASE u \in ToSet(m.inbox) /\ m.inbox # mem.inbox
      BY <2>1, <3>1, <3>3 DEF Answerable
    <3>4. CASE u \in ToSet(m.inbox) /\ m.inbox = mem.inbox
      <4>1. mem.inbox # <<>> /\ Last(mem.inbox) = u
        BY <1>3, <3>4, SetOfEmpty
      <4>2. staged["inbox"] = None
        BY <1>4, <4>1 DEF InboxPart, InboxInv
      <4>3. Safe(u)
        BY <3>4, <4>2 DEF InboxPart, InboxInv, Safe, Stored
      <4> QED
        BY <2>3, <3>1, <4>3 DEF Answerable
    <3> QED
      BY <3>2, <3>3, <3>4
  <2>6. ASSUME NEW b \in Addrs \ {a}, saving'[b].then # <<>> PROVE Answerable(b)'
    <3>1. Answerable(b) /\ saving'[b] = saving[b]
      BY <2>4, <2>6 DEF InboxPart, AnswersInv
    <3>2. \A w \in ToSet(mem.inbox) : w \in ToSet(mem'.inbox) \/ Safe(w)'
      BY <2>1 DEF Safe, Stored
    <3> QED
      BY <2>3, <3>1, <3>2 DEF Answerable
  <2>7. AnsweredIsStored'
    BY <1>1, <1>4, <2>3 DEF InboxPart, AnsweredIsStored
  <2> QED
    BY <2>2, <2>5, <2>6, <2>7 DEF InboxPart, AnswersInv
<1>5. CASE /\ u \in mem.seen /\ oked' = oked \cup {u}
           /\ early' = IF Stored(u) THEN early ELSE early \cup {u}
           /\ UNCHANGED <<mem, staged, saving, evicted>>
  <2>1. InboxInv' /\ AnswersInv'
    BY <1>1, <1>5 DEF InboxPart, InboxInv, AnswersInv, Answerable, Safe, Stored
  <2>2. AnsweredIsStored'
    BY <1>1, <1>5 DEF InboxPart, AnsweredIsStored, Stored
  <2> QED
    BY <2>1, <2>2 DEF InboxPart
<1> QED
  BY <1>1, <1>4, <1>5

\* The ward's own steps, and a session's end closing there, leave the carrier alone, and the
\* ward never takes back what it has received or applied.
WardStep ==
  \/ \E a \in Addrs : \/ WardCloses(a) \/ Pump(a) \/ WardReceives(a)
                       \/ \E r \in Acks : Ingested(a, r)
  \/ \E u \in Up : Offer(u)
  \/ \E w \in Up \cup Down : Age(w)
  \/ \E d \in Down, r \in Acks : IngestedLoose(d, r)
  \/ WardFlush \/ WardCrashes

LEMMA WardStepIs ==
  ASSUME TypeInv, WardStep
  PROVE  /\ UNCHANGED <<mem, staged, disk, saving, oked, early, unlanded, consumed, evicted>>
         /\ received \subseteq received' /\ applied \subseteq applied'
<1> USE DEF ward, broker, flushes, carrier, links
<1>1. CASE \E a \in Addrs : WardCloses(a) \/ Pump(a) \/ WardReceives(a)
  BY <1>1 DEF WardCloses, Pump, WardReceives
<1>2. ASSUME NEW d \in Down, NEW r \in Acks, Outcome(d, r)
      PROVE  applied \subseteq applied'
  BY <1>2, OutcomeIs
<1>3. ASSUME NEW a \in Addrs, NEW r \in Acks, Ingested(a, r)
      PROVE  /\ UNCHANGED <<mem, staged, disk, saving, oked, early, unlanded, consumed, evicted>>
             /\ received \subseteq received' /\ applied \subseteq applied'
  <2>1. job[a] \in Down
    BY <1>3 DEF Ingested, TypeInv, WardTypes
  <2> QED
    BY <1>2, <1>3, <2>1 DEF Ingested
<1>4. CASE \E d \in Down, r \in Acks : IngestedLoose(d, r)
  BY <1>2, <1>4 DEF IngestedLoose
<1>5. CASE (\E u \in Up : Offer(u)) \/ (\E w \in Up \cup Down : Age(w)) \/ WardFlush \/ WardCrashes
  BY <1>5 DEF Offer, Age, WardFlush, WardCrashes
<1> QED
  BY <1>1, <1>3, <1>4, <1>5 DEF WardStep

\* A crash or a restart of the carrier keeps what is on disk.
LEMMA InboxStartsStep ==
  ASSUME TypeInv, InboxPart, CarrierCrashes \/ CarrierRestarts
  PROVE  InboxPart'
<1>1. PICK files \in Files : /\ CarrierStarts(files)
                             /\ files.inbox = disk.inbox \/ files.inbox = mem.inbox
  <2>1. CASE CarrierCrashes
    BY <2>1 DEF CarrierCrashes, TypeInv, CarrierTypes
  <2>2. CASE CarrierRestarts
    <3>1. CarrierStarts(Restored)
      BY <2>2 DEF CarrierRestarts, Restored
    <3>2. Restored.inbox = IF staged["inbox"] # None THEN mem["inbox"] ELSE disk["inbox"]
      BY RestoredIs DEF Stores
    <3> QED
      BY <3>1, <3>2, RestoredIs
  <2> QED
    BY <2>1, <2>2
<1>2. UNCHANGED <<oked, early, consumed>> /\ unlanded \subseteq unlanded'
  BY DEF CarrierCrashes, CarrierRestarts
<1>3. /\ mem' = PrunedQueue(files) /\ disk' = files /\ evicted \subseteq evicted'
      /\ \A x \in Stores : staged'[x] = IF mem'[x] # files[x] THEN mem'[x] ELSE None
      /\ \A a \in Addrs : saving'[a].then = <<>>
  BY <1>1, StartsIs
<1>4. mem'.inbox = files.inbox /\ staged'["inbox"] = None
  BY <1>3, PrunedQueueIs DEF Stores
<1>5. InboxInv' /\ AnswersInv'
  BY <1>3, <1>4 DEF InboxInv, AnswersInv
<1>6. AnsweredIsStored'
  <2>1. \A u : Stored(u) => Stored(u)'
    BY <1>1, <1>2, <1>3 DEF InboxPart, InboxInv, Stored
  <2> QED
    BY <1>2, <2>1 DEF InboxPart, AnsweredIsStored
<1> QED
  BY <1>5, <1>6 DEF InboxPart

\* Every step keeps the answers true.
LEMMA InboxStep == TypeInv /\ InboxPart /\ [Next]_vars => InboxPart'
<1> SUFFICES ASSUME TypeInv, InboxPart, [Next]_vars PROVE InboxPart'
  OBVIOUS
<1> USE DEF ward, broker, flushes, links
<1>0. mem \in Files /\ FlushTypes
  BY DEF TypeInv, CarrierTypes
<1>1. CASE UNCHANGED vars
  BY <1>1, InboxQuiet DEF vars, carrier
<1>2. CASE WardStep
  BY <1>2, WardStepIs, InboxQuiet
<1>3. ASSUME NEW a \in Addrs, Connect(a) \/ CarrierCloses(a) PROVE InboxPart'
  <2>1. /\ UNCHANGED <<mem, staged, disk, oked, early, unlanded, consumed, evicted>>
        /\ \A b \in Addrs : saving'[b].then = <<>> \/ saving'[b] = saving[b]
    <3>1. CASE Connect(a)
      BY <1>0, <3>1 DEF Connect, FlushTypes, Idle
    <3>2. CASE CarrierCloses(a)
      BY <1>0, <3>2 DEF CarrierCloses, CarrierEnds, FlushTypes, Idle
    <3> QED
      BY <1>3, <3>1, <3>2
  <2> QED
    BY <2>1, InboxQuiet
<1>4. ASSUME NEW a \in Addrs, FlusherRound(a) PROVE InboxPart'
  <2> DEFINE m == PrunedQueue(mem)
             fresh == Without(m.queue, gsent[a])
             n == Recorded(m, ToSet(fresh), "sent")
  <2>1. /\ m \in Files /\ n \in Files /\ Staged(n) /\ evicted \subseteq evicted'
        /\ UNCHANGED <<disk, saving, oked, early, unlanded, consumed>>
    BY <1>4, RoundIs
  <2>2. n.inbox = mem.inbox /\ n.seen = mem.seen
    BY <1>0, <2>1, PrunedQueueIs, RecordedIs DEF States
  <2> HIDE DEF n
  <2> QED
    BY <2>1, <2>2, InboxStaged
<1>5. ASSUME NEW a \in Addrs, FlusherWrites(a) PROVE InboxPart'
  BY <1>5, InboxQuiet DEF FlusherWrites
<1>6. ASSUME NEW a \in Addrs, CarrierReads(a) PROVE InboxPart'
  <2>1. ASSUME CarrierSeesOk(a) \/ CarrierSeesAck(a) PROVE InboxPart'
    <3>1. UNCHANGED <<disk, oked, early, unlanded, consumed, evicted>> /\ saving[a] = Idle
      BY <2>1, SeesIs
    <3>2. \/ \E m \in Files : /\ Staged(m) /\ m.inbox = mem.inbox /\ m.seen = mem.seen
                              /\ saving' = [saving EXCEPT ![a].stores = Dirty(mem')]
          \/ UNCHANGED <<mem, staged, saving>>
      <4>1. CASE CarrierSeesOk(a)
        <5> DEFINE d == Head(toCarrier[a])[2]
                   m == [mem EXCEPT !.queue = Without(@, {d})]
                   D == {d} \cap {e \in Down : mem.delivery[e] # "none"}
        <5>1. /\ m \in Files /\ m.inbox = mem.inbox /\ m.seen = mem.seen
              /\ Recorded(m, D, "received") \in Files
              /\ \/ /\ Staged(Recorded(m, D, "received"))
                    /\ saving' = [saving EXCEPT ![a].stores = Dirty(mem')]
                 \/ UNCHANGED <<mem, staged, saving>>
          BY <4>1, SeesOkIs, QueueShrinks
        <5> HIDE DEF m, D
        <5>2. /\ Recorded(m, D, "received").inbox = mem.inbox
              /\ Recorded(m, D, "received").seen = mem.seen
          BY <5>1, RecordedIs DEF States
        <5> QED
          BY <5>1, <5>2
      <4>2. CASE CarrierSeesAck(a)
        <5> DEFINE d == Head(toCarrier[a])[2]
                   r == Head(toCarrier[a])[1]
        <5>1. /\ r \in States /\ Recorded(mem, {d}, r) \in Files
              /\ \/ /\ Staged(Recorded(mem, {d}, r))
                    /\ saving' = [saving EXCEPT ![a].stores = Dirty(mem')]
                 \/ UNCHANGED <<mem, staged, saving>>
          BY <4>2, SeesAckIs DEF States
        <5> HIDE DEF d, r
        <5>2. Recorded(mem, {d}, r).inbox = mem.inbox /\ Recorded(mem, {d}, r).seen = mem.seen
          BY <1>0, <5>1, RecordedIs
        <5> QED
          BY <5>1, <5>2
      <4> QED
        BY <2>1, <4>1, <4>2
    <3>3. CASE UNCHANGED <<mem, staged, saving>>
      BY <3>1, <3>3, InboxQuiet
    <3>4. ASSUME NEW m \in Files, Staged(m), m.inbox = mem.inbox, m.seen = mem.seen,
                 saving' = [saving EXCEPT ![a].stores = Dirty(mem')]
          PROVE  InboxPart'
      <4>1. \A b \in Addrs : saving'[b].then = <<>> \/ saving'[b] = saving[b]
        BY <1>0, <3>1, <3>4 DEF FlushTypes, Idle
      <4> QED
        BY <3>1, <3>4, <4>1, InboxStaged
    <3> QED
      BY <3>2, <3>3, <3>4
  <2> QED
    BY <1>6, <2>1, InboxTakesStep DEF CarrierReads
<1>7. ASSUME NEW d \in Down, NEW roomy \in BOOLEAN, Send(d, roomy) PROVE InboxPart'
  <2>0. PICK queued, m, st : Sends(d, queued, m, st)
    BY <1>7, SendIs
  <2>1. /\ m \in Files /\ m.inbox = mem.inbox /\ m.seen = mem.seen /\ st \in States
        /\ Recorded(m, {d}, st) \in Files /\ Staged(Recorded(m, {d}, st))
        /\ evicted \subseteq evicted'
    BY <2>0 DEF Sends
  <2>2. UNCHANGED <<disk, saving, oked, early, unlanded, consumed>>
    BY <1>7 DEF Send
  <2>3. Recorded(m, {d}, st).inbox = mem.inbox /\ Recorded(m, {d}, st).seen = mem.seen
    BY <2>1, RecordedIs
  <2> QED
    BY <2>1, <2>2, <2>3, InboxStaged
<1>8. ASSUME Consume PROVE InboxPart'
  <2> DEFINE m == [mem EXCEPT !.inbox = <<>>]
  <2>1. /\ m \in Files /\ m.inbox = <<>>
    <3>1. <<>> \in Seq(Up)
      OBVIOUS
    <3> QED
      BY <1>0, <3>1 DEF Files
  <2>2. /\ Staged(m) /\ mem.inbox # <<>> /\ consumed' = consumed \cup ToSet(mem.inbox)
        /\ UNCHANGED <<disk, saving, oked, early, unlanded, evicted>>
    BY <1>8 DEF Consume
  <2> HIDE DEF m
  <2>3. mem' = m /\ staged'["inbox"] = m["inbox"] /\ m["inbox"] # None
    BY <2>1, <2>2, StagedIs, StoreTypes DEF Stores
  <2>4. InboxInv'
    BY <2>1, <2>2, <2>3, SetOfEmpty DEF InboxPart, InboxInv
  <2>5. AnswersInv'
    BY <2>2 DEF InboxPart, AnswersInv, Answerable, Safe, Stored
  <2>6. AnsweredIsStored'
    BY <2>2 DEF InboxPart, AnsweredIsStored, Stored
  <2> QED
    BY <2>4, <2>5, <2>6 DEF InboxPart
<1>9. CASE Next
  BY <1>2, <1>3, <1>4, <1>5, <1>6, <1>7, <1>8, <1>9, InboxSavesStep, InboxStartsStep
     DEF Next, WardStep
<1> QED
  BY <1>1, <1>9

-----------------------------------------------------------------------------
(* The records of deliveries. *)

RecordsPart == FramesInv /\ RecordsInv

\* Frames taken off a session, and answers lost with one, harm nothing.
LEMMA FramesTaken ==
  ASSUME FramesInv, received \subseteq received', applied \subseteq applied',
         \A a \in Addrs : ToSet(toCarrier'[a]) \subseteq ToSet(toCarrier[a]),
         \A a \in Addrs : job'[a] \in {job[a], None}
  PROVE  FramesInv'
<1>1. \A a \in Addrs : job'[a] # None => job'[a] \in received'
  BY DEF FramesInv
<1>2. ASSUME NEW a \in Addrs, NEW f \in ToSet(toCarrier'[a])
      PROVE  /\ f[1] \in {"applied", "unchanged"} => f[2] \in applied'
             /\ f[1] \in {"OK"} \cup Acks => f[2] \in received'
  BY <1>2 DEF FramesInv
<1> QED
  BY <1>1, <1>2 DEF FramesInv

\* One frame the ward sends, that is so.
LEMMA FrameSent ==
  ASSUME TypeInv, FramesInv, received \subseteq received', applied \subseteq applied',
         NEW a \in Addrs, NEW f \in FromWard, toCarrier' = [toCarrier EXCEPT ![a] = Append(@, f)],
         f[1] \in {"applied", "unchanged"} => f[2] \in applied',
         f[1] \in {"OK"} \cup Acks => f[2] \in received',
         \A b \in Addrs : job'[b] # None => job'[b] \in received'
  PROVE  FramesInv'
<1>1. toCarrier \in [Addrs -> Seq(FromWard)]
  BY DEF TypeInv, LinkTypes
<1>2. ASSUME NEW b \in Addrs PROVE ToSet(toCarrier'[b]) \subseteq ToSet(toCarrier[b]) \cup {f}
  <2>1. CASE b = a
    <3>1. toCarrier'[b] = Append(toCarrier[a], f) /\ toCarrier[a] \in Seq(FromWard)
      BY <1>1, <2>1
    <3> QED
      BY <2>1, <3>1, SetOfAppend
  <2>2. CASE b # a
    BY <1>1, <2>2
  <2> QED
    BY <2>1, <2>2
<1>3. ASSUME NEW b \in Addrs, NEW g \in ToSet(toCarrier'[b])
      PROVE  /\ g[1] \in {"applied", "unchanged"} => g[2] \in applied'
             /\ g[1] \in {"OK"} \cup Acks => g[2] \in received'
  BY <1>2, <1>3 DEF FramesInv
<1> QED
  BY <1>3 DEF FramesInv

\* The ward sends no frame that is not so.
LEMMA FramesWardStep ==
  ASSUME TypeInv, FramesInv, WardStep
  PROVE  FramesInv'
<1> USE DEF ward, broker, links
<1>0. /\ received \subseteq received' /\ applied \subseteq applied'
      /\ job \in [Addrs -> Down \cup {None}] /\ toCarrier \in [Addrs -> Seq(FromWard)]
      /\ toWard \in [Addrs -> Seq(FromCarrier)] /\ received \subseteq Down
  BY WardStepIs DEF TypeInv, WardTypes, LinkTypes
<1>1. ASSUME NEW a \in Addrs, WardCloses(a) PROVE FramesInv'
  <2>1. \A b \in Addrs : job'[b] \in {job[b], None}
    BY <1>1 DEF WardCloses, WardEnds
  <2>2. toCarrier' = toCarrier
    BY <1>1 DEF WardCloses
  <2> QED
    BY <1>0, <2>1, <2>2, FramesTaken
<1>2. ASSUME NEW a \in Addrs, Pump(a) PROVE FramesInv'
  <2> DEFINE kept == PrunedOutbox(outbox)
             batch == Without(kept, pumped[a])
  <2>1. batch \in Seq(Up)
    BY PrunedOutboxIs, WithoutIs DEF TypeInv, WardTypes
  <2>2. toCarrier' = [toCarrier EXCEPT ![a] = @ \o Frames(batch)] /\ job' = job
    BY <1>2 DEF Pump
  <2> HIDE DEF batch
  <2>3. Frames(batch) \in Seq(FromWard) /\ ToSet(Frames(batch)) \subseteq {"EVENT"} \X Up
    BY <2>1, FramesAre
  <2>4. ASSUME NEW b \in Addrs
        PROVE  ToSet(toCarrier'[b]) \subseteq ToSet(toCarrier[b]) \cup ({"EVENT"} \X Up)
    <3>1. CASE b = a
      <4>1. toCarrier'[b] = toCarrier[a] \o Frames(batch) /\ toCarrier[a] \in Seq(FromWard)
        BY <1>0, <2>2, <3>1
      <4> QED
        BY <2>3, <3>1, <4>1, SetOfConcat
    <3>2. CASE b # a
      BY <1>0, <2>2, <3>2
    <3> QED
      BY <3>1, <3>2
  <2>5. ASSUME NEW b \in Addrs, NEW f \in ToSet(toCarrier'[b])
        PROVE  /\ f[1] \in {"applied", "unchanged"} => f[2] \in applied'
               /\ f[1] \in {"OK"} \cup Acks => f[2] \in received'
    <3>1. CASE f \in ToSet(toCarrier[b])
      BY <1>0, <3>1 DEF FramesInv
    <3>2. CASE f \in {"EVENT"} \X Up
      BY <3>2 DEF Acks
    <3> QED
      BY <2>4, <2>5, <3>1, <3>2
  <2> QED
    BY <1>0, <2>2, <2>5 DEF FramesInv
<1>3. ASSUME NEW a \in Addrs, WardReceives(a) PROVE FramesInv'
  <2>0. PICK f : f = Head(toWard[a])
    OBVIOUS
  <2>1. f \in FromCarrier
    BY <1>0, <1>3, <2>0, HeadOf DEF WardReceives
  <2>2. CASE /\ f[1] = "EVENT"
             /\ received' = received \cup {f[2]}
             /\ job' = [job EXCEPT ![a] = f[2]]
             /\ toCarrier' = [toCarrier EXCEPT ![a] = Append(@, <<"OK", f[2]>>)]
    <3>1. <<"OK", f[2]>> \in FromWard
      BY <2>1, <2>2 DEF FromCarrier, FromWard
    <3>2. \A b \in Addrs : job'[b] # None => job'[b] \in received'
      BY <1>0, <2>2 DEF FramesInv
    <3> QED
      BY <1>0, <2>2, <3>1, <3>2, FrameSent
  <2>3. CASE UNCHANGED <<job, toCarrier>>
    BY <1>0, <2>3, FramesTaken
  <2> QED
    BY <1>3, <2>0, <2>2, <2>3 DEF WardReceives
<1>4. ASSUME NEW a \in Addrs, NEW r \in Acks, Ingested(a, r) PROVE FramesInv'
  <2>1. job[a] \in Down /\ Outcome(job[a], r) /\ job[a] \in received
    BY <1>0, <1>4 DEF Ingested, FramesInv
  <2>2. PICK d \in Down : d = job[a]
    BY <2>1
  <2>3. r \in {"applied", "unchanged"} => d \in applied'
    BY <2>1, <2>2, OutcomeIs
  <2>4. /\ toCarrier' = [toCarrier EXCEPT ![a] = Append(@, <<r, d>>)]
        /\ job' = [job EXCEPT ![a] = None]
    BY <1>4, <2>2 DEF Ingested
  <2>5. <<r, d>> \in FromWard
    BY DEF FromWard
  <2>6. \A b \in Addrs : job'[b] # None => job'[b] \in received'
    BY <1>0, <2>4 DEF FramesInv
  <2> QED
    BY <1>0, <2>1, <2>2, <2>3, <2>4, <2>5, <2>6, FrameSent
<1>5. CASE (\E u \in Up : Offer(u)) \/ (\E w \in Up \cup Down : Age(w)) \/ WardFlush
           \/ \E d \in Down, r \in Acks : IngestedLoose(d, r)
  <2>1. UNCHANGED <<job, toCarrier>>
    BY <1>5 DEF Offer, Age, WardFlush, IngestedLoose
  <2> QED
    BY <1>0, <2>1, FramesTaken
<1>6. CASE WardCrashes
  <2>1. toCarrier' = toCarrier /\ \A a \in Addrs : job'[a] = None
    BY <1>6 DEF WardCrashes
  <2> QED
    BY <1>0, <2>1, FramesTaken
<1> QED
  BY <1>1, <1>2, <1>3, <1>4, <1>5, <1>6 DEF WardStep

\* The ward's history only grows, and a wrap leaves the queue for a reason only.
Onward ==
  /\ received \subseteq received' /\ applied \subseteq applied'
  /\ evicted \subseteq evicted' /\ unlanded \subseteq unlanded'
  /\ ToSet(mem.queue) \subseteq ToSet(mem'.queue) \cup Gone'

\* What was so of a delivery stays so.
LEMMA ReportsStay ==
  ASSUME Onward, NEW d, NEW st, Reported(d, st)
  PROVE  Reported(d, st)'
BY DEF Onward, Gone, Reported

\* A step that leaves queue and records alone.
LEMMA RecordsQuiet ==
  ASSUME RecordsInv, Onward,
         mem'.queue = mem.queue, mem'.delivery = mem.delivery, disk'.queue = disk.queue,
         disk'.delivery = disk.delivery, staged'["queue"] = staged["queue"]
  PROVE  RecordsInv'
<1>1. ASSUME NEW d \in Down
      PROVE  Reported(d, mem.delivery[d])' /\ Reported(d, disk.delivery[d])'
  <2>1. PICK st, old : st = mem.delivery[d] /\ old = disk.delivery[d]
    OBVIOUS
  <2>2. Reported(d, st) /\ Reported(d, old)
    BY <2>1 DEF RecordsInv, Truthful
  <2>3. Reported(d, st)' /\ Reported(d, old)'
    BY <2>2, ReportsStay
  <2>4. st = mem'.delivery[d] /\ old = disk'.delivery[d]
    BY <2>1
  <2> QED
    BY <2>3, <2>4
<1>2. Truthful(mem.delivery)' /\ Truthful(disk.delivery)'
  BY <1>1 DEF Truthful
<1> QED
  BY <1>2 DEF RecordsInv, Onward

\* A step that stages new records, each of them so.
LEMMA RecordsStaged ==
  ASSUME TypeInv, RecordsInv, Onward, NEW m \in Files, Staged(m), disk' = disk,
         \A d \in Down : m.delivery[d] = mem.delivery[d] \/ Reported(d, m.delivery[d])'
  PROVE  RecordsInv'
<1>1. /\ mem' = m /\ "queue" \in Stores
      /\ staged'["queue"] = IF m.queue # mem.queue THEN m.queue ELSE staged["queue"]
      /\ m["queue"] # None
  BY StagedIs, StoreTypes DEF Stores
<1>2. ASSUME NEW d \in Down
      PROVE  Reported(d, mem.delivery[d])' /\ Reported(d, disk.delivery[d])'
  <2>1. PICK st, old : st = mem.delivery[d] /\ old = disk.delivery[d]
    OBVIOUS
  <2>2. Reported(d, st) /\ Reported(d, old)
    BY <2>1 DEF RecordsInv, Truthful
  <2>3. Reported(d, st)' /\ Reported(d, old)'
    BY <2>2, ReportsStay
  <2>4. old = disk'.delivery[d]
    BY <2>1
  <2>5. PICK new : new = m.delivery[d]
    OBVIOUS
  <2>6. Reported(d, new)'
    BY <2>1, <2>3, <2>5
  <2>7. new = mem'.delivery[d]
    BY <1>1, <2>5
  <2> QED
    BY <2>3, <2>4, <2>6, <2>7
<1>3. Truthful(mem.delivery)' /\ Truthful(disk.delivery)'
  BY <1>2 DEF Truthful
<1>4. staged'["queue"] = None => ToSet(mem'.queue) \subseteq ToSet(disk'.queue) \cup unlanded'
  BY <1>1 DEF RecordsInv, Onward
<1> QED
  BY <1>3, <1>4 DEF RecordsInv

\* A write of a file: it holds what memory held.
LEMMA RecordsWritten ==
  ASSUME TypeInv, RecordsPart, NEW x \in Stores, NEW lands \in BOOLEAN, Written(x, lands),
         UNCHANGED <<mem, received, applied, evicted, job, toCarrier>>
  PROVE  RecordsPart'
<1>1. /\ "queue" \in Stores /\ "delivery" \in Stores
      /\ staged'["queue"] = IF x = "queue" THEN None ELSE staged["queue"]
      /\ disk'.queue = IF x = "queue" /\ staged["queue"] # None /\ lands
                       THEN mem.queue ELSE disk.queue
      /\ disk'.delivery = disk.delivery \/ disk'.delivery = mem.delivery
      /\ unlanded \subseteq unlanded'
      /\ ~lands /\ x = "queue" => ToSet(mem.queue) \subseteq ToSet(disk.queue) \cup unlanded'
  BY WrittenIs DEF Stores
<1>2. Onward
  BY <1>1 DEF Onward
<1>3. ASSUME NEW d \in Down
      PROVE  Reported(d, mem.delivery[d])' /\ Reported(d, disk.delivery[d])'
  <2>1. PICK st, old : st = mem.delivery[d] /\ old = disk.delivery[d]
    OBVIOUS
  <2>2. Reported(d, st) /\ Reported(d, old)
    BY <2>1 DEF RecordsPart, RecordsInv, Truthful
  <2>3. Reported(d, st)' /\ Reported(d, old)'
    BY <1>2, <2>2, ReportsStay
  <2>4. mem'.delivery[d] = st /\ (disk'.delivery[d] = old \/ disk'.delivery[d] = st)
    BY <1>1, <2>1
  <2> QED
    BY <2>3, <2>4
<1>4. Truthful(mem.delivery)' /\ Truthful(disk.delivery)'
  BY <1>3 DEF Truthful
<1>5. staged'["queue"] = None => ToSet(mem'.queue) \subseteq ToSet(disk'.queue) \cup unlanded'
  BY <1>1 DEF RecordsPart, RecordsInv
<1>6. FramesInv'
  BY FramesTaken DEF RecordsPart
<1> QED
  BY <1>4, <1>5, <1>6 DEF RecordsPart, RecordsInv

\* The writes of files.
LEMMA RecordsSavesStep ==
  ASSUME TypeInv, RecordsPart, NEW lands \in BOOLEAN
  PROVE  /\ \A a \in Addrs : FlusherSaves(a, lands) \/ ReaderSaves(a, lands) => RecordsPart'
         /\ \A q \in orphans : OrphanSaves(q, lands) => RecordsPart'
         /\ ConsoleSaves(lands) => RecordsPart'
<1> USE DEF broker, links
<1>0. FlushTypes
  BY DEF TypeInv
<1>1. ASSUME NEW a \in Addrs, FlusherSaves(a, lands) PROVE RecordsPart'
  <2>1. Head(flushing[a].stores) \in Stores
    BY <1>0, <1>1, HeadOf DEF FlusherSaves, FlushTypes
  <2> QED
    BY <1>1, <2>1, RecordsWritten DEF FlusherSaves
<1>2. ASSUME NEW a \in Addrs, ReaderSaves(a, lands) PROVE RecordsPart'
  <2>1. Head(saving[a].stores) \in Stores
    BY <1>0, <1>2, HeadOf DEF ReaderSaves, FlushTypes
  <2> QED
    BY <1>2, <2>1, RecordsWritten DEF ReaderSaves
<1>3. ASSUME NEW q \in orphans, OrphanSaves(q, lands) PROVE RecordsPart'
  <2>1. q \in Seq(Stores) /\ q # <<>>
    BY <1>0 DEF FlushTypes
  <2>2. Head(q) \in Stores
    BY <2>1, HeadOf
  <2> QED
    BY <1>3, <2>2, RecordsWritten DEF OrphanSaves
<1>4. ASSUME ConsoleSaves(lands) PROVE RecordsPart'
  <2>1. Head(console) \in Stores
    BY <1>0, <1>4, HeadOf DEF ConsoleSaves, FlushTypes
  <2> QED
    BY <1>4, <2>1, RecordsWritten DEF ConsoleSaves
<1> QED
  BY <1>1, <1>2, <1>3, <1>4

\* A crash, which loses what is not on disk, and a restart.
LEMMA RecordsStartsStep ==
  ASSUME TypeInv, RecordsPart, CarrierCrashes \/ CarrierRestarts
  PROVE  RecordsPart'
<1> USE DEF broker
<1>1. PICK files \in Files :
        /\ CarrierStarts(files)
        /\ files.delivery = disk.delivery \/ files.delivery = mem.delivery
        /\ ToSet(mem.queue) \subseteq ToSet(files.queue) \cup unlanded'
  <2>1. CASE CarrierCrashes
    BY <2>1 DEF CarrierCrashes, TypeInv, CarrierTypes
  <2>2. CASE CarrierRestarts
    <3>1. CarrierStarts(Restored) /\ unlanded' = unlanded
      BY <2>2 DEF CarrierRestarts, Restored
    <3>2. /\ Restored.queue = IF staged["queue"] # None THEN mem["queue"] ELSE disk["queue"]
          /\ Restored.delivery = IF staged["delivery"] # None THEN mem["delivery"]
                                 ELSE disk["delivery"]
      BY RestoredIs DEF Stores
    <3>3. ToSet(mem.queue) \subseteq ToSet(Restored.queue) \cup unlanded'
      BY <3>1, <3>2 DEF RecordsPart, RecordsInv
    <3> QED
      BY <3>1, <3>2, <3>3, RestoredIs
  <2> QED
    BY <2>1, <2>2
<1>2. UNCHANGED <<received, applied, job, toCarrier>> /\ unlanded \subseteq unlanded'
  BY DEF CarrierCrashes, CarrierRestarts
<1>3. /\ mem' = PrunedQueue(files) /\ disk' = files /\ evicted \subseteq evicted'
      /\ ToSet(files.queue) \subseteq ToSet(mem'.queue) \cup evicted'
      /\ \A x \in Stores : staged'[x] = IF mem'[x] # files[x] THEN mem'[x] ELSE None
      /\ mem' \in Files
  BY <1>1, StartsIs
<1>4. Onward
  BY <1>1, <1>2, <1>3 DEF Onward, Gone
<1>5. ASSUME NEW d \in Down
      PROVE  Reported(d, mem.delivery[d])' /\ Reported(d, disk.delivery[d])'
  <2>1. PICK st, old, file : st = mem.delivery[d] /\ old = disk.delivery[d] /\ file = files.delivery[d]
    OBVIOUS
  <2>2. Reported(d, st) /\ Reported(d, old) /\ (file = old \/ file = st)
    BY <1>1, <2>1 DEF RecordsPart, RecordsInv, Truthful
  <2>3. Reported(d, file)'
    BY <1>4, <2>2, ReportsStay
  <2>4. disk'.delivery[d] = file
    BY <1>3, <2>1
  <2>5. mem'.delivery[d] = file \/ mem'.delivery[d] = "rejected"
    BY <1>3, <2>1, PrunedQueueIs
  <2>6. Reported(d, "rejected")'
    BY DEF Reported, Waiting, Acks
  <2> QED
    BY <2>3, <2>4, <2>5, <2>6
<1>6. Truthful(mem.delivery)' /\ Truthful(disk.delivery)'
  BY <1>5 DEF Truthful
<1>7. staged'["queue"] = None => ToSet(mem'.queue) \subseteq ToSet(disk'.queue) \cup unlanded'
  <2>1. "queue" \in Stores /\ mem'["queue"] # None
    BY <1>3, StoreTypes DEF Stores
  <2> QED
    BY <1>3, <2>1
<1>8. FramesInv'
  BY <1>2, FramesTaken DEF RecordsPart
<1> QED
  BY <1>6, <1>7, <1>8 DEF RecordsPart, RecordsInv

\* A frame of the ward taken off.
LEMMA TakenOff ==
  ASSUME TypeInv, NEW a \in Addrs, toCarrier' = [toCarrier EXCEPT ![a] = Tail(@)],
         ToSet(Tail(toCarrier[a])) \subseteq ToSet(toCarrier[a])
  PROVE  \A b \in Addrs : ToSet(toCarrier'[b]) \subseteq ToSet(toCarrier[b])
BY DEF TypeInv, LinkTypes

\* An OK or an ACK of the ward, which speaks of what was.
LEMMA RecordsSeesStep ==
  ASSUME TypeInv, RecordsPart, NEW a \in Addrs, CarrierSeesOk(a) \/ CarrierSeesAck(a)
  PROVE  RecordsPart'
<1> USE DEF ward, broker
<1>1. PICK f : f = Head(toCarrier[a])
  OBVIOUS
<1>2. PICK d, r : d = f[2] /\ r = f[1]
  OBVIOUS
<1>3. /\ toCarrier' = [toCarrier EXCEPT ![a] = Tail(@)]
      /\ ToSet(Tail(toCarrier[a])) \subseteq ToSet(toCarrier[a])
      /\ f \in ToSet(toCarrier[a]) /\ f[1] \in {"OK"} \cup Acks /\ d \in Down
      /\ UNCHANGED <<received, applied, job, disk, unlanded, evicted>>
  BY <1>1, <1>2, SeesIs
<1>4. FramesInv'
  BY <1>3, TakenOff, FramesTaken DEF RecordsPart
<1>5. d \in received /\ (r \in {"applied", "unchanged"} => d \in applied)
  BY <1>2, <1>3 DEF RecordsPart, FramesInv
<1>6. mem \in Files
  BY DEF TypeInv, CarrierTypes
<1>7. CASE UNCHANGED <<mem, staged>>
  <2>1. Onward
    BY <1>3, <1>7 DEF Onward
  <2> QED
    BY <1>3, <1>4, <1>7, <2>1, RecordsQuiet DEF RecordsPart
<1>8. CASE CarrierSeesOk(a)
  <2>1. PICK m, D : /\ m = [mem EXCEPT !.queue = Without(@, {d})]
                    /\ D = {d} \cap {e \in Down : mem.delivery[e] # "none"}
    OBVIOUS
  <2>2. PICK n : n = Recorded(m, D, "received")
    OBVIOUS
  <2>3. /\ m \in Files /\ n \in Files
        /\ Staged(n) \/ UNCHANGED <<mem, staged>>
    BY <1>1, <1>2, <1>8, <2>1, <2>2, SeesOkIs
  <2>4. /\ ToSet(mem.queue) \subseteq ToSet(m.queue) \cup {d} /\ m.delivery = mem.delivery
    BY <2>1, QueueShrinks
  <2>5. /\ n.queue = m.queue
        /\ \A e \in Down : n.delivery[e] = mem.delivery[e] \/ (e = d /\ n.delivery[e] = "received")
    <3>1. /\ n.queue = m.queue
          /\ \A e \in Down : n.delivery[e] = IF e \in D /\ Advanced(m.delivery[e], "received")
                                            THEN "received" ELSE m.delivery[e]
      BY <2>2, <2>3, RecordedIs DEF States
    <3>2. D \subseteq {d}
      BY <2>1
    <3> QED
      BY <2>4, <3>1, <3>2
  <2>6. Reported(d, "received")'
    BY <1>3, <1>5 DEF Reported, Waiting
  <2>7. ASSUME Staged(n) PROVE RecordsPart'
    <3>1. Onward
      BY <1>3, <1>5, <2>3, <2>4, <2>5, <2>7, StagedIs DEF Onward, Gone
    <3>2. \A e \in Down : n.delivery[e] = mem.delivery[e] \/ Reported(e, n.delivery[e])'
      BY <2>5, <2>6
    <3> QED
      BY <1>3, <1>4, <2>3, <2>7, <3>1, <3>2, RecordsStaged DEF RecordsPart
  <2> QED
    BY <1>7, <2>3, <2>7
<1>9. CASE CarrierSeesAck(a)
  <2>1. PICK n : n = Recorded(mem, {d}, r)
    OBVIOUS
  <2>2. /\ r \in Acks /\ r \in States /\ n \in Files
        /\ Staged(n) \/ UNCHANGED <<mem, staged>>
    BY <1>1, <1>2, <1>9, <2>1, SeesAckIs DEF States
  <2>3. /\ n.queue = mem.queue
        /\ \A e \in Down : n.delivery[e] = mem.delivery[e] \/ (e = d /\ n.delivery[e] = r)
    BY <1>6, <2>1, <2>2, RecordedIs
  <2>4. Reported(d, r)'
    BY <1>3, <1>5, <2>2 DEF Reported, Waiting, Acks
  <2>5. ASSUME Staged(n) PROVE RecordsPart'
    <3>1. Onward
      BY <1>3, <2>2, <2>3, <2>5, StagedIs DEF Onward
    <3>2. \A e \in Down : n.delivery[e] = mem.delivery[e] \/ Reported(e, n.delivery[e])'
      BY <2>3, <2>4
    <3> QED
      BY <1>3, <1>4, <2>2, <2>5, <3>1, <3>2, RecordsStaged DEF RecordsPart
  <2> QED
    BY <1>7, <2>2, <2>5
<1> QED
  BY <1>8, <1>9

\* The carrier's own steps: a send, a round of the flusher, an inbox taken.
LEMMA RecordsOwnStep ==
  ASSUME TypeInv, RecordsPart
  PROVE  /\ \A a \in Addrs : FlusherRound(a) \/ CarrierTakes(a) => RecordsPart'
         /\ \A d \in Down, roomy \in BOOLEAN : Send(d, roomy) => RecordsPart'
         /\ Consume => RecordsPart'
<1> USE DEF ward, broker, links
<1>0. mem \in Files /\ FramesInv /\ RecordsInv
  BY DEF TypeInv, CarrierTypes, RecordsPart
<1>1. ASSUME NEW a \in Addrs, FlusherRound(a) PROVE RecordsPart'
  <2>1. PICK m : m = PrunedQueue(mem)
    OBVIOUS
  <2>2. PICK fresh : fresh = Without(m.queue, gsent[a])
    OBVIOUS
  <2>3. PICK n : n = Recorded(m, ToSet(fresh), "sent")
    OBVIOUS
  <2>4. /\ m \in Files /\ n \in Files /\ Staged(n) /\ ToSet(fresh) \subseteq ToSet(m.queue)
        /\ evicted' = evicted \cup (ToSet(mem.queue) \ ToSet(m.queue))
        /\ UNCHANGED <<disk, unlanded, received, applied, job, toCarrier>>
    BY <1>1, <2>1, <2>2, <2>3, RoundIs
  <2>5. \A d \in Down : m.delivery[d] = mem.delivery[d] \/ m.delivery[d] = "rejected"
    BY <1>0, <2>1, PrunedQueueIs
  <2>6. /\ n.queue = m.queue
        /\ \A d \in Down : \/ n.delivery[d] = mem.delivery[d] \/ n.delivery[d] = "rejected"
                           \/ d \in ToSet(m.queue) /\ n.delivery[d] = "sent"
    BY <2>3, <2>4, <2>5, RecordedIs DEF States
  <2>7. mem' = n
    BY <2>4, StagedIs
  <2>8. Onward
    BY <2>4, <2>6, <2>7 DEF Onward, Gone
  <2>9. \A d \in Down : n.delivery[d] = mem.delivery[d] \/ Reported(d, n.delivery[d])'
    BY <2>6, <2>7 DEF Reported, Acks, Waiting
  <2>10. FramesInv'
    BY <1>0, <2>4, FramesTaken
  <2> QED
    BY <1>0, <2>4, <2>8, <2>9, <2>10, RecordsStaged DEF RecordsPart
<1>2. ASSUME NEW a \in Addrs, CarrierTakes(a) PROVE RecordsPart'
  <2>1. PICK u : u = Head(toCarrier[a])[2]
    OBVIOUS
  <2>2. PICK m : m = [mem EXCEPT !.seen = @ \cup {u}, !.inbox = Newest(Append(@, u), InboxCap)]
    OBVIOUS
  <2>3. /\ m \in Files
        /\ \/ Staged(m) /\ evicted \subseteq evicted'
           \/ UNCHANGED <<mem, staged, evicted>>
        /\ toCarrier' = [toCarrier EXCEPT ![a] = Tail(@)]
        /\ ToSet(Tail(toCarrier[a])) \subseteq ToSet(toCarrier[a])
        /\ UNCHANGED <<disk, unlanded, received, applied, job>>
    BY <1>2, <2>1, <2>2, TakesIs
  <2>4. m.queue = mem.queue /\ m.delivery = mem.delivery
    BY <1>0, <2>2 DEF Files
  <2>5. FramesInv'
    BY <1>0, <2>3, TakenOff, FramesTaken
  <2>6. CASE Staged(m) /\ evicted \subseteq evicted'
    <3>1. Onward
      BY <2>3, <2>4, <2>6, StagedIs DEF Onward
    <3> QED
      BY <1>0, <2>3, <2>4, <2>5, <2>6, <3>1, RecordsStaged DEF RecordsPart
  <2>7. CASE UNCHANGED <<mem, staged, evicted>>
    <3>1. Onward
      BY <2>3, <2>7 DEF Onward
    <3> QED
      BY <1>0, <2>3, <2>5, <2>7, <3>1, RecordsQuiet DEF RecordsPart
  <2> QED
    BY <2>3, <2>6, <2>7
<1>3. ASSUME NEW d \in Down, NEW roomy \in BOOLEAN, Send(d, roomy) PROVE RecordsPart'
  <2>1. PICK queued, m, st : Sends(d, queued, m, st)
    BY <1>3, SendIs
  <2>2. PICK n : n = Recorded(m, {d}, st)
    OBVIOUS
  <2>3. /\ m \in Files /\ n \in Files /\ Staged(n) /\ st \in States /\ st \in Waiting
        /\ ToSet(queued) = ToSet(mem.queue) \cup {d}
        /\ evicted' = evicted \cup (ToSet(queued) \ ToSet(m.queue))
        /\ \A e \in Down : m.delivery[e] = mem.delivery[e] \/ m.delivery[e] = "rejected"
    BY <2>1, <2>2 DEF Sends, Waiting
  <2>4. UNCHANGED <<disk, unlanded, received, applied, job, toCarrier>>
    BY <1>3 DEF Send
  <2>5. /\ n.queue = m.queue
        /\ \A e \in Down : \/ n.delivery[e] = mem.delivery[e] \/ n.delivery[e] = "rejected"
                           \/ e = d /\ n.delivery[e] = st
    BY <2>2, <2>3, RecordedIs
  <2>6. mem' = n
    BY <2>3, StagedIs
  <2>7. Onward
    BY <2>3, <2>4, <2>5, <2>6 DEF Onward, Gone
  <2>8. Reported(d, st)' /\ \A e \in Down : Reported(e, "rejected")'
    BY <2>3, <2>5, <2>6 DEF Reported, Acks, Waiting, Gone
  <2>9. \A e \in Down : n.delivery[e] = mem.delivery[e] \/ Reported(e, n.delivery[e])'
    BY <2>5, <2>8
  <2>10. FramesInv'
    BY <1>0, <2>4, FramesTaken
  <2> QED
    BY <1>0, <2>3, <2>4, <2>7, <2>9, <2>10, RecordsStaged DEF RecordsPart
<1>4. ASSUME Consume PROVE RecordsPart'
  <2>1. PICK m : m = [mem EXCEPT !.inbox = <<>>]
    OBVIOUS
  <2>2. m \in Files /\ m.queue = mem.queue /\ m.delivery = mem.delivery
    <3>1. <<>> \in Seq(Up)
      OBVIOUS
    <3> QED
      BY <1>0, <2>1, <3>1 DEF Files
  <2>3. Staged(m) /\ UNCHANGED <<disk, unlanded, evicted, received, applied, job, toCarrier>>
    BY <1>4, <2>1 DEF Consume
  <2>4. Onward
    BY <2>2, <2>3, StagedIs DEF Onward
  <2>5. FramesInv'
    BY <1>0, <2>3, FramesTaken
  <2> QED
    BY <1>0, <2>2, <2>3, <2>4, <2>5, RecordsStaged DEF RecordsPart
<1> QED
  BY <1>1, <1>2, <1>3, <1>4

\* Every step keeps the records true.
LEMMA RecordsStep == TypeInv /\ RecordsPart /\ [Next]_vars => RecordsPart'
<1> SUFFICES ASSUME TypeInv, RecordsPart, [Next]_vars PROVE RecordsPart'
  OBVIOUS
<1> USE DEF ward, broker, flushes, links, carrier
<1>0. mem \in Files /\ toCarrier \in [Addrs -> Seq(FromWard)]
  BY DEF TypeInv, CarrierTypes, LinkTypes
<1>1. CASE UNCHANGED vars
  <2>1. /\ UNCHANGED <<mem, staged, disk, evicted, unlanded, received, applied, job, toCarrier>>
    BY <1>1 DEF vars
  <2>2. Onward
    BY <2>1 DEF Onward
  <2> QED
    BY <2>1, <2>2, RecordsQuiet, FramesTaken DEF RecordsPart
<1>2. CASE WardStep
  <2>1. Onward
    BY <1>2, WardStepIs DEF Onward
  <2> QED
    BY <1>2, <2>1, WardStepIs, RecordsQuiet, FramesWardStep DEF RecordsPart
<1>3. ASSUME NEW a \in Addrs, Connect(a) \/ CarrierCloses(a) \/ FlusherWrites(a) PROVE RecordsPart'
  <2>1. /\ UNCHANGED <<mem, staged, disk, evicted, unlanded, received, applied, job>>
        /\ \A b \in Addrs : ToSet(toCarrier'[b]) \subseteq ToSet(toCarrier[b])
    <3>1. CASE Connect(a)
      BY <1>0, <3>1, SetOfEmpty DEF Connect
    <3>2. CASE CarrierCloses(a) \/ FlusherWrites(a)
      BY <3>2 DEF CarrierCloses, FlusherWrites
    <3> QED
      BY <1>3, <3>1, <3>2
  <2>2. Onward
    BY <2>1 DEF Onward
  <2> QED
    BY <2>1, <2>2, RecordsQuiet, FramesTaken DEF RecordsPart
<1>4. CASE Next
  BY <1>2, <1>3, <1>4, RecordsSavesStep, RecordsStartsStep, RecordsSeesStep, RecordsOwnStep
     DEF Next, WardStep, CarrierReads
<1> QED
  BY <1>1, <1>4

\* Nothing is stored or answered at first.
LEMMA InitParts == Init => InboxPart /\ RecordsPart
<1> SUFFICES ASSUME Init PROVE InboxPart /\ RecordsPart
  OBVIOUS
<1>1. InboxPart
  BY SetOfEmpty DEF Init, Idle, InboxPart, InboxInv, AnswersInv, AnsweredIsStored
<1>2. FramesInv
  BY SetOfEmpty DEF Init, FramesInv
<1>3. RecordsInv
  BY SetOfEmpty DEF Init, RecordsInv, Truthful, Reported, Waiting, Acks
<1> QED
  BY <1>1, <1>2, <1>3 DEF RecordsPart

\* The inductive invariant: the inbox and its file account for each other, a reader about
\* to answer has the inbox ahead of it or needs it not, frames and records are true.
THEOREM InvariantHolds == Spec => []IInv
<1>1. Init => IInv
  BY InitTypes, InitParts DEF IInv, InboxPart, RecordsPart
<1>2. IInv /\ [Next]_vars => IInv'
  BY TypeStep, InboxStep, RecordsStep DEF IInv, InboxPart, RecordsPart
<1> QED
  BY <1>1, <1>2, PTL DEF Spec

\* What the carrier has answered OK is stored, but for early answers to duplicates and
\* failed writes, and what it reports of a delivery is so (inbound_wrap, set_delivery).
THEOREM KeepsItsWord == Spec => []CarrierKeepsItsWord
<1>1. IInv => CarrierKeepsItsWord
  <2> SUFFICES ASSUME IInv PROVE ReportsAreTrue
    BY DEF IInv, CarrierKeepsItsWord
  <2> QED
    BY DEF IInv, RecordsInv, Truthful, Reported, Gone, ReportsAreTrue
<1> QED
  BY <1>1, InvariantHolds, PTL

-----------------------------------------------------------------------------
(* Records only advance. *)

\* advanced_by raises the rank.
LEMMA Rises ==
  ASSUME NEW old \in States, NEW new \in States, Advanced(old, new)
  PROVE  Rank(new) > Rank(old)
BY DEF States, Acks, Waiting, Acked, Advanced, Rank

\* Two advances, one after the other, or either of them.
Rose(old, new) == new = old \/ Rank(new) > Rank(old)

LEMMA RisesTwice ==
  ASSUME NEW old \in States, NEW mid \in States, NEW new \in States,
         mid = old \/ Advanced(old, mid), new = mid \/ Advanced(mid, new)
  PROVE  Rose(old, new)
<1>1. \A st \in States : Rank(st) \in Nat
  BY DEF States, Acks, Rank
<1>2. (mid = old \/ Rank(mid) > Rank(old)) /\ (new = mid \/ Rank(new) > Rank(mid))
  BY Rises
<1>3. Rank(old) \in Nat /\ Rank(mid) \in Nat /\ Rank(new) \in Nat
  BY <1>1
<1> HIDE DEF Rank
<1> QED
  BY <1>2, <1>3 DEF Rose

\* Records that a prune rejects and one caller then sets.
LEMMA RecordedRises ==
  ASSUME NEW old \in Files, NEW m \in Files, NEW D, NEW st \in States, NEW d \in Down,
         m.delivery[d] = old.delivery[d]
           \/ (Advanced(old.delivery[d], "rejected") /\ m.delivery[d] = "rejected")
  PROVE  Rose(old.delivery[d], Recorded(m, D, st).delivery[d])
<1>1. PICK x, y, z : /\ x = old.delivery[d] /\ y = m.delivery[d]
                     /\ z = Recorded(m, D, st).delivery[d]
  OBVIOUS
<1>2. x \in States /\ y \in States
  BY <1>1 DEF Files
<1>3. z = IF d \in D /\ Advanced(y, st) THEN st ELSE y
  BY <1>1, RecordedIs
<1>4. y = x \/ Advanced(x, y)
  BY <1>1
<1>5. z \in States /\ (z = y \/ Advanced(y, z))
  BY <1>2, <1>3
<1> QED
  BY <1>1, <1>2, <1>4, <1>5, RisesTwice

\* A start only rejects.
LEMMA PrunedRises ==
  ASSUME NEW m \in Files, NEW d \in Down
  PROVE  Rose(m.delivery[d], PrunedQueue(m).delivery[d])
<1>1. PICK x, y : x = m.delivery[d] /\ y = PrunedQueue(m).delivery[d]
  OBVIOUS
<1>2. x \in States /\ y \in States
  BY <1>1, PrunedQueueIs DEF Files
<1>3. y = x \/ Advanced(x, y)
  BY <1>1, PrunedQueueIs
<1> QED
  BY <1>1, <1>2, <1>3, RisesTwice

\* Every step but a crash raises each record or leaves it.
LEMMA AdvanceStep ==
  ASSUME TypeInv, Next, NEW d \in Down
  PROVE  \/ Rose(mem.delivery[d], mem'.delivery[d])
         \/ CarrierCrashes
         \/ staged["delivery"] = None /\ disk.delivery # mem.delivery
<1> USE DEF ward, broker, flushes, links, carrier
<1> DEFINE G == Rose(mem.delivery[d], mem'.delivery[d])
<1>0. mem \in Files
  BY DEF TypeInv, CarrierTypes
<1>1. mem' = mem => G
  BY DEF Rose
<1>2. ASSUME NEW m \in Files, NEW D, NEW st \in States, Staged(Recorded(m, D, st)),
             m.delivery[d] = mem.delivery[d]
               \/ (Advanced(mem.delivery[d], "rejected") /\ m.delivery[d] = "rejected")
      PROVE  G
  <2>1. mem' = Recorded(m, D, st)
    BY <1>2 DEF Staged
  <2>2. Rose(mem.delivery[d], Recorded(m, D, st).delivery[d])
    BY <1>0, <1>2, RecordedRises
  <2> QED
    BY <2>1, <2>2
<1> HIDE DEF G
<1>3. ASSUME WardStep PROVE G
  BY <1>1, <1>3, WardStepIs
<1>4. ASSUME NEW a \in Addrs, Connect(a) \/ CarrierCloses(a) \/ FlusherWrites(a) PROVE G
  BY <1>1, <1>4 DEF Connect, CarrierCloses, FlusherWrites
<1>5. ASSUME NEW lands \in BOOLEAN,
             \/ \E a \in Addrs : FlusherSaves(a, lands) \/ ReaderSaves(a, lands)
             \/ \E q \in orphans : OrphanSaves(q, lands)
             \/ ConsoleSaves(lands)
      PROVE  G
  BY <1>1, <1>5 DEF FlusherSaves, ReaderSaves, OrphanSaves, ConsoleSaves
<1>6. ASSUME NEW a \in Addrs, FlusherRound(a) PROVE G
  <2> DEFINE m == PrunedQueue(mem)
             fresh == Without(m.queue, gsent[a])
  <2>1. m \in Files /\ Staged(Recorded(m, ToSet(fresh), "sent")) /\ "sent" \in States
    BY <1>6, RoundIs DEF States
  <2>2. m.delivery[d] = mem.delivery[d]
          \/ (Advanced(mem.delivery[d], "rejected") /\ m.delivery[d] = "rejected")
    BY <1>0, PrunedQueueIs
  <2> HIDE DEF m
  <2> QED
    BY <1>2, <2>1, <2>2
<1>7. ASSUME NEW a \in Addrs, CarrierTakes(a) PROVE G
  <2> DEFINE u == Head(toCarrier[a])[2]
             m == [mem EXCEPT !.seen = @ \cup {u}, !.inbox = Newest(Append(@, u), InboxCap)]
  <2>1. mem' = m \/ mem' = mem
    BY <1>7, TakesIs DEF Staged
  <2>2. m.delivery = mem.delivery
    BY <1>0 DEF Files
  <2> QED
    BY <1>1, <2>1, <2>2 DEF G, Rose
<1>8. ASSUME NEW a \in Addrs, CarrierSeesOk(a) PROVE G
  <2> DEFINE e == Head(toCarrier[a])[2]
             m == [mem EXCEPT !.queue = Without(@, {e})]
             D == {e} \cap {w \in Down : mem.delivery[w] # "none"}
  <2>1. /\ (m \in Files /\ Staged(Recorded(m, D, "received"))) \/ mem' = mem
        /\ m.delivery = mem.delivery /\ "received" \in States
    BY <1>8, SeesOkIs, QueueShrinks DEF States
  <2> HIDE DEF m, D
  <2> QED
    BY <1>1, <1>2, <2>1
<1>9. ASSUME NEW a \in Addrs, CarrierSeesAck(a) PROVE G
  <2> DEFINE e == Head(toCarrier[a])[2]
             r == Head(toCarrier[a])[1]
  <2>1. Staged(Recorded(mem, {e}, r)) \/ mem' = mem
    BY <1>9, SeesAckIs
  <2>2. r \in States
    BY <1>9 DEF CarrierSeesAck, States
  <2> HIDE DEF e, r
  <2> QED
    BY <1>0, <1>1, <1>2, <2>1, <2>2
<1>10. ASSUME NEW w \in Down, NEW roomy \in BOOLEAN, Send(w, roomy) PROVE G
  <2>1. PICK queued, m, st : Sends(w, queued, m, st)
    BY <1>10, SendIs
  <2> QED
    BY <1>2, <2>1 DEF Sends
<1>11. ASSUME Consume PROVE G
  <2>1. mem' = [mem EXCEPT !.inbox = <<>>]
    BY <1>11 DEF Consume, Staged
  <2>2. mem'.delivery = mem.delivery
    BY <1>0, <2>1 DEF Files
  <2> QED
    BY <2>2 DEF G, Rose
<1>12. ASSUME CarrierRestarts PROVE G \/ (staged["delivery"] = None /\ disk.delivery # mem.delivery)
  <2>1. CarrierStarts(Restored) /\ Restored \in Files
    BY <1>12, RestoredIs DEF CarrierRestarts, Restored
  <2>2. mem' = PrunedQueue(Restored)
    BY <2>1 DEF CarrierStarts
  <2>3. Rose(Restored.delivery[d], mem'.delivery[d])
    <3> HIDE DEF Restored
    <3> QED
      BY <2>1, <2>2, PrunedRises
  <2>4. Restored.delivery = IF staged["delivery"] # None THEN mem["delivery"] ELSE disk["delivery"]
    BY RestoredIs DEF Stores
  <2> QED
    BY <2>3, <2>4 DEF G
<1> QED
  BY <1>3, <1>4, <1>5, <1>6, <1>7, <1>8, <1>9, <1>10, <1>11, <1>12
     DEF Next, WardStep, CarrierReads, G

\* A delivery record never moves back, but by a crash or a failed write that forgets it;
\* restarts of the link keep it (advanced_by, prune_queue, shutdown).
THEOREM RecordsAdvance == Spec => RecordsOnlyAdvance
<1>1. TypeInv /\ [Next]_vars =>
        [\A d \in Down :
           \/ Rank(mem'.delivery[d]) > Rank(mem.delivery[d])
           \/ mem'.delivery[d] = mem.delivery[d]
           \/ CarrierCrashes
           \/ staged["delivery"] = None /\ disk.delivery # mem.delivery]_vars
  <2>1. ASSUME TypeInv, Next
        PROVE  \A d \in Down :
                 \/ Rank(mem'.delivery[d]) > Rank(mem.delivery[d])
                 \/ mem'.delivery[d] = mem.delivery[d]
                 \/ CarrierCrashes
                 \/ staged["delivery"] = None /\ disk.delivery # mem.delivery
    BY <2>1, AdvanceStep DEF Rose
  <2> QED
    BY <2>1
<1> QED
  BY <1>1, TypesHold, PTL DEF Spec, RecordsOnlyAdvance
=============================================================================
