--------------------------- MODULE MessagesProofs ---------------------------
(***************************************************************************)
(* Theorems about what passes between a device and its guardian, for any   *)
(* heartbeat, steps of the clocks, readings, presses, pairings, relay      *)
(* changes and faults: of the STATUS feed, of the host on Android, and of  *)
(* the report of an emergency unlock, in this order, as they rest on one   *)
(* another's lemmas nowhere.                                               *)
(*                                                                         *)
(* The feed.  A device does not fall silent, the guardian is shown the     *)
(* newest reading there is, and is told of a step of the clock when there  *)
(* was one and only then.  The argument is about the readings that still   *)
(* exist somewhere: on a relay, in flight, in the throttle, in the app.    *)
(* They are numbered in the order of their emission; the ts follows the    *)
(* number while the clock has never been moved back, and the seq does      *)
(* unless a device whose clock was moved back also lost its counter's      *)
(* file.  What the app keeps of two readings is then the one with the      *)
(* higher number, by whichever of its four rules it decides.               *)
(***************************************************************************)
EXTENDS Messages, FoldProofs

\* The readings that exist, and the one the app shows, which is one of them but for its note.
Kept == onRelays \cup ({flight, last} \ {None})
Known == Kept \cup ({cur} \ {None})

TypeOK ==
  /\ platform \in {"linux", "android"}
  /\ real \in Nat /\ wall \in Nat
  /\ locked \in BOOLEAN /\ sequenced \in BOOLEAN
  /\ mem \in Nat /\ stored \in Nat \cup {None}
  /\ last \in Readings \cup {None} /\ flight \in Readings \cup {None}
  /\ carried \in Nat \cup {None}
  /\ count \in Nat
  /\ onRelays \subseteq Readings
  /\ cur \in Readings \cup {None}
  /\ mishaps \in Nat
  /\ slipped \in BOOLEAN /\ movedBack \in BOOLEAN
  /\ silent \in Nat /\ lag \in Nat

\* A number is one reading's.
Numbered ==
  /\ \A r \in Known : r.n <= count
  /\ \A r, s \in Known : r.n = s.n => r.ts = s.ts /\ r.seq = s.seq

\* No reading of before an upgrade comes after one with a seq.
Upgraded ==
  /\ ~sequenced => \A r \in Known : r.seq = None
  /\ \A r, s \in Known : r.seq # None /\ s.seq = None => s.n < r.n

\* The ts follows the number of a clock that was never moved back.
TsFollows ==
  ~movedBack =>
    /\ \A r \in Known : r.ts < wall
    /\ \A r, s \in Known : r.n < s.n => r.ts < s.ts

\* The next seq is above all that were given: the file holds the last, or the clock has
\* outrun the counter.
SeqAhead ==
  /\ stored # None => stored <= mem
  /\ ~movedBack => mem <= Scale * wall
  /\ ~slipped => \A r \in Known : r.seq # None => stored # None /\ r.seq <= stored
  /\ ~Broken => \A r \in Known : r.seq # None => r.seq <= mem

SeqFollows ==
  ~Broken => \A r, s \in Known : r.seq # None /\ s.seq # None /\ r.n < s.n => r.seq < s.seq

\* There is no note of a step that did not happen.
NoFalseNote ==
  ~movedBack =>
    /\ carried = None
    /\ \A r \in Known : r.stepped = None /\ r.flagAt = None

\* What the app shows is the newest of what it has taken in.
Ordered == ~Broken /\ (~movedBack \/ \A s \in onRelays : s.seq # None)

ShownIsNewest ==
  /\ cur # None => \E s \in onRelays : s.n = cur.n
  /\ cur = None => got = {}
  /\ \A i \in got : \E s \in onRelays : s.n = i
  /\ Ordered => \A s \in onRelays : s.n \in got => s.n <= cur.n

\* While the throttle sees the clock ahead of the last reading, the silence is no longer
\* than that, but for what the clock took back.
SilenceIsSeen ==
  /\ flight # None => silent = 0
  /\ last = None => silent = 0
  /\ last # None /\ wall >= last.ts => silent <= wall - last.ts + lag

IInv ==
  /\ TypeOK /\ Numbered /\ Upgraded /\ TsFollows /\ SeqAhead /\ SeqFollows
  /\ NoFalseNote /\ ShownIsNewest /\ SilenceIsSeen /\ NeverSilent

-----------------------------------------------------------------------------
(* What the operators give. *)

USE NoneAssumption

LEMMA MaxOfTwo ==
  ASSUME NEW x \in Int, NEW y \in Int
  PROVE  Max({x, y}) = IF x >= y THEN x ELSE y
<1>1. \A m \in {x, y} : (\A z \in {x, y} : m >= z) <=> m = (IF x >= y THEN x ELSE y)
  OBVIOUS
<1>2. (IF x >= y THEN x ELSE y) \in {x, y}
  OBVIOUS
<1> QED
  BY <1>1, <1>2 DEF Max

LEMMA HighestIs ==
  ASSUME NEW x \in Nat \cup {None}, NEW y \in Nat \cup {None}
  PROVE  /\ Highest(x, y) \in Nat \cup {None}
         /\ Highest(x, y) = None <=> x = None /\ y = None
         /\ x # None => Highest(x, y) >= x
         /\ y # None => Highest(x, y) >= y
         /\ Highest(x, y) \in {x, y}
<1>1. CASE x = None \/ y = None
  BY <1>1 DEF Highest
<1>2. CASE x # None /\ y # None
  BY <1>2, MaxOfTwo DEF Highest
<1> QED
  BY <1>1, <1>2

LEMMA ScaleIsMonotone ==
  ASSUME NEW x \in Nat, NEW y \in Nat, x <= y
  PROVE  Scale * x \in Nat /\ Scale * y \in Nat /\ Scale * x <= Scale * y
<1>1. Scale \in Nat
  BY TimesAssumption
<1>2. PICK k \in Nat : y = x + k
  <2>1. y = x + (y - x) /\ y - x \in Nat
    OBVIOUS
  <2> QED
    BY <2>1
<1>3. Scale * y = Scale * x + Scale * k
  BY <1>1, <1>2
<1>4. Scale * x \in Nat /\ Scale * k \in Nat /\ Scale * y \in Nat
  BY <1>1, <1>2
<1> QED
  BY <1>3, <1>4

LEMMA ReadingIs ==
  ASSUME TypeOK
  PROVE  /\ Reading \in Readings
         /\ Reading.n = count + 1 /\ Reading.ts = wall /\ Reading.flagAt = None
         /\ Reading.seq = (IF sequenced THEN mem + 1 ELSE None)
         /\ Reading.stepped = SteppedBackFrom
<1>1. (IF last # None /\ wall < last.ts THEN last.ts ELSE None) \in Nat \cup {None}
  BY DEF TypeOK, Readings
<1>2. SteppedBackFrom \in Nat \cup {None}
  BY <1>1, HighestIs DEF SteppedBackFrom, TypeOK
<1> QED
  BY <1>2 DEF Reading, Readings, TypeOK

\* The app's rules keep one of the two readings, with a note or without.
LEMMA AdmitIs ==
  ASSUME TypeOK, cur # None, NEW s \in Readings
  PROVE  /\ Admit(s) \in Readings
         /\ Admit(s).n = s.n /\ Admit(s).ts = s.ts /\ Admit(s).seq = s.seq
BY DEF Admit, CarryOrClear, TypeOK, Readings

LEMMA MergedIs ==
  ASSUME TypeOK, NEW s \in Readings
  PROVE  /\ Merged(s) \in Readings
         /\ \/ Merged(s) = cur /\ cur # None
            \/ Merged(s).n = s.n /\ Merged(s).ts = s.ts /\ Merged(s).seq = s.seq
<1>1. CASE cur = None
  BY <1>1 DEF Merged
<1>2. CASE cur # None
  <2>1. cur \in Readings
    BY <1>2 DEF TypeOK
  <2>2. /\ CarryOrClear(s) \in Readings
        /\ CarryOrClear(s).n = s.n /\ CarryOrClear(s).ts = s.ts /\ CarryOrClear(s).seq = s.seq
    BY <2>1 DEF CarryOrClear, TypeOK, Readings
  <2>3. \/ AdmitByTs(s) = cur
        \/ /\ AdmitByTs(s) \in Readings
           /\ AdmitByTs(s).n = s.n /\ AdmitByTs(s).ts = s.ts /\ AdmitByTs(s).seq = s.seq
    BY <2>1, <2>2 DEF AdmitByTs, TypeOK, Readings
  <2> QED
    BY <1>2, <2>1, <2>3, AdmitIs DEF Merged, AdmitOnUpgrade
<1> QED
  BY <1>1, <1>2

-----------------------------------------------------------------------------
(* The steps that touch no reading but the app's, and those that do. *)

LEMMA InitHolds == Init => IInv
<1> SUFFICES ASSUME Init PROVE IInv
  OBVIOUS
<1>1. Known = {}
  BY DEF Init, Known, Kept
<1>2. TypeOK
  BY TimesAssumption DEF Init, TypeOK
<1> QED
  BY <1>1, <1>2, TimesAssumption
  DEF Init, IInv, Numbered, Upgraded, TsFollows, SeqAhead, SeqFollows, NoFalseNote,
      ShownIsNewest, SilenceIsSeen, NeverSilent, TypeOK

LEMMA TypeStep == TypeOK /\ [Next]_vars => TypeOK'
<1> SUFFICES ASSUME TypeOK, [Next]_vars PROVE TypeOK'
  OBVIOUS
<1> USE DEF TypeOK, guardianVars, wardVars
<1>1. ASSUME NEW lands \in BOOLEAN, Emit(lands) PROVE TypeOK'
  <2>1. mem' \in Nat /\ stored' \in Nat \cup {None} /\ mishaps' \in Nat /\ slipped' \in BOOLEAN
    <3>1. CASE sequenced /\ lands
      BY <1>1, <3>1 DEF Emit, TakeSeq
    <3>2. CASE sequenced /\ ~lands
      BY <1>1, <3>2 DEF Emit, TakeSeq, Mishap
    <3>3. CASE ~sequenced
      BY <1>1, <3>3 DEF Emit, TakeSeq
    <3> QED
      BY <3>1, <3>2, <3>3
  <2> QED
    BY <1>1, <2>1, ReadingIs DEF Emit
<1>2. ASSUME NEW held \in BOOLEAN, NEW accepted \in BOOLEAN, Landed(held, accepted)
      PROVE TypeOK'
  <2>1. carried' \in Nat \cup {None}
    BY <1>2 DEF Landed, Readings
  <2> QED
    BY <1>2, <2>1 DEF Landed
<1>3. ASSUME Pass PROVE TypeOK'
  BY <1>3 DEF Pass
<1>4. ASSUME Change PROVE TypeOK'
  BY <1>4 DEF Change
<1>5. ASSUME NEW d \in Moves, MoveClock(d) PROVE TypeOK'
  <2>1. d \in Int
    BY MovesAssumption
  <2>2. lag' \in Nat
    BY <1>5, <2>1 DEF MoveClock, Readings
  <2> QED
    BY <1>5, <2>1, <2>2 DEF MoveClock, Mishap
<1>6. ASSUME LoseFile PROVE TypeOK'
  BY <1>6 DEF LoseFile, Mishap
<1>7. ASSUME NEW upgraded \in BOOLEAN, NEW held \in BOOLEAN, Restart(upgraded, held)
      PROVE TypeOK'
  <2>1. Scale * (wall + 1) \in Nat
    BY TimesAssumption
  <2>2. mem' \in Nat
    BY <1>7, <2>1, HighestIs DEF Restart, Resume
  <2> QED
    BY <1>7, <2>2 DEF Restart, Mishap
<1>8. ASSUME NEW s \in onRelays, Ingest(s) PROVE TypeOK'
  BY <1>8, MergedIs DEF Ingest
<1>9. ASSUME Reload PROVE TypeOK'
  BY <1>9 DEF Reload
<1>10. CASE UNCHANGED vars
  BY <1>10 DEF vars
<1> QED
  BY <1>1, <1>2, <1>3, <1>4, <1>5, <1>6, <1>7, <1>8, <1>9, <1>10 DEF Next

\* But for an emission, a step makes no reading: what is known after it was known before,
\* or is a known one with another note.
LEMMA NothingNew ==
  ASSUME TypeOK, [Next]_vars, ~ \E lands \in BOOLEAN : Emit(lands)
  PROVE  /\ count' = count
         /\ Kept' \subseteq Kept
         /\ \A r \in Known' : \E q \in Known : r.n = q.n /\ r.ts = q.ts /\ r.seq = q.seq
<1> USE DEF guardianVars, wardVars, Known, Kept
<1>1. ASSUME count' = count, Kept' \subseteq Kept, cur' = cur \/ cur' = None
      PROVE  \A r \in Known' : \E q \in Known : r.n = q.n /\ r.ts = q.ts /\ r.seq = q.seq
  BY <1>1
<1>2. ASSUME NEW held \in BOOLEAN, NEW accepted \in BOOLEAN, Landed(held, accepted)
      PROVE  count' = count /\ Kept' \subseteq Kept /\ cur' = cur
  BY <1>2 DEF Landed
<1>3. ASSUME Pass \/ Change \/ LoseFile \/ (\E d \in Moves : MoveClock(d)) \/ UNCHANGED vars
      PROVE  count' = count /\ Kept' \subseteq Kept /\ cur' = cur
  BY <1>3 DEF Pass, Change, LoseFile, MoveClock, vars
<1>4. ASSUME NEW upgraded \in BOOLEAN, NEW held \in BOOLEAN, Restart(upgraded, held)
      PROVE  count' = count /\ Kept' \subseteq Kept /\ cur' = cur
  BY <1>4 DEF Restart
<1>5. ASSUME Reload PROVE count' = count /\ Kept' \subseteq Kept /\ cur' = None
  BY <1>5 DEF Reload
<1>6. ASSUME NEW s \in onRelays, Ingest(s)
      PROVE  /\ count' = count /\ Kept' \subseteq Kept
             /\ \A r \in Known' : \E q \in Known : r.n = q.n /\ r.ts = q.ts /\ r.seq = q.seq
  <2>1. count' = count /\ Kept' = Kept /\ cur' = Merged(s)
    BY <1>6 DEF Ingest
  <2>2. s \in Readings /\ s \in Known
    BY DEF TypeOK
  <2>3. \E q \in Known : cur'.n = q.n /\ cur'.ts = q.ts /\ cur'.seq = q.seq
    BY <2>1, <2>2, MergedIs
  <2>4. Known' \subseteq Kept \cup {cur'} /\ Kept \subseteq Known
    BY <2>1
  <2> QED
    BY <2>1, <2>3, <2>4
<1> QED
  BY <1>1, <1>2, <1>3, <1>4, <1>5, <1>6 DEF Next

\* An emission makes one, with the next number.
LEMMA OneNew ==
  ASSUME TypeOK, NEW lands \in BOOLEAN, Emit(lands)
  PROVE  /\ count' = count + 1
         /\ Known' \subseteq Known \cup {Reading}
         /\ onRelays' = onRelays /\ cur' = cur /\ got' = got
  BY DEF Emit, guardianVars, Known, Kept

\* What has once gone wrong stays so, and a build that stamps seq is not replaced by one
\* that does not.
LEMMA Lasting ==
  ASSUME TypeOK, [Next]_vars
  PROVE  (slipped => slipped') /\ (movedBack => movedBack') /\ (sequenced => sequenced')
<1> USE DEF guardianVars, wardVars
<1>1. ASSUME NEW lands \in BOOLEAN, Emit(lands)
      PROVE  (slipped => slipped') /\ movedBack' = movedBack /\ sequenced' = sequenced
  BY <1>1 DEF Emit, TakeSeq
<1>2. ASSUME NEW d \in Moves, MoveClock(d)
      PROVE  slipped' = slipped /\ (movedBack => movedBack') /\ sequenced' = sequenced
  BY <1>2 DEF MoveClock
<1>3. ASSUME NEW upgraded \in BOOLEAN, NEW held \in BOOLEAN, Restart(upgraded, held)
      PROVE  slipped' = slipped /\ movedBack' = movedBack /\ (sequenced => sequenced')
  BY <1>3 DEF Restart
<1>4. ASSUME LoseFile
      PROVE  slipped' /\ movedBack' = movedBack /\ sequenced' = sequenced
  BY <1>4 DEF LoseFile
<1>5. ASSUME Pass \/ Change \/ Reload \/ (\E s \in onRelays : Ingest(s)) \/ UNCHANGED vars
      PROVE  slipped' = slipped /\ movedBack' = movedBack /\ sequenced' = sequenced
  BY <1>5 DEF Pass, Change, Reload, Ingest, vars
<1>6. ASSUME NEW held \in BOOLEAN, NEW accepted \in BOOLEAN, Landed(held, accepted)
      PROVE  slipped' = slipped /\ movedBack' = movedBack /\ sequenced' = sequenced
  BY <1>6 DEF Landed
<1> QED
  BY <1>1, <1>2, <1>3, <1>4, <1>5, <1>6 DEF Next

\* A clock that is not moved back does not go back.
LEMMA ClockGoesOn ==
  ASSUME TypeOK, [Next]_vars, ~movedBack'
  PROVE  wall <= wall'
<1> USE DEF guardianVars, wardVars, TypeOK
<1>1. ASSUME NEW lands \in BOOLEAN, Emit(lands) PROVE wall <= wall'
  BY <1>1 DEF Emit
<1>2. ASSUME NEW d \in Moves, MoveClock(d) PROVE wall <= wall'
  <2>1. d \in Int /\ ~(d < 0)
    BY <1>2, MovesAssumption DEF MoveClock
  <2> QED
    BY <1>2, <2>1 DEF MoveClock
<1>3. ASSUME NEW upgraded \in BOOLEAN, NEW held \in BOOLEAN, Restart(upgraded, held)
      PROVE  wall <= wall'
  BY <1>3 DEF Restart
<1>4. ASSUME NEW held \in BOOLEAN, NEW accepted \in BOOLEAN, Landed(held, accepted)
      PROVE  wall <= wall'
  BY <1>4 DEF Landed
<1>5. ASSUME Pass \/ Change \/ LoseFile \/ Reload \/ (\E s \in onRelays : Ingest(s)) \/ UNCHANGED vars
      PROVE  wall <= wall'
  BY <1>5 DEF Pass, Change, LoseFile, Reload, Ingest, vars
<1> QED
  BY <1>1, <1>2, <1>3, <1>4, <1>5 DEF Next

LEMMA KnownAreReadings == TypeOK => Known \subseteq Readings
BY DEF TypeOK, Known, Kept

LEMMA NumberedStep == TypeOK /\ Numbered /\ [Next]_vars => Numbered'
<1> SUFFICES ASSUME TypeOK, Numbered, [Next]_vars PROVE Numbered'
  OBVIOUS
<1> Known \subseteq Readings
  BY KnownAreReadings
<1>1. CASE ~ \E lands \in BOOLEAN : Emit(lands)
  BY <1>1, NothingNew DEF Numbered
<1>2. ASSUME NEW lands \in BOOLEAN, Emit(lands) PROVE Numbered'
  <2>1. Reading.n = count + 1 /\ count \in Nat
    BY ReadingIs DEF TypeOK
  <2>2. \A r \in Known : r.n \in Nat /\ r.n <= count
    BY DEF Numbered, Readings
  <2> QED
    BY <1>2, <2>1, <2>2, OneNew DEF Numbered
<1> QED
  BY <1>1, <1>2

LEMMA UpgradedStep == TypeOK /\ Numbered /\ Upgraded /\ [Next]_vars => Upgraded'
<1> SUFFICES ASSUME TypeOK, Numbered, Upgraded, [Next]_vars PROVE Upgraded'
  OBVIOUS
<1> Known \subseteq Readings
  BY KnownAreReadings
<1>0. sequenced => sequenced'
  BY Lasting
<1>1. CASE ~ \E lands \in BOOLEAN : Emit(lands)
  BY <1>0, <1>1, NothingNew DEF Upgraded
<1>2. ASSUME NEW lands \in BOOLEAN, Emit(lands) PROVE Upgraded'
  <2>1. /\ Reading.n = count + 1 /\ count \in Nat
        /\ Reading.seq = IF sequenced THEN mem + 1 ELSE None
        /\ sequenced' = sequenced /\ mem \in Nat
    BY <1>2, ReadingIs DEF TypeOK, Emit
  <2>2. \A r \in Known : r.n \in Nat /\ r.n <= count
    BY DEF Numbered, Readings
  <2>3. Reading.seq = None <=> ~sequenced
    BY <2>1
  <2> QED
    BY <1>2, <2>1, <2>2, <2>3, OneNew DEF Upgraded
<1> QED
  BY <1>1, <1>2

LEMMA TsStep == TypeOK /\ Numbered /\ TsFollows /\ [Next]_vars => TsFollows'
<1> SUFFICES ASSUME TypeOK, Numbered, TsFollows, [Next]_vars, ~movedBack'
             PROVE  /\ \A r \in Known' : r.ts < wall'
                    /\ \A r, s \in Known' : r.n < s.n => r.ts < s.ts
  BY DEF TsFollows
<1>0. /\ \A r \in Known : r.ts < wall /\ r.ts \in Nat /\ r.n \in Nat /\ r.n <= count
      /\ \A r, s \in Known : r.n < s.n => r.ts < s.ts
      /\ wall \in Nat /\ count \in Nat
  BY Lasting, KnownAreReadings DEF TsFollows, Numbered, Readings, TypeOK
<1>1. CASE ~ \E lands \in BOOLEAN : Emit(lands)
  <2>1. wall <= wall' /\ wall' \in Nat
    BY ClockGoesOn, TypeStep DEF TypeOK
  <2> QED
    BY <1>0, <1>1, <2>1, NothingNew
<1>2. ASSUME NEW lands \in BOOLEAN, Emit(lands)
      PROVE  /\ \A r \in Known' : r.ts < wall'
             /\ \A r, s \in Known' : r.n < s.n => r.ts < s.ts
  <2>1. Reading.n = count + 1 /\ Reading.ts = wall /\ wall' = wall + 1
    BY <1>2, ReadingIs DEF Emit
  <2> QED
    BY <1>0, <1>2, <2>1, OneNew
<1> QED
  BY <1>1, <1>2

LEMMA SeqAheadStep == TypeOK /\ SeqAhead /\ [Next]_vars => SeqAhead'
<1> SUFFICES ASSUME TypeOK, SeqAhead, [Next]_vars PROVE SeqAhead'
  OBVIOUS
<1>0. /\ \A r \in Known : r.seq \in Nat \cup {None}
      /\ wall \in Nat /\ mem \in Nat /\ stored \in Nat \cup {None} /\ Scale \in Nat \ {0}
      /\ wall' \in Nat /\ mem' \in Nat /\ stored' \in Nat \cup {None}
  BY KnownAreReadings, TypeStep, TimesAssumption DEF Readings, TypeOK
<1>1. ASSUME ~movedBack'
      PROVE  Scale * wall \in Nat /\ Scale * wall' \in Nat /\ Scale * wall <= Scale * wall'
  BY <1>0, <1>1, ClockGoesOn, ScaleIsMonotone
<1>2. (slipped => slipped') /\ (movedBack => movedBack')
  BY Lasting
<1>3. ASSUME NEW lands \in BOOLEAN, Emit(lands) PROVE SeqAhead'
  <2>1. /\ Reading.seq = (IF sequenced THEN mem + 1 ELSE None)
        /\ Known' \subseteq Known \cup {Reading}
        /\ movedBack' = movedBack /\ wall' = wall + 1
    BY <1>3, ReadingIs, OneNew DEF Emit
  <2>2. Scale * (wall + 1) >= Scale * wall + 1
    BY <1>0
  <2>3. CASE sequenced
    <3>1. /\ mem' = mem + 1
          /\ \/ stored' = mem + 1 /\ slipped' = slipped
             \/ stored' = stored /\ slipped'
      BY <1>3, <2>3 DEF Emit, TakeSeq
    <3> QED
      BY <1>0, <1>2, <2>1, <2>2, <2>3, <3>1 DEF SeqAhead, Broken
  <2>4. CASE ~sequenced
    <3>1. mem' = mem /\ stored' = stored /\ slipped' = slipped
      BY <1>3, <2>4 DEF Emit, TakeSeq
    <3> QED
      BY <1>0, <1>2, <2>1, <2>2, <2>4, <3>1 DEF SeqAhead, Broken
  <2> QED
    BY <2>3, <2>4
<1>4. ASSUME NEW upgraded \in BOOLEAN, NEW held \in BOOLEAN, Restart(upgraded, held)
      PROVE  SeqAhead'
  <2>1. /\ wall' = wall + 1 /\ stored' = stored /\ slipped' = slipped /\ movedBack' = movedBack
        /\ mem' = Highest(stored, Scale * (wall + 1))
    BY <1>4 DEF Restart, Resume
  <2>2. Scale * (wall + 1) \in Nat /\ Scale * wall <= Scale * (wall + 1)
    BY <1>0
  <2>3. /\ mem' >= Scale * (wall + 1)
        /\ stored # None => mem' >= stored
        /\ mem' \in {stored, Scale * (wall + 1)}
    BY <1>0, <2>1, <2>2, HighestIs
  <2>4. \A r \in Known' : \E q \in Known : r.seq = q.seq
    <3>1. ~ \E lands \in BOOLEAN : Emit(lands)
      BY <1>4 DEF Restart, Emit, TypeOK
    <3> QED
      BY <3>1, NothingNew
  <2>5. ~movedBack => mem' = Scale * (wall + 1)
    BY <1>0, <2>2, <2>3 DEF SeqAhead
  <2> QED
    BY <1>0, <2>1, <2>2, <2>3, <2>4, <2>5 DEF SeqAhead, Broken
<1>5. ASSUME LoseFile PROVE SeqAhead'
  <2>1. stored' = None /\ slipped' /\ movedBack' = movedBack /\ mem' = mem /\ wall' = wall
    BY <1>5 DEF LoseFile
  <2>2. Known' = Known
    BY <1>5 DEF LoseFile, Known, Kept, guardianVars
  <2> QED
    BY <1>0, <1>2, <2>1, <2>2 DEF SeqAhead, Broken
<1>6. ASSUME mem' = mem, stored' = stored, slipped' = slipped,
             ~ \E lands \in BOOLEAN : Emit(lands)
      PROVE  SeqAhead'
  <2>1. \A r \in Known' : \E q \in Known : r.seq = q.seq
    BY <1>6, NothingNew
  <2>2. stored' # None => stored' <= mem'
    BY <1>6 DEF SeqAhead
  <2>3. ASSUME ~movedBack' PROVE mem' <= Scale * wall'
    <3>1. mem <= Scale * wall
      BY <1>2, <2>3 DEF SeqAhead
    <3>2. ASSUME NEW x \in Nat, NEW y \in Nat, NEW z \in Nat, x <= y, y <= z PROVE x <= z
      BY <3>2
    <3>3. mem <= Scale * wall'
      BY <1>0, <1>1, <2>3, <3>1, <3>2
    <3> QED
      BY <1>6, <3>3
  <2>4. ASSUME ~slipped', NEW r \in Known', r.seq # None
        PROVE  stored' # None /\ r.seq <= stored'
    BY <1>6, <2>1, <2>4 DEF SeqAhead
  <2>5. ASSUME ~Broken', NEW r \in Known', r.seq # None PROVE r.seq <= mem'
    <3>1. ~Broken
      BY <1>2, <2>5 DEF Broken
    <3> QED
      BY <1>6, <2>1, <2>5, <3>1 DEF SeqAhead
  <2> QED
    BY <2>2, <2>3, <2>4, <2>5 DEF SeqAhead
<1>7. CASE ~ \E lands \in BOOLEAN : Emit(lands)
  <2>1. ASSUME NEW held \in BOOLEAN, NEW accepted \in BOOLEAN, Landed(held, accepted)
        PROVE  mem' = mem /\ stored' = stored /\ slipped' = slipped
    BY <2>1 DEF Landed
  <2>2. ASSUME Pass \/ Change \/ (\E d \in Moves : MoveClock(d)) \/ Reload
                 \/ (\E s \in onRelays : Ingest(s)) \/ UNCHANGED vars
        PROVE  mem' = mem /\ stored' = stored /\ slipped' = slipped
    BY <2>2 DEF Pass, Change, MoveClock, Reload, Ingest, vars, wardVars
  <2> QED
    BY <1>4, <1>5, <1>6, <1>7, <2>1, <2>2 DEF Next
<1> QED
  BY <1>3, <1>7

LEMMA SeqStep == TypeOK /\ Numbered /\ SeqAhead /\ SeqFollows /\ [Next]_vars => SeqFollows'
<1> SUFFICES ASSUME TypeOK, Numbered, SeqAhead, SeqFollows, [Next]_vars, ~Broken'
             PROVE  \A r, s \in Known' :
                      r.seq # None /\ s.seq # None /\ r.n < s.n => r.seq < s.seq
  BY DEF SeqFollows
<1>0. ~Broken
  BY Lasting DEF Broken
<1>1. /\ \A r \in Known : r.seq \in Nat \cup {None} /\ (r.seq # None => r.seq <= mem)
      /\ \A r \in Known : r.n \in Nat /\ r.n <= count
      /\ \A r, s \in Known : r.seq # None /\ s.seq # None /\ r.n < s.n => r.seq < s.seq
      /\ mem \in Nat /\ count \in Nat
  BY <1>0, KnownAreReadings DEF SeqAhead, SeqFollows, Numbered, Readings, TypeOK
<1>2. CASE ~ \E lands \in BOOLEAN : Emit(lands)
  BY <1>1, <1>2, NothingNew
<1>3. ASSUME NEW lands \in BOOLEAN, Emit(lands)
      PROVE  \A r, s \in Known' :
               r.seq # None /\ s.seq # None /\ r.n < s.n => r.seq < s.seq
  <2>1. Reading.n = count + 1 /\ Reading.seq \in {mem + 1, None}
    BY ReadingIs
  <2> QED
    BY <1>1, <1>3, <2>1, OneNew
<1> QED
  BY <1>2, <1>3

-----------------------------------------------------------------------------
(* What the app's rules decide. *)

\* Of a clock never moved back a device says nothing but the time.
LEMMA NothingToNote ==
  ASSUME TypeOK, TsFollows, NoFalseNote, ~movedBack
  PROVE  SteppedBackFrom = None
<1>1. carried = None
  BY DEF NoFalseNote
<1>2. ~(last # None /\ wall < last.ts)
  BY DEF TsFollows, Known, Kept, TypeOK, Readings
<1> QED
  BY <1>1, <1>2 DEF SteppedBackFrom, Highest

\* By a seq on both, the one with the higher number is kept.
LEMMA BySeq ==
  ASSUME TypeOK, Numbered, SeqFollows, ~Broken, NEW s \in onRelays, cur # None,
         s.seq # None, cur.seq # None
  PROVE  IF s.seq <= cur.seq THEN s.n <= cur.n ELSE cur.n < s.n
<1>1. s \in Known /\ cur \in Known /\ s \in Readings /\ cur \in Readings
  BY DEF Known, Kept, TypeOK
<1>2. s.seq \in Nat /\ cur.seq \in Nat /\ s.n \in Nat /\ cur.n \in Nat
  BY <1>1 DEF Readings
<1>3. /\ s.n = cur.n => s.seq = cur.seq
      /\ s.n < cur.n => s.seq < cur.seq
      /\ cur.n < s.n => cur.seq < s.seq
  BY <1>1 DEF Numbered, SeqFollows
<1> QED
  BY <1>2, <1>3

\* By the ts on both, of a clock never moved back, as well.
LEMMA ByTs ==
  ASSUME TypeOK, Numbered, TsFollows, ~movedBack, NEW s \in onRelays, cur # None
  PROVE  IF s.ts <= cur.ts THEN s.n <= cur.n ELSE cur.n < s.n
<1>1. s \in Known /\ cur \in Known /\ s \in Readings /\ cur \in Readings
  BY DEF Known, Kept, TypeOK
<1>2. s.ts \in Nat /\ cur.ts \in Nat /\ s.n \in Nat /\ cur.n \in Nat
  BY <1>1 DEF Readings
<1>3. /\ s.n = cur.n => s.ts = cur.ts
      /\ s.n < cur.n => s.ts < cur.ts
      /\ cur.n < s.n => cur.ts < s.ts
  BY <1>1 DEF Numbered, TsFollows
<1> QED
  BY <1>2, <1>3

\* A seq on one alone tells it from a reading of before the upgrade.
LEMMA ByUpgrade ==
  ASSUME Upgraded, NEW s \in onRelays, cur # None
  PROVE  /\ s.seq # None /\ cur.seq = None => cur.n < s.n
         /\ s.seq = None /\ cur.seq # None => s.n < cur.n
BY DEF Upgraded, Known, Kept

LEMMA MergedCases ==
  ASSUME TypeOK, NEW s \in onRelays, cur # None
  PROVE  /\ s.seq # None /\ cur.seq # None =>
              Merged(s) = IF s.seq <= cur.seq THEN cur ELSE Admit(s)
         /\ s.seq # None /\ cur.seq = None => Merged(s) = AdmitOnUpgrade(s)
         /\ s.seq = None /\ cur.seq # None => Merged(s) = cur
         /\ s.seq = None /\ cur.seq = None => Merged(s) = AdmitByTs(s)
BY DEF Merged

\* A clock never moved back gets no note.
LEMMA MergedWithoutSteps ==
  ASSUME TypeOK, Numbered, Upgraded, TsFollows, SeqFollows, NoFalseNote, ~movedBack,
         NEW s \in onRelays
  PROVE  Merged(s) \in {cur, s} \ {None}
<1>1. s \in Readings /\ s \in Known /\ s # None
  BY DEF TypeOK, Known, Kept, Readings
<1>2. s.stepped = None
  BY <1>1 DEF NoFalseNote
<1>3. CASE cur = None
  BY <1>1, <1>3 DEF Merged
<1>4. CASE cur # None
  <2>1. cur \in Known /\ cur \in Readings
    BY <1>4 DEF Known, TypeOK
  <2>2. CarryOrClear(s) = s
    BY <2>1 DEF CarryOrClear, NoFalseNote
  <2>3. s.ts \in Nat /\ cur.ts \in Nat /\ s.n \in Nat /\ cur.n \in Nat
    BY <1>1, <2>1 DEF Readings
  <2>4. cur.n < s.n => Admit(s) = s
    BY <1>2, <1>4, <2>2, <2>3, ByTs DEF Admit
  <2>5. AdmitByTs(s) \in {cur, s}
    BY <1>2, <2>2 DEF AdmitByTs, Vouched
  <2>6. ~Broken
    BY DEF Broken
  <2>7. CASE s.seq # None /\ cur.seq # None
    BY <1>1, <1>4, <2>4, <2>6, <2>7, BySeq, MergedCases
  <2>8. CASE s.seq # None /\ cur.seq = None
    BY <1>1, <1>4, <2>4, <2>8, ByUpgrade, MergedCases DEF AdmitOnUpgrade
  <2>9. CASE s.seq = None
    BY <1>1, <1>4, <2>5, <2>9, MergedCases
  <2> QED
    BY <2>7, <2>8, <2>9
<1> QED
  BY <1>3, <1>4

\* Of two readings that can be told in order the newer is kept.
LEMMA NewerIsKept ==
  ASSUME TypeOK, Numbered, Upgraded, TsFollows, SeqFollows, NoFalseNote, ShownIsNewest,
         NEW s \in onRelays, cur # None, Ordered
  PROVE  Merged(s).n >= s.n /\ Merged(s).n >= cur.n
<1>1. /\ s \in Readings /\ s \in Known /\ cur \in Readings /\ cur \in Known
      /\ s.n \in Nat /\ cur.n \in Nat /\ s.ts \in Nat /\ cur.ts \in Nat
  BY DEF TypeOK, Known, Kept, Readings
<1>2. Admit(s).n = s.n
  BY <1>1, AdmitIs
<1>3. CASE s.seq # None /\ cur.seq # None
  <2>1. IF s.seq <= cur.seq THEN s.n <= cur.n ELSE cur.n < s.n
    BY <1>3, BySeq DEF Ordered
  <2>2. Merged(s) = IF s.seq <= cur.seq THEN cur ELSE Admit(s)
    BY <1>3, MergedCases
  <2> QED
    BY <1>1, <1>2, <2>1, <2>2
<1>4. CASE s.seq = None /\ cur.seq # None
  BY <1>1, <1>4, ByUpgrade, MergedCases
<1>5. CASE cur.seq = None
  <2>1. ~movedBack
    <3>1. PICK q \in onRelays : q.n = cur.n
      BY DEF ShownIsNewest
    <3>2. q.seq = None
      BY <1>1, <1>5, <3>1 DEF Numbered, Known, Kept
    <3> QED
      BY <3>2 DEF Ordered
  <2>2. IF s.ts <= cur.ts THEN s.n <= cur.n ELSE cur.n < s.n
    BY <2>1, ByTs
  <2>3. CarryOrClear(s) = s /\ s.stepped = None
    BY <1>1, <2>1 DEF CarryOrClear, NoFalseNote
  <2>4. CASE s.seq # None
    <3>1. cur.n < s.n
      BY <1>5, <2>4, ByUpgrade
    <3>2. s.ts >= cur.ts - Tolerance
      BY <1>1, <2>2, <3>1, TimesAssumption
    <3> QED
      BY <1>1, <1>2, <1>5, <2>4, <3>1, <3>2, MergedCases DEF AdmitOnUpgrade
  <2>5. CASE s.seq = None
    BY <1>1, <1>5, <2>2, <2>3, <2>5, MergedCases DEF AdmitByTs, Vouched
  <2> QED
    BY <2>4, <2>5
<1> QED
  BY <1>3, <1>4, <1>5

\* A reading is replaced by one of an earlier ts only with a note.
LEMMA EarlierIsNoted ==
  ASSUME TypeOK, NEW s \in onRelays, cur # None, Merged(s).ts < cur.ts
  PROVE  Merged(s).flagAt # None
<1>1. /\ s \in Readings /\ cur \in Readings
      /\ s.ts \in Nat /\ cur.ts \in Nat /\ real \in Nat
  BY DEF TypeOK, Readings
<1>2. CarryOrClear(s).ts = s.ts
  BY <1>1 DEF CarryOrClear, Readings
<1>3. Admit(s).ts < cur.ts => Admit(s).flagAt # None
  BY <1>1, <1>2 DEF Admit, Readings
<1>4. AdmitByTs(s).ts < cur.ts => AdmitByTs(s).flagAt # None
  BY <1>1, <1>2 DEF AdmitByTs, Readings
<1>5. Merged(s) \in {cur, Admit(s), AdmitByTs(s)}
  BY MergedCases DEF AdmitOnUpgrade
<1> QED
  BY <1>1, <1>3, <1>4, <1>5

-----------------------------------------------------------------------------
(* The last three parts of the invariant. *)

LEMMA NoFalseNoteStep ==
  /\ TypeOK /\ Numbered /\ Upgraded /\ TsFollows /\ SeqFollows /\ NoFalseNote
  /\ [Next]_vars
  => NoFalseNote'
<1> SUFFICES ASSUME TypeOK, Numbered, Upgraded, TsFollows, SeqFollows, NoFalseNote,
                    [Next]_vars, ~movedBack'
             PROVE  /\ carried' = None
                    /\ \A r \in Known' : r.stepped = None /\ r.flagAt = None
  BY DEF NoFalseNote
<1> USE DEF guardianVars, wardVars
<1>0. /\ ~movedBack /\ carried = None
      /\ \A r \in Known : r.stepped = None /\ r.flagAt = None
  BY Lasting DEF NoFalseNote
<1>1. ASSUME NEW lands \in BOOLEAN, Emit(lands)
      PROVE  /\ carried' = None
             /\ \A r \in Known' : r.stepped = None /\ r.flagAt = None
  <2>1. Reading.stepped = None /\ Reading.flagAt = None /\ carried' = carried
    BY <1>0, <1>1, NothingToNote, ReadingIs DEF Emit
  <2> QED
    BY <1>0, <1>1, <2>1, OneNew
<1>2. ASSUME ~ \E lands \in BOOLEAN : Emit(lands)
      PROVE  /\ carried' = None
             /\ \A r \in Known' : r.stepped = None /\ r.flagAt = None
  <2>1. ASSUME NEW s \in onRelays, Ingest(s) PROVE carried' = carried /\ Known' \subseteq Known
    <3>1. cur' \in {cur, s} \ {None} /\ Kept' = Kept /\ carried' = carried
      BY <1>0, <2>1, MergedWithoutSteps DEF Ingest, Kept
    <3> QED
      BY <3>1 DEF Known, Kept
  <2>2. ASSUME NEW held \in BOOLEAN, NEW accepted \in BOOLEAN, Landed(held, accepted)
        PROVE  carried' = None /\ Known' \subseteq Known
    <3>1. flight # None /\ flight \in Known
      BY <2>2 DEF Landed, Known, Kept
    <3>2. carried' = None
      BY <1>0, <2>2, <3>1 DEF Landed
    <3> QED
      BY <2>2, <3>2 DEF Landed, Known, Kept
  <2>3. ASSUME Pass \/ Change \/ LoseFile \/ (\E d \in Moves : MoveClock(d)) \/ UNCHANGED vars
        PROVE  carried' = carried /\ Known' \subseteq Known
    BY <2>3 DEF Pass, Change, LoseFile, MoveClock, vars, Known, Kept
  <2>4. ASSUME NEW upgraded \in BOOLEAN, NEW held \in BOOLEAN, Restart(upgraded, held)
        PROVE  carried' = None /\ Known' \subseteq Known
    BY <2>4 DEF Restart, Known, Kept
  <2>5. ASSUME Reload PROVE carried' = carried /\ Known' \subseteq Known
    BY <2>5 DEF Reload, Known, Kept
  <2> QED
    BY <1>0, <1>2, <2>1, <2>2, <2>3, <2>4, <2>5 DEF Next
<1> QED
  BY <1>1, <1>2

LEMMA ShownStep ==
  /\ TypeOK /\ Numbered /\ Upgraded /\ TsFollows /\ SeqFollows /\ NoFalseNote /\ ShownIsNewest
  /\ [Next]_vars
  => ShownIsNewest'
<1> SUFFICES ASSUME TypeOK, Numbered, Upgraded, TsFollows, SeqFollows, NoFalseNote,
                    ShownIsNewest, [Next]_vars
             PROVE  ShownIsNewest'
  OBVIOUS
<1> USE DEF guardianVars, wardVars
<1>1. ASSUME onRelays \subseteq onRelays', Ordered' PROVE Ordered
  BY <1>1, Lasting DEF Ordered, Broken
<1>2. ASSUME NEW s \in onRelays, Ingest(s) PROVE ShownIsNewest'
  <2>1. cur' = Merged(s) /\ got' = got \cup {s.n} /\ onRelays' = onRelays
    BY <1>2 DEF Ingest
  <2>2. Merged(s) \in Readings /\ s \in Readings /\ cur' # None
    BY <2>1, MergedIs DEF TypeOK, Readings
  <2>3. \E q \in onRelays : q.n = cur'.n
    BY <2>1, <2>2, MergedIs DEF ShownIsNewest
  <2>4. \A i \in got' : \E q \in onRelays' : q.n = i
    BY <2>1 DEF ShownIsNewest
  <2>5. ASSUME Ordered', NEW q \in onRelays', q.n \in got' PROVE q.n <= cur'.n
    <3>1. Ordered
      BY <1>1, <2>1, <2>5
    <3>2. q.n \in Nat /\ s.n \in Nat /\ q \in onRelays /\ cur'.n \in Nat
      BY <2>1, <2>2, <2>5 DEF TypeOK, Readings
    <3>3. CASE cur = None
      <4>1. Merged(s) = s /\ got' = {s.n}
        BY <2>1, <3>3 DEF Merged, ShownIsNewest
      <4> QED
        BY <2>1, <2>5, <3>2, <4>1
    <3>4. CASE cur # None
      <4>1. Merged(s).n >= s.n /\ Merged(s).n >= cur.n
        BY <3>1, <3>4, NewerIsKept
      <4>2. q.n = s.n \/ q.n <= cur.n
        BY <2>1, <2>5, <3>1, <3>2 DEF ShownIsNewest
      <4>3. cur.n \in Nat
        BY <3>4 DEF TypeOK, Readings
      <4> QED
        BY <2>1, <3>2, <4>1, <4>2, <4>3
    <3> QED
      BY <3>3, <3>4
  <2> QED
    BY <2>1, <2>2, <2>3, <2>4, <2>5 DEF ShownIsNewest
<1>3. ASSUME cur' = cur, got' = got, onRelays \subseteq onRelays',
             onRelays' \subseteq onRelays \cup ({flight} \ {None})
      PROVE  ShownIsNewest'
  <2>1. ASSUME Ordered', NEW q \in onRelays', q.n \in got' PROVE q.n <= cur'.n
    <3>1. Ordered
      BY <1>1, <1>3, <2>1
    <3>2. PICK r \in onRelays : r.n = q.n
      BY <1>3, <2>1 DEF ShownIsNewest
    <3> QED
      BY <1>3, <2>1, <3>1, <3>2 DEF ShownIsNewest
  <2> QED
    BY <1>3, <2>1 DEF ShownIsNewest
<1>4. ASSUME Reload PROVE ShownIsNewest'
  BY <1>4 DEF Reload, ShownIsNewest
<1>5. ASSUME NEW held \in BOOLEAN, NEW accepted \in BOOLEAN, Landed(held, accepted)
      PROVE ShownIsNewest'
  BY <1>3, <1>5 DEF Landed
<1>6. ASSUME NEW upgraded \in BOOLEAN, NEW held \in BOOLEAN, Restart(upgraded, held)
      PROVE ShownIsNewest'
  BY <1>3, <1>6 DEF Restart
<1>7. ASSUME NEW lands \in BOOLEAN, Emit(lands) PROVE ShownIsNewest'
  BY <1>3, <1>7, OneNew
<1>8. ASSUME Pass \/ Change \/ LoseFile \/ (\E d \in Moves : MoveClock(d)) \/ UNCHANGED vars
      PROVE  ShownIsNewest'
  BY <1>3, <1>8 DEF Pass, Change, LoseFile, MoveClock, vars
<1> QED
  BY <1>2, <1>4, <1>5, <1>6, <1>7, <1>8 DEF Next

LEMMA SilenceStep ==
  TypeOK /\ SilenceIsSeen /\ NeverSilent /\ [Next]_vars => SilenceIsSeen' /\ NeverSilent'
<1> SUFFICES ASSUME TypeOK, SilenceIsSeen, NeverSilent, [Next]_vars
             PROVE  SilenceIsSeen' /\ NeverSilent'
  OBVIOUS
<1> USE DEF guardianVars, wardVars
<1>0. /\ wall \in Nat /\ silent \in Nat /\ lag \in Nat /\ Heartbeat \in Nat
      /\ last # None => last.ts \in Nat
      /\ flight # None => flight.ts \in Nat
  BY TimesAssumption DEF TypeOK, Readings
<1>1. ASSUME NEW lands \in BOOLEAN, Emit(lands) PROVE SilenceIsSeen' /\ NeverSilent'
  <2>1. /\ silent' = 0 /\ lag' = 0 /\ wall' = wall + 1 /\ flight' = Reading
        /\ last' = Reading \/ last' = last
    BY <1>1 DEF Emit
  <2>2. Reading.ts = wall
    BY ReadingIs
  <2> QED
    BY <1>0, <2>1, <2>2 DEF SilenceIsSeen, NeverSilent
<1>2. ASSUME NEW held \in BOOLEAN, NEW accepted \in BOOLEAN, Landed(held, accepted)
      PROVE SilenceIsSeen' /\ NeverSilent'
  <2>1. /\ flight # None /\ flight' = None /\ last' \in {last, flight}
        /\ silent' = silent /\ lag' = lag /\ wall' = wall
    BY <1>2 DEF Landed
  <2>2. silent = 0
    BY <2>1 DEF SilenceIsSeen
  <2> QED
    BY <1>0, <2>1, <2>2 DEF SilenceIsSeen, NeverSilent
<1>3. ASSUME Pass PROVE SilenceIsSeen' /\ NeverSilent'
  <2>1. wall' = wall + 1 /\ last' = last /\ flight' = flight /\ lag' = lag
    BY <1>3 DEF Pass
  <2>2. CASE flight # None
    <3>1. silent = 0 /\ silent' = silent
      BY <1>3, <2>2 DEF Pass, SilenceIsSeen
    <3> QED
      BY <1>0, <2>1, <2>2, <3>1 DEF SilenceIsSeen, NeverSilent
  <2>3. CASE flight = None
    <3>1. silent' = silent + 1 /\ ~Due
      BY <1>3, <2>3 DEF Pass
    <3>2. /\ last # None /\ wall >= last.ts /\ wall - last.ts < Heartbeat
      BY <1>0, <3>1 DEF Due, Distance
    <3>3. silent <= wall - last.ts + lag
      BY <3>2 DEF SilenceIsSeen
    <3> QED
      BY <1>0, <2>1, <2>3, <3>1, <3>2, <3>3 DEF SilenceIsSeen, NeverSilent
  <2> QED
    BY <2>2, <2>3
<1>4. ASSUME NEW d \in Moves, MoveClock(d) PROVE SilenceIsSeen' /\ NeverSilent'
  <2>1. d \in Int
    BY MovesAssumption
  <2>2. /\ wall' = wall + d /\ last' = last /\ flight' = flight /\ silent' = silent
        /\ lag' = IF last = None \/ wall + d < last.ts THEN lag
                  ELSE IF wall < last.ts THEN lag + silent
                  ELSE IF d < 0 THEN lag - d ELSE lag
    BY <1>4 DEF MoveClock
  <2>3. lag <= lag'
    BY <1>0, <2>1, <2>2
  <2>4. CASE last = None
    BY <1>0, <2>2, <2>4 DEF SilenceIsSeen, NeverSilent
  <2>5. CASE last # None
    BY <1>0, <2>1, <2>2, <2>3, <2>5 DEF SilenceIsSeen, NeverSilent
  <2> QED
    BY <2>4, <2>5
<1>5. ASSUME NEW upgraded \in BOOLEAN, NEW held \in BOOLEAN, Restart(upgraded, held)
      PROVE SilenceIsSeen' /\ NeverSilent'
  BY <1>0, <1>5 DEF Restart, SilenceIsSeen, NeverSilent
<1>6. ASSUME UNCHANGED <<last, flight, silent, lag, wall>> PROVE SilenceIsSeen' /\ NeverSilent'
  BY <1>6 DEF SilenceIsSeen, NeverSilent
<1>7. ASSUME Change \/ LoseFile \/ Reload \/ (\E s \in onRelays : Ingest(s)) \/ UNCHANGED vars
      PROVE  UNCHANGED <<last, flight, silent, lag, wall>>
  BY <1>7 DEF Change, LoseFile, Reload, Ingest, vars
<1> QED
  BY <1>1, <1>2, <1>3, <1>4, <1>5, <1>6, <1>7 DEF Next

LEMMA NewestInv == IInv => ShowsTheNewest
<1> SUFFICES ASSUME IInv, onRelays # {}, got = {s.n : s \in onRelays}, ~Broken,
                    ~movedBack \/ \A s \in onRelays : s.seq # None
             PROVE  \A s \in onRelays : s.n <= cur.n
  BY DEF ShowsTheNewest
<1> QED
  BY DEF IInv, ShownIsNewest, Ordered

-----------------------------------------------------------------------------
(* The theorems. *)

LEMMA Invariant == Spec => []IInv
<1>1. IInv /\ [Next]_vars => IInv'
  BY TypeStep, NumberedStep, UpgradedStep, TsStep, SeqAheadStep, SeqStep, NoFalseNoteStep,
     ShownStep, SilenceStep
  DEF IInv
<1> QED
  BY InitHolds, <1>1, PTL DEF Spec

\* The device's and the app's state has its type (status_emit.rs, status_seq.rs,
\* deviceStatusAdmit.ts).
THEOREM TypeCorrect == Spec => []TypeOK
<1>1. IInv => TypeOK
  BY DEF IInv
<1> QED
  BY <1>1, Invariant, PTL

\* Whatever is done to its clock and for every heartbeat, a device says something once a
\* heartbeat, later only by what the clock took back unseen (should_emit_status).
THEOREM DeviceSpeaks == Spec => []NeverSilent
<1>1. IInv => NeverSilent
  BY DEF IInv
<1> QED
  BY <1>1, Invariant, PTL

\* What the app shows of a device known to send a seq never goes back, and an app that has
\* taken in all the relays hold shows the newest of it, in any order of arrival, with any
\* number of restarts, upgrades and clock steps (mergeDeviceStatus, StatusSeq).
THEOREM NewestIsShown == Spec => TheNewestIsShown
<1>0. IInv' => ShowsTheNewest'
  BY NewestInv, PTL
<1>1. IInv /\ IInv' /\ [Next]_vars
        => [/\ cur # None /\ cur' # None /\ cur.seq # None => cur'.n >= cur.n \/ Broken
            /\ ShowsTheNewest']_vars
  <2> SUFFICES ASSUME IInv, IInv', [Next]_vars
               PROVE  /\ cur # None /\ cur' # None /\ cur.seq # None
                           => cur'.n >= cur.n \/ Broken
                      /\ ShowsTheNewest'
    OBVIOUS
  <2>1. ASSUME cur # None, cur' # None, cur.seq # None, ~Broken PROVE cur'.n >= cur.n
    <3>1. cur \in Readings /\ cur.n \in Nat
      BY <2>1 DEF IInv, TypeOK, Readings
    <3>2. cur' = cur \/ \E s \in onRelays : cur' = Merged(s)
      BY <2>1 DEF Next, Emit, Landed, Pass, Change, MoveClock, LoseFile, Restart, Ingest,
                  Reload, vars, guardianVars
    <3>3. ASSUME NEW s \in onRelays PROVE Merged(s).n >= cur.n
      <4>1. s \in Readings /\ s.n \in Nat
        BY DEF IInv, TypeOK, Readings
      <4>2. CASE s.seq = None
        BY <2>1, <3>1, <4>2, MergedCases DEF IInv
      <4>3. CASE s.seq # None
        <5>1. IF s.seq <= cur.seq THEN s.n <= cur.n ELSE cur.n < s.n
          BY <2>1, <4>3, BySeq DEF IInv
        <5>2. Merged(s) = IF s.seq <= cur.seq THEN cur ELSE Admit(s)
          BY <2>1, <4>3, MergedCases DEF IInv
        <5>3. Admit(s).n = s.n
          BY <2>1, <4>1, AdmitIs DEF IInv
        <5> QED
          BY <3>1, <4>1, <5>1, <5>2, <5>3
      <4> QED
        BY <4>2, <4>3
    <3> QED
      BY <3>1, <3>2, <3>3
  <2>2. ShowsTheNewest'
    BY <1>0
  <2> QED
    BY <2>1, <2>2
<1> QED
  BY <1>1, Invariant, PTL DEF Spec, TheNewestIsShown

\* The guardian is told of every step back of a device's clock that an older ts shows, and
\* of none that did not happen (clock_stepped_back_from, admitWithBackwardCheck).
THEOREM NoteIsTrue == Spec => ClockNoteIsTrue
<1>1. IInv /\ IInv' /\ [Next]_vars
        => [/\ cur' # None /\ cur'.flagAt # None => movedBack'
            /\ cur # None /\ cur' # None /\ cur'.ts < cur.ts => cur'.flagAt # None]_vars
  <2> SUFFICES ASSUME IInv, IInv', [Next]_vars
               PROVE  /\ cur' # None /\ cur'.flagAt # None => movedBack'
                      /\ cur # None /\ cur' # None /\ cur'.ts < cur.ts => cur'.flagAt # None
    OBVIOUS
  <2>1. ASSUME cur' # None, cur'.flagAt # None PROVE movedBack'
    BY <2>1 DEF IInv, NoFalseNote, Known
  <2>2. ASSUME cur # None, cur' # None, cur'.ts < cur.ts PROVE cur'.flagAt # None
    <3>1. cur.ts \in Nat
      BY <2>2 DEF IInv, TypeOK, Readings
    <3>2. cur' = cur \/ \E s \in onRelays : cur' = Merged(s)
      BY <2>2 DEF Next, Emit, Landed, Pass, Change, MoveClock, LoseFile, Restart, Ingest,
                  Reload, vars, guardianVars
    <3> QED
      BY <2>2, <3>1, <3>2, EarlierIsNoted DEF IInv
  <2> QED
    BY <2>1, <2>2
<1> QED
  BY <1>1, Invariant, PTL DEF Spec, ClockNoteIsTrue

\* The feed runs in Messages as it does by itself.
THEOREM FeedIsAPart == MessagesSpec => Spec
<1>1. [MessagesNext]_<<part, vars, unlockVars, wardenVars>> => [Next]_vars
  BY DEF MessagesNext
<1> QED
  BY <1>1, PTL DEF MessagesSpec, MessagesInit, Spec

-----------------------------------------------------------------------------
(***************************************************************************)
(* The host on Android: a released guardian decides nothing more, and      *)
(* nothing that does not read opens the phone.  What makes the first hard  *)
(* is that a broker works on the stores outside the lock.  The invariant   *)
(* follows each thread's broker: one in service, or replaced, is of the    *)
(* guardian the phone is paired to, and one that a release stopped is in   *)
(* no handler.                                                             *)
(***************************************************************************)
Fates == {"serving", "replaced", "released"}
Rounds == [stage : {"start", "out", "in"}, by : Guardians, is : Fates]
Wraps == [stage : {"sent", "out", "in", "done"}, by : Guardians, is : Fates]
Ruled == [by : Guardians, charter : BOOLEAN]
Files == {"pairing", "rules"}

\* Every variable but the counters that bound the instance.
WardenTypeOK ==
  /\ record \in Guardians \cup {None} /\ pin \in Guardians \cup {None}
  /\ rules \in Ruled \cup {None} /\ mirror \in Guardians \cup {None}
  /\ readable \subseteq Files /\ leftover \subseteq {"rules", "mirror"}
  /\ blind \in BOOLEAN /\ shut \in BOOLEAN /\ latch \in BOOLEAN
  /\ baselineOn \in BOOLEAN /\ sighted \in BOOLEAN /\ outlived \in BOOLEAN
  /\ phone \in [baseline : BOOLEAN, shut : BOOLEAN]
  /\ granted \subseteq Guardians /\ releases \subseteq Guardians
  /\ polling \in Rounds \cup {None} /\ wrap \in Wraps \cup {None}

-----------------------------------------------------------------------------
(* The inductive invariant. *)

\* The pairing in memory is the one on disk, and none while that does not read.
PinIsRecord ==
  /\ blind => pin = None
  /\ pin # None => pin = record

\* A broker a release stopped is in no handler, and one it has not stopped is of the
\* guardian in force.
OfTheGuardian(t) ==
  t # None =>
    /\ t.is = "released" => t.stage # "in"
    /\ t.is # "released" /\ ~outlived => t.by = pin

\* With no ward in memory and a pairing that reads, what is left was left by a release.
NothingWithoutAWard ==
  ~outlived /\ ~blind /\ pin = None =>
    /\ rules # None => "rules" \in leftover
    /\ mirror # None => "mirror" \in leftover

GuardianInv ==
  /\ PinIsRecord
  /\ OfTheGuardian(polling) /\ OfTheGuardian(wrap)
  /\ NothingWithoutAWard
  /\ W!OneGuardianDecides

\* Once the rules were read, a phone is locked or known to have had a charter, and
\* what is shut is locked.
SightInv ==
  sighted => (latch \/ shut) /\ (phone.shut => shut)

WardenInv == WardenTypeOK /\ GuardianInv /\ SightInv

USE DEF Files

LEMMA NotNone ==
         /\ \A g \in Guardians : g # None
         /\ \A r \in Ruled : r # None /\ r.by \in Guardians
         /\ \A t \in Rounds : t # None /\ t.by \in Guardians /\ t.is \in Fates
         /\ \A t \in Wraps : t # None /\ t.by \in Guardians /\ t.is \in Fates
BY NoneIsNothing DEF Ruled, Rounds, Wraps, Fates

LEMMA InitIsRight == ASSUME W!Init PROVE WardenInv
<1>1. WardenTypeOK
  BY DEF W!Init, WardenTypeOK
<1>2. GuardianInv
  BY DEF W!Init, GuardianInv, PinIsRecord, OfTheGuardian, NothingWithoutAWard, W!OneGuardianDecides
<1> QED
  BY <1>1, <1>2 DEF W!Init, WardenInv, SightInv

-----------------------------------------------------------------------------
(* The threads. *)

\* What a thread holds changes its fate, and nothing else.
LEMMA NowIs ==
  ASSUME NEW fate \in Fates, NEW T, T \in {Rounds, Wraps}, NEW t \in T \cup {None}
  PROVE  /\ W!Now(t, fate) \in T \cup {None}
         /\ W!Now(t, fate) # None => /\ t # None
                                   /\ W!Now(t, fate).by = t.by /\ W!Now(t, fate).stage = t.stage
                                   /\ W!Now(t, fate).is = IF t.is = "serving" THEN fate ELSE t.is
<1>1. CASE t # None /\ t.is = "serving"
  <2>1. W!Now(t, fate) = [t EXCEPT !.is = fate]
    BY <1>1 DEF W!Now
  <2>2. CASE T = Rounds
    BY <1>1, <2>1, <2>2 DEF Rounds
  <2>3. CASE T = Wraps
    BY <1>1, <2>1, <2>3 DEF Wraps
  <2> QED
    BY <2>2, <2>3
<1>2. CASE ~(t # None /\ t.is = "serving")
  BY <1>2 DEF W!Now
<1> QED
  BY <1>1, <1>2

\* The invariant of what a release wipes, when the files and the inbox stay as they are.
LEMMA SameFiles ==
  ASSUME GuardianInv, UNCHANGED <<record, rules, mirror, pin, blind, leftover, outlived>>,
         granted' \in {granted, {}}
  PROVE  PinIsRecord' /\ NothingWithoutAWard' /\ W!OneGuardianDecides'
<1>1. PinIsRecord'
  BY DEF GuardianInv, PinIsRecord
<1>2. NothingWithoutAWard'
  BY DEF GuardianInv, NothingWithoutAWard
<1>3. W!OneGuardianDecides'
  BY DEF GuardianInv, W!OneGuardianDecides
<1> QED
  BY <1>1, <1>2, <1>3

\* A thread that stays as it is, while nobody is released and none paired.
LEMMA SameThread ==
  ASSUME NEW t, NEW t1, OfTheGuardian(t), t1 = t \/ t1 = None, UNCHANGED <<pin, outlived>>
  PROVE  t1 # None => /\ t1.is = "released" => t1.stage # "in"
                      /\ t1.is # "released" /\ ~outlived' => t1.by = pin'
BY DEF OfTheGuardian

-----------------------------------------------------------------------------
(* The tick. *)

LEMMA TickIsRight ==
  ASSUME WardenInv, W!TickFree \/ W!TickHeld \/ W!TickEnforced
  PROVE  WardenInv'
<1> USE DEF WardenInv
<1>1. /\ UNCHANGED <<record, rules, mirror, readable, pin, blind, polling, wrap, releases, leftover,
                     outlived>>
      /\ granted' \in {granted, {}}
  BY DEF W!TickFree, W!TickHeld, W!TickEnforced, W!Unruled
<1>2. shut' \in BOOLEAN /\ latch' \in BOOLEAN /\ sighted' \in BOOLEAN
  <2>1. CASE UNCHANGED <<shut, latch, sighted>>
    BY <2>1 DEF WardenTypeOK
  <2>2. CASE W!TickEnforced
    <3>1. rules.charter \in BOOLEAN
      BY <2>2 DEF W!TickEnforced, WardenTypeOK, Ruled
    <3> QED
      BY <2>2, <3>1 DEF W!TickEnforced, WardenTypeOK
  <2> QED
    BY <2>1, <2>2 DEF W!TickFree, W!TickHeld
<1>3. phone' \in [baseline : BOOLEAN, shut : BOOLEAN] /\ baselineOn' \in BOOLEAN
  <2>1. PICK charted \in BOOLEAN, closed \in BOOLEAN : W!Shows(charted, closed)
    <3>1. CASE W!TickFree
      BY <3>1 DEF W!TickFree
    <3>2. CASE W!TickHeld
      BY <3>2 DEF W!TickHeld, WardenTypeOK
    <3>3. CASE W!TickEnforced
      BY <1>2, <3>3 DEF W!TickEnforced
    <3> QED
      BY <3>1, <3>2, <3>3
  <2>2. phone.baseline \in BOOLEAN
    BY DEF WardenTypeOK
  <2> QED
    BY <2>1, <2>2 DEF W!Shows, WardenTypeOK
<1>4. WardenTypeOK'
  BY <1>1, <1>2, <1>3 DEF WardenTypeOK
<1>5. GuardianInv'
  <2>1. PinIsRecord' /\ NothingWithoutAWard' /\ W!OneGuardianDecides'
    BY <1>1, SameFiles
  <2>2. OfTheGuardian(polling)' /\ OfTheGuardian(wrap)'
    BY <1>1 DEF GuardianInv, OfTheGuardian
  <2> QED
    BY <2>1, <2>2 DEF GuardianInv
<1>6. SightInv'
  <2>1. CASE W!TickFree \/ W!TickHeld
    <3>1. phone'.shut => shut
      <4>1. CASE W!TickFree
        <5>1. phone'.shut = FALSE
          BY <4>1 DEF W!TickFree, W!Shows
        <5> QED
          BY <5>1
      <4>2. CASE W!TickHeld
        <5>1. phone'.shut = shut
          BY <4>2 DEF W!TickHeld, W!Shows
        <5> QED
          BY <5>1
      <4> QED
        BY <2>1, <4>1, <4>2
    <3>3. UNCHANGED <<shut, latch, sighted>>
      BY <2>1 DEF W!TickFree, W!TickHeld
    <3> QED
      BY <3>1, <3>3 DEF SightInv
  <2>2. CASE W!TickEnforced
    <3>1. PICK glass \in BOOLEAN : W!Shows(TRUE, shut' /\ ~glass)
      BY <2>2 DEF W!TickEnforced
    <3>2. phone'.shut => shut'
      BY <3>1 DEF W!Shows
    <3>3. rules.charter \in BOOLEAN
      BY <2>2 DEF W!TickEnforced, WardenTypeOK, Ruled
    <3>4. latch' \/ shut'
      BY <2>2, <3>3 DEF W!TickEnforced
    <3> QED
      BY <3>2, <3>4 DEF SightInv
  <2> QED
    BY <2>1, <2>2
<1> QED
  BY <1>4, <1>5, <1>6

-----------------------------------------------------------------------------
(* What brokers do. *)

LEMMA EntersIsRight ==
  ASSUME WardenInv, W!RoundEnters \/ W!WrapEnters
  PROVE  WardenInv'
<1> USE DEF WardenInv
<1>1. UNCHANGED <<record, rules, mirror, readable, pin, blind, granted, shut, latch, baselineOn, phone,
                  releases, leftover, sighted, outlived>>
  BY DEF W!RoundEnters, W!WrapEnters, W!Unhandled
<1>2. CASE W!RoundEnters
  <2>1. /\ polling \in Rounds /\ polling.is # "released" /\ wrap' = wrap
        /\ polling' = [polling EXCEPT !.stage = "in"]
    BY <1>2 DEF W!RoundEnters, W!Enters, WardenTypeOK
  <2>2. polling' \in Rounds /\ polling'.is = polling.is /\ polling'.by = polling.by
    BY <2>1 DEF Rounds
  <2>3. OfTheGuardian(polling)' /\ OfTheGuardian(wrap)'
    BY <1>1, <1>2, <2>1, <2>2 DEF W!RoundEnters, GuardianInv, OfTheGuardian
  <2>4. WardenTypeOK'
    BY <1>1, <2>1, <2>2 DEF WardenTypeOK
  <2> QED
    BY <1>1, <2>3, <2>4, SameFiles DEF GuardianInv, SightInv
<1>3. CASE W!WrapEnters
  <2>1. /\ wrap \in Wraps /\ wrap.is # "released" /\ polling' = polling
        /\ wrap' = [wrap EXCEPT !.stage = "in"]
    BY <1>3 DEF W!WrapEnters, W!Enters, WardenTypeOK
  <2>2. wrap' \in Wraps /\ wrap'.is = wrap.is /\ wrap'.by = wrap.by
    BY <2>1 DEF Wraps
  <2>3. OfTheGuardian(polling)' /\ OfTheGuardian(wrap)'
    BY <1>1, <1>3, <2>1, <2>2 DEF W!WrapEnters, GuardianInv, OfTheGuardian
  <2>4. WardenTypeOK'
    BY <1>1, <2>1, <2>2 DEF WardenTypeOK
  <2> QED
    BY <1>1, <2>3, <2>4, SameFiles DEF GuardianInv, SightInv
<1> QED
  BY <1>2, <1>3

\* What a handler stores or enacts is its broker's guardian's.
LEMMA HandlesFor ==
  ASSUME NEW by \in Guardians, WardenTypeOK, W!Handles(by)
  PROVE  /\ \/ rules' \in Ruled /\ rules'.by = by /\ leftover' = leftover \ {"rules"}
            \/ UNCHANGED <<rules, leftover>>
         /\ granted' \in {granted, granted \cup {by}}
<1>1. ASSUME NEW r \in Ruled, r.by = by, W!Stored(r)
      PROVE  /\ \/ rules' \in Ruled /\ rules'.by = by /\ leftover' = leftover \ {"rules"}
                \/ UNCHANGED <<rules, leftover>>
             /\ granted' = granted
  BY <1>1 DEF W!Stored
<1>2. \A b \in BOOLEAN : [by |-> by, charter |-> b] \in Ruled
  BY DEF Ruled
<1> QED
  BY <1>1, <1>2 DEF W!Handles

\* The files after a handler of a broker that is of the guardian in force, or after a
\* release left one at work.
LEMMA HandledFiles ==
  ASSUME WardenInv, NEW by \in Guardians, W!Handles(by), ~outlived => by = pin,
         UNCHANGED <<record, mirror, pin, blind, outlived>>
  PROVE  /\ PinIsRecord' /\ NothingWithoutAWard' /\ W!OneGuardianDecides'
         /\ rules' \in Ruled \cup {None} /\ leftover' \subseteq {"rules", "mirror"}
         /\ granted' \subseteq Guardians
<1> USE DEF WardenInv
<1>1. /\ \/ rules' \in Ruled /\ rules'.by = by /\ leftover' = leftover \ {"rules"}
         \/ UNCHANGED <<rules, leftover>>
      /\ granted' \in {granted, granted \cup {by}}
  BY HandlesFor
<1>2. PinIsRecord'
  BY DEF GuardianInv, PinIsRecord
<1>3. by # None
  BY NotNone
<1>4. ~outlived => by = pin /\ by = record
  BY <1>3 DEF GuardianInv, PinIsRecord
<1>5. NothingWithoutAWard'
  BY <1>3, <1>4 DEF NothingWithoutAWard
<1>6. W!OneGuardianDecides'
  BY <1>1, <1>4 DEF GuardianInv, W!OneGuardianDecides
<1>7. /\ rules' \in Ruled \cup {None} /\ leftover' \subseteq {"rules", "mirror"}
      /\ granted' \subseteq Guardians
  BY <1>1 DEF WardenTypeOK
<1> QED
  BY <1>2, <1>5, <1>6, <1>7

LEMMA HandlesIsRight ==
  ASSUME WardenInv, W!RoundHandles \/ W!WrapHandles
  PROVE  WardenInv'
<1> USE DEF WardenInv
<1>1. UNCHANGED <<record, mirror, readable, pin, blind, shut, latch, baselineOn, phone,
                  releases, sighted, outlived>>
  BY DEF W!RoundHandles, W!WrapHandles, W!Unhandled
<1>2. CASE W!RoundHandles
  <2>1. /\ polling \in Rounds /\ polling.stage = "in" /\ wrap' = wrap /\ W!Handles(polling.by)
        /\ polling' = [polling EXCEPT !.stage = "out"]
    BY <1>2 DEF W!RoundHandles, WardenTypeOK
  <2>2. polling.by \in Guardians /\ (~outlived => polling.by = pin)
    BY <2>1, NotNone DEF GuardianInv, OfTheGuardian
  <2>3. /\ PinIsRecord' /\ NothingWithoutAWard' /\ W!OneGuardianDecides'
        /\ rules' \in Ruled \cup {None} /\ leftover' \subseteq {"rules", "mirror"}
        /\ granted' \subseteq Guardians
    BY <1>1, <2>1, <2>2, HandledFiles
  <2>4. polling' \in Rounds /\ polling'.is = polling.is /\ polling'.by = polling.by /\ polling'.stage = "out"
    BY <2>1 DEF Rounds
  <2>5. OfTheGuardian(polling)' /\ OfTheGuardian(wrap)'
    BY <1>1, <2>1, <2>2, <2>4 DEF GuardianInv, OfTheGuardian
  <2>6. WardenTypeOK'
    BY <1>1, <2>1, <2>3, <2>4 DEF WardenTypeOK
  <2> QED
    BY <1>1, <2>3, <2>5, <2>6 DEF GuardianInv, SightInv
<1>3. CASE W!WrapHandles
  <2>1. /\ wrap \in Wraps /\ wrap.stage = "in" /\ polling' = polling /\ W!Handles(wrap.by)
        /\ wrap' = [wrap EXCEPT !.stage = "done"]
    BY <1>3 DEF W!WrapHandles, WardenTypeOK
  <2>2. wrap.by \in Guardians /\ (~outlived => wrap.by = pin)
    BY <2>1, NotNone DEF GuardianInv, OfTheGuardian
  <2>3. /\ PinIsRecord' /\ NothingWithoutAWard' /\ W!OneGuardianDecides'
        /\ rules' \in Ruled \cup {None} /\ leftover' \subseteq {"rules", "mirror"}
        /\ granted' \subseteq Guardians
    BY <1>1, <2>1, <2>2, HandledFiles
  <2>4. wrap' \in Wraps /\ wrap'.is = wrap.is /\ wrap'.by = wrap.by /\ wrap'.stage = "done"
    BY <2>1 DEF Wraps
  <2>5. OfTheGuardian(polling)' /\ OfTheGuardian(wrap)'
    BY <1>1, <2>1, <2>2, <2>4 DEF GuardianInv, OfTheGuardian
  <2>6. WardenTypeOK'
    BY <1>1, <2>1, <2>3, <2>4 DEF WardenTypeOK
  <2> QED
    BY <1>1, <2>3, <2>5, <2>6 DEF GuardianInv, SightInv
<1> QED
  BY <1>2, <1>3


\* The machine-wide copy follows the ward's rules, and says so when those are left over.
LEMMA MirroredIsRight ==
  ASSUME WardenInv, W!Mirrored,
         UNCHANGED <<record, rules, pin, blind, granted, outlived>>
  PROVE  /\ PinIsRecord' /\ NothingWithoutAWard' /\ W!OneGuardianDecides'
         /\ mirror' \in Guardians \cup {None} /\ leftover' \subseteq {"rules", "mirror"}
<1> USE DEF WardenInv
<1>1. PinIsRecord'
  BY DEF GuardianInv, PinIsRecord
<1>2. CASE /\ pin # None /\ rules # None /\ mirror' = rules.by
           /\ leftover' = (leftover \ {"mirror"}) \cup
                             (IF "rules" \in leftover THEN {"mirror"} ELSE {})
  <2>1. rules.by \in Guardians
    BY <1>2, NotNone DEF WardenTypeOK
  <2>2. NothingWithoutAWard'
    BY <1>2 DEF NothingWithoutAWard
  <2>3. W!OneGuardianDecides'
    BY <1>2 DEF GuardianInv, W!OneGuardianDecides
  <2> QED
    BY <1>1, <1>2, <2>1, <2>2, <2>3 DEF WardenTypeOK
<1>3. CASE UNCHANGED <<mirror, leftover>>
  BY <1>3, SameFiles DEF WardenTypeOK
<1> QED
  BY <1>2, <1>3 DEF W!Mirrored

-----------------------------------------------------------------------------
(* Release. *)

\* What could not be cleared is known to be left over.
LEMMA ClearedIs ==
  ASSUME WardenTypeOK, NEW done \in SUBSET {"rules", "mirror", "record"}, W!Cleared(done)
  PROVE  /\ rules' \in {rules, None} /\ mirror' \in {mirror, None} /\ record' \in {record, None}
         /\ leftover' \subseteq {"rules", "mirror"}
         /\ rules' # None => "rules" \in leftover'
         /\ mirror' # None => "mirror" \in leftover'
BY DEF W!Cleared, WardenTypeOK

\* A release stops the broker in service, in no handler, for a thread that holds it.
LEMMA StoppedThread ==
  ASSUME NEW T, T \in {Rounds, Wraps}, NEW t \in T \cup {None}, OfTheGuardian(t),
         t # None => ~(t.stage = "in" /\ t.is = "serving"),
         t # None /\ t.is = "replaced" => outlived'
  PROVE  /\ W!Now(t, "released") \in T \cup {None}
         /\ W!Now(t, "released") # None =>
              /\ W!Now(t, "released").is = "released" => W!Now(t, "released").stage # "in"
              /\ W!Now(t, "released").is # "released" => outlived'
<1>1. "released" \in Fates
  BY DEF Fates
<1>2. PICK n : n = W!Now(t, "released")
  OBVIOUS
<1>3. /\ n \in T \cup {None}
      /\ n # None => /\ t # None /\ n.stage = t.stage
                     /\ n.is = IF t.is = "serving" THEN "released" ELSE t.is
  BY <1>1, <1>2, NowIs
<1>4. t # None => t.is \in Fates
  BY NotNone
<1>5. n # None => /\ n.is = "released" => n.stage # "in"
                  /\ n.is # "released" => outlived'
  BY <1>3, <1>4 DEF OfTheGuardian, Fates
<1> QED
  BY <1>2, <1>3, <1>5

\* A release leaves nothing in force that is not known to be left over.
LEMMA ReleaseIsRight ==
  ASSUME WardenInv,
         NEW r \in {polling, None}, NEW w \in {wrap, None},
         W!ApplyRelease(r, w)
  PROVE  WardenInv'
<1> USE DEF WardenInv
<1>1. /\ UNCHANGED <<readable, blind, baselineOn, phone, releases>>
      /\ pin' = None /\ granted' = {} /\ shut' = FALSE /\ latch' = FALSE /\ sighted' = FALSE
      /\ W!Stops(r, w)
  BY DEF W!ApplyRelease
<1>2. PICK fails \in {{}} \cup {{f} : f \in {"rules", "mirror", "record"}} :
             W!Cleared({"rules", "mirror", "record"} \ fails)
  BY DEF W!ApplyRelease
<1>3. PICK done : done = {"rules", "mirror", "record"} \ fails
  OBVIOUS
<1>4. done \in SUBSET {"rules", "mirror", "record"} /\ W!Cleared(done)
  BY <1>2, <1>3
<1>5. /\ rules' \in {rules, None} /\ mirror' \in {mirror, None} /\ record' \in {record, None}
      /\ leftover' \subseteq {"rules", "mirror"}
      /\ rules' # None => "rules" \in leftover'
      /\ mirror' # None => "mirror" \in leftover'
  BY <1>4, ClearedIs
<1>6. /\ polling' = W!Now(r, "released") /\ wrap' = W!Now(w, "released") /\ outlived' \in BOOLEAN
      /\ \A t \in {r, w} : t # None /\ t.is = "replaced" => outlived'
      /\ ~W!Inside
  BY <1>1 DEF W!Stops, WardenTypeOK
<1>7. /\ r \in Rounds \cup {None} /\ w \in Wraps \cup {None}
      /\ OfTheGuardian(r) /\ OfTheGuardian(w)
  BY DEF WardenTypeOK, GuardianInv, OfTheGuardian
<1>8. /\ r # None => ~(r.stage = "in" /\ r.is = "serving")
      /\ w # None => ~(w.stage = "in" /\ w.is = "serving")
  BY <1>6 DEF W!Inside
<1>9. polling' \in Rounds \cup {None} /\ OfTheGuardian(polling)'
  BY <1>6, <1>7, <1>8, StoppedThread DEF OfTheGuardian
<1>10. wrap' \in Wraps \cup {None} /\ OfTheGuardian(wrap)'
  BY <1>6, <1>7, <1>8, StoppedThread DEF OfTheGuardian
<1>11. WardenTypeOK'
  BY <1>1, <1>5, <1>6, <1>9, <1>10 DEF WardenTypeOK
<1>12. PinIsRecord' /\ NothingWithoutAWard' /\ W!OneGuardianDecides'
  BY <1>1, <1>5 DEF PinIsRecord, NothingWithoutAWard, W!OneGuardianDecides
<1> QED
  BY <1>1, <1>9, <1>10, <1>11, <1>12 DEF GuardianInv, SightInv

\* The ward is taken up again from a record that reads.
LEMMA TakenUpIs ==
  ASSUME NEW r, W!TakenUp(r)
  PROVE  /\ blind' \in BOOLEAN
         /\ blind' => pin' = None
         /\ ~blind' => pin' = r
BY DEF W!TakenUp

-----------------------------------------------------------------------------
(* The poll round. *)

LEMMA RoundStartsIsRight ==
  ASSUME WardenInv, W!RoundStarts
  PROVE  WardenInv'
<1> USE DEF WardenInv
<1>1. /\ UNCHANGED <<record, rules, mirror, readable, granted, shut, latch, baselineOn, phone, wrap,
                     releases, leftover, sighted, outlived>>
      /\ polling = None
  BY DEF W!RoundStarts
<1>2. /\ blind' \in BOOLEAN /\ pin' \in Guardians \cup {None}
      /\ blind' => pin' = None
      /\ pin' # pin => pin = None /\ pin' = record
      /\ pin' # None => pin' = record
      /\ ~blind' /\ pin' = None => record = None \/ (~blind /\ pin = None)
  <2>1. CASE blind /\ W!TakenUp(record)
    BY <2>1, TakenUpIs DEF WardenTypeOK, GuardianInv, PinIsRecord
  <2>2. CASE ~blind /\ UNCHANGED <<blind, pin>>
    BY <2>2 DEF WardenTypeOK, GuardianInv, PinIsRecord
  <2> QED
    BY <2>1, <2>2 DEF W!RoundStarts
<1>3. /\ polling' \in Rounds \cup {None}
      /\ polling' # None => polling'.is = "serving" /\ polling'.by = pin'
  <2>1. CASE polling' = None
    BY <2>1
  <2>2. CASE pin' # None /\ polling' = [stage |-> "start", by |-> pin', is |-> "serving"]
    BY <1>2, <2>2 DEF Rounds, Fates
  <2> QED
    BY <1>1, <2>1, <2>2 DEF W!RoundStarts
<1>4. WardenTypeOK'
  BY <1>1, <1>2, <1>3 DEF WardenTypeOK
<1>5. OfTheGuardian(polling)'
  BY <1>3 DEF OfTheGuardian
<1>6. OfTheGuardian(wrap)'
  <2>1. wrap # None => wrap.by # None
    BY NotNone DEF WardenTypeOK
  <2> QED
    BY <1>1, <1>2, <2>1 DEF GuardianInv, OfTheGuardian
<1>7. PinIsRecord'
  BY <1>1, <1>2 DEF PinIsRecord
<1>8. NothingWithoutAWard'
  <2>1. rules # None => rules.by # None
    BY NotNone DEF WardenTypeOK
  <2> QED
    BY <1>1, <1>2, <2>1 DEF GuardianInv, NothingWithoutAWard, W!OneGuardianDecides
<1>9. W!OneGuardianDecides'
  <2>1. granted \subseteq {pin} /\ pin = None => granted = {}
    BY NotNone DEF WardenTypeOK
  <2> QED
    BY <1>1, <1>2, <2>1 DEF GuardianInv, W!OneGuardianDecides
<1> QED
  BY <1>1, <1>4, <1>5, <1>6, <1>7, <1>8, <1>9 DEF GuardianInv, SightInv

\* A thread moves on outside any handler, and nothing else changes.
LEMMA MovesIsRight ==
  ASSUME WardenInv, W!Untouched,
         polling' \in Rounds \cup {None}, wrap' \in Wraps \cup {None},
         OfTheGuardian(polling)', OfTheGuardian(wrap)'
  PROVE  WardenInv'
<1> USE DEF WardenInv
<1>1. WardenTypeOK'
  BY DEF W!Untouched, WardenTypeOK
<1>2. PinIsRecord' /\ NothingWithoutAWard' /\ W!OneGuardianDecides'
  BY SameFiles DEF W!Untouched
<1> QED
  BY <1>1, <1>2 DEF W!Untouched, GuardianInv, SightInv

LEMMA RoundReleasesIsRight ==
  ASSUME WardenInv, W!RoundReleases
  PROVE  WardenInv'
<1> USE DEF WardenInv
<1>1. polling \in Rounds /\ polling.stage = "start"
  BY DEF W!RoundReleases, WardenTypeOK
<1>2. CASE W!ApplyRelease(None, wrap)
  BY <1>1, <1>2, ReleaseIsRight
<1>3. CASE polling' = [polling EXCEPT !.stage = "out"] /\ wrap' = wrap /\ W!Untouched
  <2>1. polling' \in Rounds /\ polling'.is = polling.is /\ polling'.by = polling.by /\ polling'.stage = "out"
    BY <1>1, <1>3 DEF Rounds
  <2>2. OfTheGuardian(polling)' /\ OfTheGuardian(wrap)'
    BY <1>1, <1>3, <2>1, NotNone DEF GuardianInv, OfTheGuardian, W!Untouched
  <2> QED
    BY <1>3, <2>1, <2>2, MovesIsRight DEF WardenTypeOK
<1> QED
  BY <1>2, <1>3 DEF W!RoundReleases

\* What a broker did is absorbed.
LEMMA AbsorbsIsRight ==
  ASSUME WardenInv, W!RoundEnds \/ W!WrapIsAbsorbed
  PROVE  WardenInv'
<1> USE DEF WardenInv
<1>1. /\ UNCHANGED <<record, rules, readable, pin, blind, granted, shut, latch, baselineOn, phone,
                     releases, sighted, outlived>>
      /\ polling' \in {polling, None} /\ wrap' \in {wrap, None}
      /\ W!Mirrored \/ UNCHANGED <<mirror, leftover>>
  BY DEF W!RoundEnds, W!WrapIsAbsorbed
<1>2. /\ PinIsRecord' /\ NothingWithoutAWard' /\ W!OneGuardianDecides'
      /\ mirror' \in Guardians \cup {None} /\ leftover' \subseteq {"rules", "mirror"}
  <2>1. CASE W!Mirrored
    BY <1>1, <2>1, MirroredIsRight
  <2>2. CASE UNCHANGED <<mirror, leftover>>
    BY <1>1, <2>2, SameFiles DEF WardenTypeOK
  <2> QED
    BY <1>1, <2>1, <2>2
<1>3. WardenTypeOK'
  BY <1>1, <1>2 DEF WardenTypeOK
<1>4. OfTheGuardian(polling)' /\ OfTheGuardian(wrap)'
  BY <1>1 DEF GuardianInv, OfTheGuardian
<1> QED
  BY <1>1, <1>2, <1>3, <1>4 DEF GuardianInv, SightInv

-----------------------------------------------------------------------------
(* A wrap from the home link. *)

LEMMA WrapMovesIsRight ==
  ASSUME WardenInv, W!WrapArrives \/ W!WrapIsTaken
  PROVE  WardenInv'
<1> USE DEF WardenInv
<1>1. polling' = polling /\ W!Untouched
  BY DEF W!WrapArrives, W!WrapIsTaken
<1>2. wrap' \in Wraps \cup {None} /\ OfTheGuardian(wrap)'
  <2>1. CASE W!WrapArrives
    <3>1. pin \in Guardians /\ wrap' = [stage |-> "sent", by |-> pin, is |-> "serving"]
      BY <2>1 DEF W!WrapArrives, WardenTypeOK
    <3> QED
      BY <1>1, <3>1 DEF Wraps, Fates, OfTheGuardian, W!Untouched
  <2>2. CASE W!WrapIsTaken /\ wrap.is = "serving"
    <3>1. wrap \in Wraps /\ wrap' = [wrap EXCEPT !.stage = "out"]
      BY <2>2 DEF W!WrapIsTaken, WardenTypeOK
    <3>2. wrap' \in Wraps /\ wrap'.is = wrap.is /\ wrap'.by = wrap.by /\ wrap'.stage = "out"
      BY <3>1 DEF Wraps
    <3> QED
      BY <1>1, <3>1, <3>2, NotNone DEF GuardianInv, OfTheGuardian, W!Untouched
  <2>3. CASE wrap' = None
    BY <2>3 DEF OfTheGuardian
  <2> QED
    BY <2>1, <2>2, <2>3 DEF W!WrapIsTaken
<1>3. polling' \in Rounds \cup {None} /\ OfTheGuardian(polling)'
  BY <1>1 DEF WardenTypeOK, GuardianInv, OfTheGuardian, W!Untouched
<1> QED
  BY <1>1, <1>2, <1>3, MovesIsRight

LEMMA WrapReleasesIsRight ==
  ASSUME WardenInv, W!WrapReleases
  PROVE  WardenInv'
<1> USE DEF WardenInv
<1>1. CASE W!ApplyRelease(polling, None)
  BY <1>1, ReleaseIsRight DEF W!WrapReleases
<1>2. CASE wrap' = None /\ polling' = polling /\ W!Untouched
  BY <1>2, MovesIsRight DEF WardenTypeOK, GuardianInv, OfTheGuardian, W!Untouched
<1> QED
  BY <1>1, <1>2 DEF W!WrapReleases

-----------------------------------------------------------------------------
(* The ward and the guardian at the phone, and the world. *)

LEMMA PairIsRight ==
  ASSUME WardenInv, NEW g \in Guardians, W!Pair(g)
  PROVE  WardenInv'
<1> USE DEF WardenInv
<1>1. /\ UNCHANGED <<rules, mirror, readable, blind, granted, shut, latch, baselineOn, phone, polling,
                     wrap, leftover, sighted, outlived>>
      /\ ~blind /\ pin = None /\ record' = g /\ pin' = g /\ releases' \subseteq releases
      /\ g # None
  BY NotNone DEF W!Pair
<1>2. WardenTypeOK'
  BY <1>1 DEF WardenTypeOK
<1>3. PinIsRecord' /\ NothingWithoutAWard'
  BY <1>1 DEF PinIsRecord, NothingWithoutAWard
<1>4. W!OneGuardianDecides'
  <2>1. ~outlived => granted = {}
    BY <1>1, NotNone DEF GuardianInv, W!OneGuardianDecides, WardenTypeOK
  <2> QED
    BY <1>1, <2>1 DEF GuardianInv, NothingWithoutAWard, W!OneGuardianDecides
<1>5. OfTheGuardian(polling)' /\ OfTheGuardian(wrap)'
  <2>1. (polling # None => polling.by # None) /\ (wrap # None => wrap.by # None)
    BY NotNone DEF WardenTypeOK
  <2> QED
    BY <1>1, <2>1 DEF GuardianInv, OfTheGuardian
<1> QED
  BY <1>1, <1>2, <1>3, <1>4, <1>5 DEF GuardianInv, SightInv

\* A broker that is replaced is still of the guardian in force.
LEMMA ReplacedThread ==
  ASSUME NEW T, T \in {Rounds, Wraps}, NEW t \in T \cup {None}, OfTheGuardian(t)
  PROVE  /\ W!Now(t, "replaced") \in T \cup {None}
         /\ OfTheGuardian(W!Now(t, "replaced"))
<1>1. "replaced" \in Fates
  BY DEF Fates
<1>2. PICK n : n = W!Now(t, "replaced")
  OBVIOUS
<1>3. /\ n \in T \cup {None}
      /\ n # None => /\ t # None /\ n.by = t.by /\ n.stage = t.stage
                     /\ n.is = IF t.is = "serving" THEN "replaced" ELSE t.is
  BY <1>1, <1>2, NowIs
<1>4. OfTheGuardian(n)
  BY <1>3 DEF OfTheGuardian
<1> QED
  BY <1>2, <1>3, <1>4

LEMMA RelaysIsRight ==
  ASSUME WardenInv, W!UpdateRelays
  PROVE  WardenInv'
<1> USE DEF WardenInv
<1>1. /\ UNCHANGED <<record, rules, mirror, readable, pin, blind, granted, shut, latch, baselineOn,
                     phone, releases, leftover, sighted, outlived>>
      /\ polling' = W!Now(polling, "replaced") /\ wrap' = W!Now(wrap, "replaced")
  BY DEF W!UpdateRelays
<1>2. /\ polling' \in Rounds \cup {None} /\ OfTheGuardian(W!Now(polling, "replaced"))
      /\ wrap' \in Wraps \cup {None} /\ OfTheGuardian(W!Now(wrap, "replaced"))
  BY <1>1, ReplacedThread DEF WardenTypeOK, GuardianInv
<1>3. OfTheGuardian(polling)' /\ OfTheGuardian(wrap)'
  BY <1>1, <1>2 DEF OfTheGuardian
<1>4. WardenTypeOK'
  BY <1>1, <1>2 DEF WardenTypeOK
<1>5. PinIsRecord' /\ NothingWithoutAWard' /\ W!OneGuardianDecides'
  BY <1>1, SameFiles
<1> QED
  BY <1>1, <1>3, <1>4, <1>5 DEF GuardianInv, SightInv

\* A process starts with what the files hold, or with what a release it died in has
\* left of them.
LEMMA RestartIsRight ==
  ASSUME WardenInv, W!Restart \/ W!RestartReleasing
  PROVE  WardenInv'
<1> USE DEF WardenInv
<1>1. W!Restarted
  BY DEF W!Restart, W!RestartReleasing
<1>2. /\ UNCHANGED <<readable, phone, releases, outlived>>
      /\ granted' = {} /\ shut' = FALSE /\ latch' = FALSE /\ baselineOn' = FALSE /\ sighted' = FALSE
      /\ polling' = None /\ wrap' = None
      /\ blind' \in BOOLEAN
      /\ blind' => pin' = None
      /\ ~blind' => pin' = record'
  BY <1>1, TakenUpIs DEF W!Restarted
<1>3. /\ rules' \in {rules, None} /\ mirror' \in {mirror, None} /\ record' \in {record, None}
      /\ leftover' \subseteq {"rules", "mirror"}
      /\ ~outlived => /\ rules' # None => rules'.by = record' \/ "rules" \in leftover'
                      /\ mirror' # None => mirror' = record' \/ "mirror" \in leftover'
  <2>1. CASE UNCHANGED <<record, rules, mirror, leftover>>
    BY <2>1 DEF WardenTypeOK, GuardianInv, W!OneGuardianDecides
  <2>2. CASE \E done \in {{"rules"}, {"rules", "mirror"}, {"rules", "mirror", "record"}} : W!Cleared(done)
    BY <2>2, ClearedIs
  <2> QED
    BY <2>1, <2>2 DEF W!Restart, W!RestartReleasing
<1>4. WardenTypeOK'
  BY <1>2, <1>3 DEF WardenTypeOK
<1>5. PinIsRecord' /\ W!OneGuardianDecides' /\ OfTheGuardian(polling)' /\ OfTheGuardian(wrap)'
  BY <1>2, <1>3 DEF PinIsRecord, W!OneGuardianDecides, OfTheGuardian
<1>6. NothingWithoutAWard'
  <2>1. rules' # None => rules'.by # None
    BY <1>4, NotNone DEF WardenTypeOK
  <2> QED
    BY <1>2, <1>3, <2>1 DEF NothingWithoutAWard
<1> QED
  BY <1>2, <1>4, <1>5, <1>6 DEF GuardianInv, SightInv

LEMMA WorldIsRight ==
  ASSUME WardenInv,
         W!SignRelease \/ W!ReadsHeal \/ (\E f \in Files : W!ReadsFail(f)) \/ UNCHANGED wardenVars
  PROVE  WardenInv'
<1> USE DEF WardenInv
<1>1. UNCHANGED <<record, rules, mirror, pin, blind, granted, shut, latch, baselineOn, phone,
                  polling, wrap, leftover, sighted, outlived>>
  BY DEF W!SignRelease, W!ReadsHeal, W!ReadsFail, W!Still, wardenVars
<1>2. readable' \subseteq Files /\ releases' \subseteq Guardians
  BY DEF W!SignRelease, W!ReadsHeal, W!ReadsFail, wardenVars, WardenTypeOK
<1>3. WardenTypeOK'
  BY <1>1, <1>2 DEF WardenTypeOK
<1>4. PinIsRecord' /\ NothingWithoutAWard' /\ W!OneGuardianDecides'
  BY <1>1, SameFiles
<1>5. OfTheGuardian(polling)' /\ OfTheGuardian(wrap)'
  BY <1>1 DEF GuardianInv, OfTheGuardian
<1> QED
  BY <1>1, <1>3, <1>4, <1>5 DEF GuardianInv, SightInv

LEMMA StepIsRight == ASSUME WardenInv, W!Next \/ UNCHANGED wardenVars PROVE WardenInv'
<1>1. CASE W!TickFree \/ W!TickHeld \/ W!TickEnforced
  BY <1>1, TickIsRight
<1>2. CASE W!RoundStarts \/ W!RoundReleases \/ W!RoundEnters \/ W!RoundHandles \/ W!RoundEnds
  BY <1>2, RoundStartsIsRight, RoundReleasesIsRight, EntersIsRight, HandlesIsRight, AbsorbsIsRight
<1>3. CASE W!WrapArrives \/ W!WrapIsTaken \/ W!WrapEnters \/ W!WrapHandles \/ W!WrapIsAbsorbed \/ W!WrapReleases
  BY <1>3, WrapMovesIsRight, WrapReleasesIsRight, EntersIsRight, HandlesIsRight, AbsorbsIsRight
<1>4. CASE (\E g \in Guardians : W!Pair(g)) \/ W!UpdateRelays \/ W!Restart \/ W!RestartReleasing
  BY <1>4, PairIsRight, RelaysIsRight, RestartIsRight
<1>5. CASE W!SignRelease \/ W!ReadsHeal \/ (\E f \in Files : W!ReadsFail(f)) \/ UNCHANGED wardenVars
  BY <1>5, WorldIsRight
<1> QED
  BY <1>1, <1>2, <1>3, <1>4, <1>5 DEF W!Next

\* The steps of the feed and of an unlock are none of the host's.
LEMMA InvariantHolds == MessagesSpec => []WardenInv
<1>1. MessagesInit => WardenInv
  BY InitIsRight DEF MessagesInit
<1>2. WardenInv /\ [MessagesNext]_<<part, vars, unlockVars, wardenVars>> => WardenInv'
  BY StepIsRight DEF MessagesNext
<1> QED
  BY <1>1, <1>2, PTL DEF MessagesSpec

-----------------------------------------------------------------------------
(* The theorems. *)

\* Every store, thread and flag of the host keeps its shape.
THEOREM TypesHold == MessagesSpec => []WardenTypeOK
<1>1. WardenInv => WardenTypeOK
  BY DEF WardenInv
<1> QED
  BY <1>1, InvariantHolds, PTL

\* apply_release and mark_released: no rule, no copy of one and no minute of a released
\* guardian is left to bind the next pairing, whatever was under way when the release
\* came, but what a release could not clear and what a replaced broker still does.
THEOREM OnlyOneDecides == MessagesSpec => []OneGuardianDecides
<1>1. WardenInv => OneGuardianDecides
  BY DEF WardenInv, GuardianInv, OneGuardianDecides
<1> QED
  BY <1>1, InvariantHolds, PTL

\* What lifts a restriction has read the pairing, and the rules if it ever did; and a
\* pairing that does not read is not paired over.
Lifts ==
  /\ (phone.baseline /\ ~phone'.baseline) \/ (phone.shut /\ ~phone'.shut)
       => ~blind /\ (pin = None \/ "rules" \in readable \/ ~sighted)
  /\ blind => record' = record

LEMMA HeldLifts ==
  ASSUME WardenInv, W!TickHeld, sighted
  PROVE  /\ phone.baseline => phone'.baseline
         /\ phone.shut => phone'.shut
<1>1. phone' = [baseline |-> (latch \/ shut) \/ (phone.baseline /\ ~baselineOn), shut |-> shut]
  BY DEF W!TickHeld, W!Shows
<1>2. (latch \/ shut) /\ (phone.shut => shut)
  BY DEF WardenInv, SightInv
<1>3. phone'.shut = shut
  BY <1>1
<1>4. phone'.baseline = ((latch \/ shut) \/ (phone.baseline /\ ~baselineOn))
  BY <1>1
<1>5. phone'.baseline
  BY <1>2, <1>4
<1> QED
  BY <1>2, <1>3, <1>5

LEMMA StepLifts == ASSUME WardenInv, W!Next PROVE [Lifts]_W!vars
<1>1. CASE W!TickFree \/ W!TickEnforced
  BY <1>1 DEF W!TickFree, W!TickEnforced, W!Unruled, Lifts
<1>2. CASE W!TickHeld
  <2>1. ~blind /\ record' = record
    BY <1>2 DEF W!TickHeld, W!Unruled
  <2> QED
    BY <1>2, <2>1, HeldLifts DEF Lifts
<1>3. CASE UNCHANGED phone /\ (blind => record' = record)
  BY <1>3 DEF Lifts
<1>4. blind => pin = None
  BY DEF WardenInv, GuardianInv, PinIsRecord
<1>5. CASE W!RoundStarts \/ W!RoundReleases \/ W!RoundEnters \/ W!RoundHandles \/ W!RoundEnds
  BY <1>3, <1>4, <1>5
  DEF W!RoundStarts, W!RoundReleases, W!Honoured, W!ApplyRelease, W!Untouched, W!RoundEnters, W!RoundHandles,
      W!Unhandled, W!RoundEnds
<1>6. CASE W!WrapArrives \/ W!WrapIsTaken \/ W!WrapEnters \/ W!WrapHandles \/ W!WrapIsAbsorbed \/ W!WrapReleases
  BY <1>3, <1>4, <1>6
  DEF W!WrapArrives, W!WrapIsTaken, W!WrapReleases, W!Honoured, W!ApplyRelease, W!Untouched, W!WrapEnters,
      W!WrapHandles, W!Unhandled, W!WrapIsAbsorbed
<1>7. CASE (\E g \in Guardians : W!Pair(g)) \/ W!UpdateRelays \/ W!Restart \/ W!RestartReleasing
  BY <1>3, <1>4, <1>7 DEF W!Pair, W!UpdateRelays, W!Restart, W!RestartReleasing, W!Restarted, W!Honoured
<1>8. CASE W!SignRelease \/ W!ReadsHeal \/ (\E f \in Files : W!ReadsFail(f))
  BY <1>3, <1>8 DEF W!SignRelease, W!ReadsHeal, W!ReadsFail, W!Still
<1> QED
  BY <1>1, <1>2, <1>5, <1>6, <1>7, <1>8 DEF W!Next

\* hold_decision, N1, F2 and I22: from when the process first read the rules, a restriction
\* is lifted only when the pairing reads, and there is no ward or its rules read; and a
\* pairing that does not read is never replaced.
THEOREM NothingUnreadOpens == MessagesSpec => FaultsOpenNothing
<1>1. WardenInv /\ [MessagesNext]_<<part, vars, unlockVars, wardenVars>> => [Lifts]_W!vars
  <2>1. UNCHANGED wardenVars => UNCHANGED W!vars
    BY DEF wardenVars, W!vars, W!bounds
  <2> QED
    BY <2>1, StepLifts DEF MessagesNext
<1>2. [][Lifts]_W!vars => FaultsOpenNothing
  BY DEF Lifts, FaultsOpenNothing, W!FaultsOpenNothing
<1> QED
  BY <1>1, <1>2, InvariantHolds, PTL DEF MessagesSpec

-----------------------------------------------------------------------------
(***************************************************************************)
(* The report of an unlock: a press is reported until a relay holds it,    *)
(* and an alert a day at most; and what a relay holds is shown once, and   *)
(* kept before the carrier forgets it.  The first rests on the journal,    *)
(* where a press has one entry whose wrap is the link's or a day newer,    *)
(* and on what a round has sent, which some relay holds whatever the       *)
(* journal does meanwhile.  The second rests on what one sweep has shown   *)
(* (SweepInv), on no read being a sweep's time after the last one          *)
(* (ReadInv), and on what this session is done with: it is shown or too    *)
(* old, and the carrier keeps it until it is stored, or a relay holds it   *)
(* (HandledShown, HandledKept).                                            *)
(***************************************************************************)
Reports == [press : B!Presses, date : Nat, build : Nat]
Entries == [press : B!Presses, wrap : Reports \cup {None}]
Counts == [B!Presses -> Nat]

UnlockTypes ==
  /\ bounds \in UnlockBounds /\ now \in Nat /\ faults \in Nat
  /\ pressed \in Nat /\ pressed <= bounds.presses
  /\ spool \subseteq Entries
  /\ round \in [todo : SUBSET Reports, sent : SUBSET Reports] \cup {None}
  /\ relays \subseteq [wrap : Reports, at : Nat]
  /\ offered \subseteq Reports /\ arrived \subseteq Reports /\ inbox \subseteq Reports
  /\ claimed \in Nat \cup {None}
  /\ lines \in Counts /\ ref \in Counts /\ saved \in Counts /\ persistedOk \in BOOLEAN
  /\ handled \subseteq Reports /\ stale \subseteq Reports /\ seen \subseteq B!Presses
  /\ queue \subseteq [wrap : Reports, needs : B!Presses \cup {None}]
  /\ sweptAt \in Nat \cup {None} /\ lastRead \in Nat \cup {None} /\ lastBlind \in Nat

\* A press has a line of its own, up to the most there are.
LEMMA PressesAre ==
  /\ B!Presses \subseteq Nat \ {0}
  /\ \A b \in UnlockBounds, p \in Nat : p < b.presses => p + 1 \in B!Presses
<1> DEFINE S == {b.presses : b \in UnlockBounds}
<1>1. S \subseteq Nat
  BY UnlockAssumption
<1>2. \E m \in S : \A k \in S : k <= m
  BY UnlockAssumption
<1>3. B!Max(S) \in S /\ \A k \in S : k <= B!Max(S)
  <2> HIDE DEF S
  <2> QED BY <1>1, <1>2 DEF B!Max
<1>4. B!Presses = 1 .. B!Max(S)
  BY DEF B!Presses
<1>5. \A b \in UnlockBounds : b.presses \in S
  OBVIOUS
<1> HIDE DEF S
<1>6. B!Max(S) \in Nat
  BY <1>1, <1>3
<1>7. B!Presses \subseteq Nat \ {0}
  BY <1>4, <1>6
<1>8. ASSUME NEW b \in UnlockBounds, NEW p \in Nat, p < b.presses
      PROVE  p + 1 \in B!Presses
  <2>1. b.presses \in Nat /\ b.presses <= B!Max(S)
    BY <1>1, <1>3, <1>5
  <2> QED BY <1>4, <1>6, <1>8, <2>1
<1> QED
  BY <1>7, <1>8

\* None is no report, no press and no time.
LEMMA NotNoReport ==
  /\ \A w \in Reports : w # None /\ w.press \in B!Presses /\ w.date \in Nat
  /\ \A n \in Int : n # None
  /\ \A p \in B!Presses : p \in Nat /\ p # None
<1>1. \A w \in Reports : w # None /\ w.press \in B!Presses /\ w.date \in Nat
  BY UnlockAssumption, PressesAre DEF Reports
<1>2. \A n \in Int : n # None
  BY NoneAssumption
<1>3. \A p \in B!Presses : p \in Nat
  BY PressesAre
<1> QED
  BY <1>1, <1>2, <1>3

\* The oldest report a round has still to publish.
LEMMA OldestIs ==
    ASSUME NEW S, S \subseteq Reports, S # {}
    PROVE  (CHOOSE w \in S : \A v \in S : w.press <= v.press) \in S
<1> DEFINE N == {w.press : w \in S}
<1>1. N \subseteq Nat /\ N # {}
  BY PressesAre DEF Reports
<1>2. PICK m \in N : \A k \in N : m <= k
  <2> HIDE DEF N
  <2> QED BY <1>1, Least
<1>3. \E w \in S : \A v \in S : w.press <= v.press
  BY <1>2
<1> QED
  BY <1>3

\* A distance is the later time less the earlier.
LEMMA DistanceIs ==
    ASSUME NEW x \in Nat, NEW y \in Nat
    PROVE  /\ B!Distance(x, y) \in Nat
           /\ x <= y => B!Distance(x, y) = y - x /\ B!Distance(y, x) = y - x
BY DEF B!Distance

\* An entry that is due gets a report of its press dated now.
LEMMA RewrappedIs ==
    ASSUME UnlockTypes, NEW e \in spool
    PROVE  /\ B!Rewrapped(e) \in Entries /\ B!Rewrapped(e).press = e.press
           /\ \/ B!Rewrapped(e) = e /\ e.wrap # None
              \/ /\ B!DueForBuild(e)
                 /\ B!Rewrapped(e).wrap = [press |-> e.press, date |-> now, build |-> faults]
<1>1. e \in Entries
  BY DEF UnlockTypes
<1>2. CASE B!DueForBuild(e)
  <2>1. [press |-> e.press, date |-> now, build |-> faults] \in Reports
    BY <1>1 DEF UnlockTypes, Entries, Reports
  <2>2. B!Rewrapped(e) = [e EXCEPT !.wrap = [press |-> e.press, date |-> now, build |-> faults]]
    BY <1>2 DEF B!Rewrapped
  <2> QED BY <1>1, <1>2, <2>1, <2>2 DEF Entries
<1>3. CASE ~B!DueForBuild(e)
  BY <1>1, <1>3 DEF B!Rewrapped, B!DueForBuild
<1> QED
  BY <1>2, <1>3

\* Which entries a flush leaves in the journal.
Flushed(builds) == IF builds THEN {B!Rewrapped(e) : e \in spool} ELSE spool

\* Every press keeps its entry, rebuilt if it was due.
LEMMA FlushedAre ==
    ASSUME UnlockTypes, NEW builds \in BOOLEAN
    PROVE  /\ Flushed(builds) \subseteq Entries
           /\ \A f \in Flushed(builds) : \E e \in spool :
                /\ f.press = e.press
                /\ \/ f = e
                   \/ /\ B!DueForBuild(e)
                      /\ f.wrap = [press |-> e.press, date |-> now, build |-> faults]
           /\ \A e \in spool : \E f \in Flushed(builds) : f.press = e.press
BY RewrappedIs DEF Flushed, UnlockTypes

-----------------------------------------------------------------------------
(* The ward: a press is reported until a relay holds it, and not every round. *)

JournalInv ==
  /\ \A e \in spool : /\ e.press <= pressed
                      /\ e.wrap # None => e.wrap.press = e.press /\ e.wrap.date <= now
  /\ \A e, f \in spool : e.press = f.press => e = f

RoundInv ==
  round # None => /\ \A w \in round.todo : w.date <= now
                  /\ \A w \in round.sent : B!OnRelay(w)

\* What the link was offered is the journal's, or a day older than it.
OfferedInv ==
  \A w \in offered :
    /\ w.press <= pressed /\ w.date <= now
    /\ \A e \in spool : e.press = w.press =>
         e.wrap # None /\ (e.wrap = w \/ e.wrap.date - w.date > Rebuild)

RelaysInv == \A r \in relays : r.at <= now /\ r.wrap.date <= now

WardInv == JournalInv /\ RoundInv /\ OfferedInv /\ RelaysInv /\ B!UnlockIsLoud

\* A flush leaves one entry of a press.
LEMMA FlushedAlike ==
    ASSUME UnlockTypes, JournalInv, NEW builds \in BOOLEAN
    PROVE  \A e, f \in Flushed(builds) : e.press = f.press => e = f
<1>1. CASE builds
  <2> SUFFICES ASSUME NEW e \in spool, NEW f \in spool, B!Rewrapped(e).press = B!Rewrapped(f).press
               PROVE  B!Rewrapped(e) = B!Rewrapped(f)
    BY <1>1 DEF Flushed
  <2>1. e.press = f.press
    BY RewrappedIs
  <2> QED BY <2>1 DEF JournalInv
<1>2. CASE ~builds
  BY <1>2 DEF Flushed, JournalInv
<1> QED
  BY <1>1, <1>2

\* A press is a new number, so its entry is its only one.
LEMMA PressKeeps ==
    ASSUME UnlockTypes, WardInv, NEW lands \in BOOLEAN, B!Press(lands)
    PROVE  WardInv'
<1>1. /\ pressed' = pressed + 1 /\ pressed + 1 \in B!Presses
      /\ spool' = IF lands THEN spool \cup {[press |-> pressed + 1, wrap |-> None]} ELSE spool
      /\ journaled' = IF lands THEN journaled \cup {pressed + 1} ELSE journaled
      /\ UNCHANGED <<now, round, offered, relays>>
  BY PressesAre DEF B!Press, UnlockTypes
<1>2. spool' \subseteq Entries /\ pressed \in Nat
  BY <1>1 DEF UnlockTypes, Entries
<1>3. \A e \in spool' : e \in spool \/ (e.press = pressed + 1 /\ e.wrap = None)
  BY <1>1
<1>4. JournalInv'
  <2>1. \A e \in spool' : e.press \in Nat
    BY <1>2, PressesAre DEF Entries
  <2>2. \A e \in spool : e.press <= pressed
    BY DEF WardInv, JournalInv
  <2>3. \A e \in spool' : /\ e.press <= pressed + 1
                          /\ e.wrap # None => e.wrap.press = e.press /\ e.wrap.date <= now
    BY <1>2, <1>3, <2>1 DEF WardInv, JournalInv
  <2>4. \A e, f \in spool' : e.press = f.press => e = f
    <3> SUFFICES ASSUME NEW e \in spool', NEW f \in spool', e.press = f.press
                 PROVE  e = f
      OBVIOUS
    <3>1. CASE e \in spool /\ f \in spool
      BY <3>1 DEF WardInv, JournalInv
    <3>2. CASE e \notin spool /\ f \notin spool
      BY <1>1, <3>2
    <3>3. CASE (e \in spool) # (f \in spool)
      BY <1>2, <1>3, <2>1, <2>2, <3>3
    <3> QED BY <3>1, <3>2, <3>3
  <2> QED BY <1>1, <2>3, <2>4 DEF JournalInv
<1>5. RoundInv' /\ RelaysInv'
  BY <1>1 DEF WardInv, RoundInv, RelaysInv, B!OnRelay
<1>6. OfferedInv'
  <2> SUFFICES ASSUME NEW w \in offered
               PROVE  /\ w.press <= pressed + 1 /\ w.date <= now
                      /\ \A e \in spool' : e.press = w.press =>
                           e.wrap # None /\ (e.wrap = w \/ e.wrap.date - w.date > Rebuild)
    BY <1>1 DEF OfferedInv
  <2>1. w.press \in Nat /\ w.press <= pressed
    BY PressesAre DEF UnlockTypes, Reports, WardInv, OfferedInv
  <2> QED BY <1>2, <1>3, <2>1 DEF WardInv, OfferedInv
<1>7. B!UnlockIsLoud'
  <2>1. B!StaysUntilSent'
    <3> SUFFICES ASSUME NEW p \in journaled'
                 PROVE  (\E e \in spool' : e.press = p) \/ (\E r \in relays' : r.wrap.press = p)
      BY DEF B!StaysUntilSent
    <3>1. CASE p \in journaled
      BY <1>1, <3>1 DEF WardInv, B!UnlockIsLoud, B!StaysUntilSent
    <3>2. CASE p \notin journaled
      <4>1. p = pressed + 1 /\ [press |-> pressed + 1, wrap |-> None] \in spool'
        BY <1>1, <3>2
      <4> QED BY <4>1
    <3> QED BY <3>1, <3>2
  <2>2. B!OneAlertADay'
    BY <1>1 DEF WardInv, B!UnlockIsLoud, B!OneAlertADay, B!Distance
  <2> QED BY <2>1, <2>2 DEF B!UnlockIsLoud
<1> QED
  BY <1>4, <1>5, <1>6, <1>7 DEF WardInv

\* A flush offers the link a wrap only when the journal holds it.
LEMMA FlushKeeps ==
    ASSUME UnlockTypes, WardInv, NEW builds \in BOOLEAN, NEW lands \in BOOLEAN, B!Flush(builds, lands)
    PROVE  WardInv'
<1> DEFINE next == Flushed(builds)
           new == {e.wrap : e \in next} \ {e.wrap : e \in spool}
<1>1. /\ spool' = IF lands THEN next ELSE spool
      /\ offered' = IF lands THEN offered \cup new ELSE offered
      /\ round' = [todo |-> {w \in {e.wrap : e \in next} : w # None /\ B!Fresh(w)}, sent |-> {}]
      /\ UNCHANGED <<now, pressed, journaled, relays>>
  BY DEF B!Flush, Flushed, B!Offered
<1>2. /\ next \subseteq Entries
      /\ \A f \in next : \E e \in spool :
           /\ f.press = e.press
           /\ \/ f = e
              \/ /\ B!DueForBuild(e)
                 /\ f.wrap = [press |-> e.press, date |-> now, build |-> faults]
      /\ \A e \in spool : \E f \in next : f.press = e.press
  BY FlushedAre
<1> HIDE DEF next
<1>3. /\ \A e \in next : /\ e.press <= pressed
                         /\ e.wrap # None => e.wrap.press = e.press /\ e.wrap.date <= now
      /\ now \in Nat
  <2>1. now \in Nat
    BY DEF UnlockTypes
  <2>2. ASSUME NEW f \in next
        PROVE  f.press <= pressed /\ (f.wrap # None => f.wrap.press = f.press /\ f.wrap.date <= now)
    <3>1. PICK e \in spool : /\ f.press = e.press
             /\ \/ f = e
                \/ /\ B!DueForBuild(e)
                   /\ f.wrap = [press |-> e.press, date |-> now, build |-> faults]
      BY <1>2
    <3>2. e.press <= pressed /\ (e.wrap # None => e.wrap.press = e.press /\ e.wrap.date <= now)
      BY DEF WardInv, JournalInv
    <3> QED BY <2>1, <3>1, <3>2
  <2> QED BY <2>1, <2>2
<1>4. \A e, f \in next : e.press = f.press => e = f
  BY FlushedAlike DEF next, WardInv
<1>5. new \subseteq Reports /\ \A w \in new : w.date = now /\ w.press <= pressed
  <2> SUFFICES ASSUME NEW f \in next, f.wrap \notin {e.wrap : e \in spool}
               PROVE  f.wrap \in Reports /\ f.wrap.date = now /\ f.wrap.press <= pressed
    OBVIOUS
  <2>1. PICK e \in spool : /\ f.press = e.press
           /\ \/ f = e
              \/ /\ B!DueForBuild(e)
                 /\ f.wrap = [press |-> e.press, date |-> now, build |-> faults]
    BY <1>2
  <2>2. f.wrap = [press |-> e.press, date |-> now, build |-> faults] /\ e.press <= pressed
    BY <2>1 DEF WardInv, JournalInv
  <2>3. e.press \in B!Presses
    BY DEF UnlockTypes, Entries
  <2> QED BY <2>2, <2>3 DEF UnlockTypes, Reports
<1>6. \A f \in next, w \in offered : f.press = w.press =>
        /\ f.wrap # None
        /\ f.wrap = w \/ f.wrap.date - w.date > Rebuild
  <2> SUFFICES ASSUME NEW f \in next, NEW w \in offered, f.press = w.press
               PROVE  f.wrap # None /\ (f.wrap = w \/ f.wrap.date - w.date > Rebuild)
    OBVIOUS
  <2>1. PICK e \in spool : /\ f.press = e.press
           /\ \/ f = e
              \/ /\ B!DueForBuild(e)
                 /\ f.wrap = [press |-> e.press, date |-> now, build |-> faults]
    BY <1>2
  <2>2. e.wrap # None /\ (e.wrap = w \/ e.wrap.date - w.date > Rebuild) /\ e.wrap.date <= now
    BY <2>1 DEF WardInv, OfferedInv, JournalInv
  <2>3. CASE f = e
    BY <2>2, <2>3
  <2>4. CASE B!DueForBuild(e) /\ f.wrap = [press |-> e.press, date |-> now, build |-> faults]
    <3>1. e.wrap \in Reports /\ w \in Reports
      BY <2>2 DEF UnlockTypes, Entries
    <3>2. e.wrap.date \in Nat /\ w.date \in Nat /\ now \in Nat /\ Rebuild \in Nat
      BY <3>1, UnlockAssumption DEF Reports, UnlockTypes
    <3>3. now - e.wrap.date > Rebuild
      BY <2>2, <2>4, <3>2, DistanceIs DEF B!DueForBuild
    <3>4. f.wrap.date = now
      BY <2>4
    <3>5. f.wrap # None
      <4>1. e.press \in B!Presses
        BY DEF UnlockTypes, Entries
      <4>2. f.wrap \in Reports
        BY <2>4, <4>1 DEF UnlockTypes, Reports
      <4> QED BY <4>2, NotNoReport
    <3> QED BY <2>2, <3>2, <3>3, <3>4, <3>5
  <2> QED BY <2>1, <2>3, <2>4
<1>7. JournalInv'
  BY <1>1, <1>3, <1>4 DEF WardInv, JournalInv
<1>8. RoundInv' /\ RelaysInv'
  <2>1. \A w \in round'.todo : w.date <= now
    BY <1>1, <1>3
  <2>2. round'.sent = {}
    BY <1>1
  <2> QED BY <1>1, <2>1, <2>2 DEF WardInv, RoundInv, RelaysInv
<1>9. ASSUME NEW w \in new, lands
      PROVE  /\ \A e \in next : e.press = w.press => e.wrap = w
             /\ \A v \in offered : v.press = w.press => v = w \/ w.date - v.date > Rebuild
  <2>1. PICK f \in next : w = f.wrap
    OBVIOUS
  <2>2. f.press = w.press
    BY <1>3, <1>5, <2>1, NotNoReport
  <2> QED BY <1>4, <1>6, <2>1, <2>2
<1> HIDE DEF new
<1>10. OfferedInv'
  <2> SUFFICES ASSUME NEW w \in offered'
               PROVE  /\ w.press <= pressed /\ w.date <= now
                      /\ \A e \in spool' : e.press = w.press =>
                           e.wrap # None /\ (e.wrap = w \/ e.wrap.date - w.date > Rebuild)
    BY <1>1 DEF OfferedInv
  <2>1. CASE w \in offered
    <3>1. w.press <= pressed /\ w.date <= now
      BY <2>1 DEF WardInv, OfferedInv
    <3> QED BY <1>1, <1>6, <2>1, <3>1 DEF WardInv, OfferedInv
  <2>2. CASE w \in new /\ lands
    <3>1. w \in Reports /\ w # None
      BY <1>5, <2>2, NotNoReport
    <3> QED BY <1>1, <1>3, <1>5, <1>9, <2>2, <3>1
  <2> QED BY <1>1, <2>1, <2>2
<1>11. B!StaysUntilSent'
  <2> SUFFICES ASSUME NEW p \in journaled
               PROVE  (\E e \in spool' : e.press = p) \/ (\E r \in relays : r.wrap.press = p)
    BY <1>1 DEF B!StaysUntilSent
  <2> QED BY <1>1, <1>2 DEF WardInv, B!UnlockIsLoud, B!StaysUntilSent
<1>12. B!OneAlertADay'
  <2> SUFFICES ASSUME NEW w \in offered', NEW v \in offered', w.press = v.press, w # v
               PROVE  B!Distance(w.date, v.date) > Rebuild
    BY DEF B!OneAlertADay, B!Distance
  <2>0. /\ w \in Reports /\ v \in Reports /\ Rebuild \in Nat
        /\ w.date \in Nat /\ v.date \in Nat
    BY <1>1, <1>5, UnlockAssumption DEF UnlockTypes, Reports
  <2>1. CASE w \in offered /\ v \in offered
    BY <2>1 DEF WardInv, B!UnlockIsLoud, B!OneAlertADay
  <2>2. CASE w \in new /\ lands /\ v \in offered
    <3>1. w.date - v.date > Rebuild
      BY <1>9, <2>2
    <3>2. v.date <= w.date
      BY <2>0, <3>1
    <3>3. B!Distance(w.date, v.date) = w.date - v.date
      BY <2>0, <3>2, DistanceIs
    <3> QED BY <3>1, <3>3
  <2>3. CASE v \in new /\ lands /\ w \in offered
    <3>1. v.date - w.date > Rebuild
      BY <1>9, <2>3
    <3>2. w.date <= v.date
      BY <2>0, <3>1
    <3>3. B!Distance(w.date, v.date) = v.date - w.date
      BY <2>0, <3>2, DistanceIs
    <3> QED BY <3>1, <3>3
  <2>4. CASE w \in new /\ v \in new /\ lands
    <3>1. PICK f \in next : v = f.wrap
      BY <2>4 DEF new
    <3>2. f.press = v.press
      BY <1>3, <2>0, <3>1, NotNoReport
    <3> QED BY <1>9, <2>4, <3>1, <3>2
  <2> QED BY <1>1, <2>1, <2>2, <2>3, <2>4
<1> QED
  BY <1>7, <1>8, <1>10, <1>11, <1>12 DEF WardInv, B!UnlockIsLoud

\* What a publish takes is one of the round's, and the rest stays to be published.
LEMMA PublishIs ==
    ASSUME UnlockTypes, NEW held \in BOOLEAN, NEW accepted \in BOOLEAN, B!Publish(held, accepted)
    PROVE  \E w \in round.todo :
             /\ w \in Reports /\ (accepted => held)
             /\ relays' = IF held /\ ~B!OnRelay(w) THEN relays \cup {[wrap |-> w, at |-> now]}
                          ELSE relays
             /\ round \in [todo : SUBSET Reports, sent : SUBSET Reports]
             /\ round' \in [todo : SUBSET Reports, sent : SUBSET Reports]
             /\ round'.todo \subseteq round.todo
             /\ round'.sent = IF accepted THEN round.sent \cup {w} ELSE round.sent
<1> DEFINE w == CHOOSE w \in round.todo : \A v \in round.todo : w.press <= v.press
<1>1. /\ round # None /\ round.todo # {} /\ (accepted => held)
      /\ relays' = IF held /\ ~B!OnRelay(w) THEN relays \cup {[wrap |-> w, at |-> now]} ELSE relays
      /\ round' = [todo |-> IF accepted THEN round.todo \ {w} ELSE {},
                   sent |-> IF accepted THEN round.sent \cup {w} ELSE round.sent]
  BY DEF B!Publish
<1>2. round \in [todo : SUBSET Reports, sent : SUBSET Reports]
  BY <1>1 DEF UnlockTypes
<1>3. w \in round.todo
  <2>1. round.todo \subseteq Reports
    BY <1>2
  <2> QED BY <1>1, <2>1, OldestIs
<1> HIDE DEF w
<1> QED
  BY <1>1, <1>2, <1>3

\* What a round has sent is on a relay.
LEMMA PublishKeeps ==
    ASSUME UnlockTypes, WardInv, NEW held \in BOOLEAN, NEW accepted \in BOOLEAN,
           B!Publish(held, accepted)
    PROVE  WardInv'
<1>1. PICK w \in round.todo :
        /\ w \in Reports /\ (accepted => held)
        /\ relays' = IF held /\ ~B!OnRelay(w) THEN relays \cup {[wrap |-> w, at |-> now]} ELSE relays
        /\ round'.todo \subseteq round.todo
        /\ round'.sent = IF accepted THEN round.sent \cup {w} ELSE round.sent
  BY PublishIs
<1>2. UNCHANGED <<now, pressed, journaled, spool, offered>> /\ round # None /\ now \in Nat
  BY DEF B!Publish, UnlockTypes
<1>3. relays \subseteq relays' /\ (held => \E r \in relays' : r.wrap = w)
  <2>1. CASE held /\ ~B!OnRelay(w)
    <3>1. [wrap |-> w, at |-> now] \in relays'
      BY <1>1, <2>1
    <3> QED BY <1>1, <2>1, <3>1
  <2>2. CASE ~(held /\ ~B!OnRelay(w))
    BY <1>1, <2>2 DEF B!OnRelay
  <2> QED BY <2>1, <2>2
<1>4. JournalInv' /\ OfferedInv'
  BY <1>2 DEF WardInv, JournalInv, OfferedInv
<1>5. RoundInv'
  BY <1>1, <1>2, <1>3 DEF WardInv, RoundInv, B!OnRelay
<1>6. RelaysInv'
  <2>1. w.date <= now
    BY <1>2 DEF WardInv, RoundInv
  <2> QED BY <1>1, <1>2, <2>1 DEF WardInv, RelaysInv
<1>7. B!UnlockIsLoud'
  BY <1>2, <1>3 DEF WardInv, B!UnlockIsLoud, B!StaysUntilSent, B!OneAlertADay, B!Distance
<1> QED
  BY <1>4, <1>5, <1>6, <1>7 DEF WardInv

\* The journal loses an entry only when its wrap is on a relay.
LEMMA MarkSentKeeps ==
    ASSUME UnlockTypes, WardInv, NEW lands \in BOOLEAN, B!MarkSent(lands)
    PROVE  WardInv'
<1>1. /\ round # None /\ round' = None /\ UNCHANGED <<now, pressed, journaled, offered, relays>>
      /\ spool' \subseteq spool
      /\ \A e \in spool \ spool' : e.wrap \in round.sent
  BY DEF B!MarkSent, B!Unsent
<1>2. JournalInv' /\ OfferedInv'
  BY <1>1 DEF WardInv, JournalInv, OfferedInv
<1>3. RoundInv' /\ RelaysInv'
  BY <1>1 DEF WardInv, RoundInv, RelaysInv
<1>4. B!StaysUntilSent'
  <2> SUFFICES ASSUME NEW p \in journaled, ~\E r \in relays : r.wrap.press = p
               PROVE  \E e \in spool' : e.press = p
    BY <1>1 DEF B!StaysUntilSent
  <2>1. PICK e \in spool : e.press = p
    BY DEF WardInv, B!UnlockIsLoud, B!StaysUntilSent
  <2>2. CASE e \in spool'
    BY <2>1, <2>2
  <2>3. CASE e \notin spool'
    <3>1. e.wrap \in round.sent /\ round.sent \subseteq Reports
      BY <1>1, <2>3 DEF UnlockTypes
    <3>2. e.wrap.press = p
      BY <2>1, <3>1, NotNoReport DEF WardInv, JournalInv
    <3>3. B!OnRelay(e.wrap)
      BY <1>1, <3>1 DEF WardInv, RoundInv
    <3> QED BY <3>2, <3>3 DEF B!OnRelay
  <2> QED BY <2>2, <2>3
<1>5. B!OneAlertADay'
  BY <1>1 DEF WardInv, B!UnlockIsLoud, B!OneAlertADay, B!Distance
<1> QED
  BY <1>2, <1>3, <1>4, <1>5 DEF WardInv, B!UnlockIsLoud

\* Whatever else happens leaves the ward's reports as they are, though time may pass.
LEMMA WardRests ==
    ASSUME UnlockTypes, WardInv, now' \in Nat, now <= now', round' \in {round, None},
           UNCHANGED <<pressed, journaled, spool, offered, relays>>
    PROVE  WardInv'
<1>0. /\ now \in Nat /\ \A w \in Reports : w.date \in Nat
      /\ \A r \in relays : r.at \in Nat /\ r.wrap \in Reports
  BY NotNoReport DEF UnlockTypes
<1>1. JournalInv'
  <2> SUFFICES ASSUME NEW e \in spool, e.wrap # None
               PROVE  e.wrap.press = e.press /\ e.wrap.date <= now'
    BY DEF WardInv, JournalInv
  <2>1. e.wrap \in Reports /\ e.wrap.press = e.press /\ e.wrap.date <= now
    BY DEF UnlockTypes, Entries, WardInv, JournalInv
  <2> QED BY <1>0, <2>1
<1>2. OfferedInv'
  <2> SUFFICES ASSUME NEW w \in offered
               PROVE  w.date <= now'
    BY DEF WardInv, OfferedInv
  <2>1. w \in Reports /\ w.date <= now
    BY DEF UnlockTypes, WardInv, OfferedInv
  <2> QED BY <1>0, <2>1
<1>3. RoundInv'
  <2> SUFFICES ASSUME round # None, round' = round
               PROVE  /\ \A w \in round.todo : w.date <= now'
                      /\ \A w \in round.sent : B!OnRelay(w)'
    BY DEF RoundInv
  <2>1. \A w \in round.todo : w \in Reports /\ w.date <= now
    BY DEF UnlockTypes, WardInv, RoundInv
  <2>2. \A w \in round.sent : B!OnRelay(w)'
    BY DEF WardInv, RoundInv, B!OnRelay
  <2> QED BY <1>0, <2>1, <2>2
<1>4. RelaysInv'
  BY <1>0 DEF WardInv, RelaysInv
<1>5. B!UnlockIsLoud'
  BY DEF WardInv, B!UnlockIsLoud, B!StaysUntilSent, B!OneAlertADay, B!Distance
<1> QED
  BY <1>1, <1>2, <1>3, <1>4, <1>5 DEF WardInv

\* Every step keeps the ward's invariant.
LEMMA WardStep ==
    ASSUME UnlockTypes, WardInv, B!Next \/ UNCHANGED unlockVars
    PROVE  WardInv'
<1>0. now \in Nat
  BY DEF UnlockTypes
<1>1. CASE \E lands \in BOOLEAN : B!Press(lands) \/ B!MarkSent(lands)
  BY <1>1, PressKeeps, MarkSentKeeps
<1>2. CASE \/ \E builds \in BOOLEAN, lands \in BOOLEAN : B!Flush(builds, lands)
           \/ \E held \in BOOLEAN, accepted \in BOOLEAN : B!Publish(held, accepted)
  BY <1>2, FlushKeeps, PublishKeeps
<1>3. CASE B!Crash \/ (\E w \in offered : B!Arrive(w))
  BY <1>0, <1>3, WardRests DEF B!Crash, B!Arrive, B!wardVars
<1>4. CASE \E forced \in BOOLEAN, reaches \in BOOLEAN : B!Read(forced, reaches)
  BY <1>0, <1>4, WardRests DEF B!Read, B!wardVars
<1>5. CASE B!Drain \/ (\E ok \in BOOLEAN : B!Persist(ok))
  <2>1. UNCHANGED <<now, B!wardVars, relays>>
    BY <1>5, Zenon DEF B!Drain, B!Persist
  <2> QED BY <1>0, <2>1, WardRests DEF B!wardVars
<1>6. CASE B!Reload \/ B!Claim
  <2>1. UNCHANGED <<now, B!wardVars, relays>>
    BY <1>6 DEF B!Reload, B!Claim
  <2> QED BY <1>0, <2>1, WardRests DEF B!wardVars
<1>7. CASE B!Tick
  BY <1>0, <1>7, WardRests DEF B!Tick, B!wardVars
<1>8. CASE UNCHANGED unlockVars
  BY <1>0, <1>8, WardRests DEF unlockVars
<1> QED
  BY <1>1, <1>2, <1>3, <1>4, <1>5, <1>6, <1>7, <1>8 DEF B!Next

-----------------------------------------------------------------------------
(* The app: a report is in the Activity, once. *)

\* A wrap comes from the journal, by the link or not, and nothing is from later than now.
OriginInv ==
  /\ inbox \subseteq arrived /\ arrived \subseteq offered
  /\ claimed # None => claimed <= now
  /\ sweptAt # None => sweptAt <= now
  /\ lastBlind <= now

\* What the state, the last effect's and the storage's lines are to one another and to the
\* presses this session knows of.
LinesInv ==
  /\ \A p \in B!Presses :
       /\ lines[p] <= 1 /\ ref[p] <= lines[p] /\ saved[p] <= lines[p]
       /\ lines[p] > 0 => B!Held(p)
  /\ \A p \in seen : lines[p] > 0
  /\ persistedOk => ref = saved

\* A wrap this session is done with has its line, or was too old to be opened.
HandledShown == \A w \in handled : lines[w.press] > 0 \/ w.date + Jitter < now

\* And the carrier keeps it until its line is in storage, unless a relay holds it.
Excused(w) == B!OnRelay(w) \/ w \in stale
QueueInv == \A e \in queue : e.needs = e.wrap.press \/ (e.needs = None /\ Excused(e.wrap))
HandledKept ==
  \A w \in handled :
    \/ Excused(w)
    \/ w \in arrived /\ (w \in inbox => \E e \in queue : e.wrap = w /\ e.needs = w.press)

\* A sweep that reached the relays has shown what was there.
SweepInv ==
  sweptAt # None /\ claimed # None /\ claimed < sweptAt /\ lastBlind < sweptAt =>
    \A r \in relays :
      r.at < sweptAt /\ r.wrap.date >= sweptAt - Floor => lines[r.wrap.press] > 0
ReadInv == lastRead # None => sweptAt # None /\ lastRead < sweptAt + Sweep

AppInv ==
  /\ OriginInv /\ LinesInv /\ HandledShown /\ QueueInv /\ HandledKept /\ B!ForgottenIsKept
  /\ SweepInv /\ ReadInv

-----------------------------------------------------------------------------
(* What taking in a set of wraps does, and what waits for the carrier. *)

\* What taking in a set of wraps makes of a press's line and of the wraps.
Takes(wraps) ==
  /\ lines' \in Counts /\ seen' \subseteq B!Presses
  /\ handled' \subseteq handled \cup wraps /\ handled \subseteq handled'
  /\ stale' \subseteq stale \cup wraps /\ stale \subseteq stale'
  /\ \A p \in B!Presses : /\ lines[p] <= lines'[p] /\ lines'[p] <= 1
                          /\ lines'[p] > 0 => p \in seen' \/ ref[p] > 0
  /\ \A p \in seen' : lines'[p] > 0
  /\ \A w \in wraps \ handled :
       /\ w \in handled' => ~B!Fresh(w) \/ lines'[w.press] > 0
       /\ ~B!Fresh(w) => w \in stale'
       /\ claimed # None => w \in handled'

\* Taking in keeps a press to one line, and shows the fresh wraps of a known device.
LEMMA TakeIs ==
    ASSUME UnlockTypes, LinesInv, NEW wraps \in SUBSET Reports, B!Take(wraps)
    PROVE  Takes(wraps)
<1> DEFINE open == {w \in wraps \ handled : B!Fresh(w)}
<1>1. /\ lines' = [p \in B!Presses |-> lines[p] + B!NewLines(open, p)]
      /\ seen' = IF claimed = None THEN seen
                 ELSE seen \cup {w.press : w \in {v \in open : ~B!Held(v.press)}}
      /\ handled' = handled \cup (wraps \ B!Unlanded(wraps))
      /\ stale' = stale \cup ((wraps \ handled) \ open)
  BY DEF B!Take
<1>2. \A p : B!NewLines(open, p) =
         IF claimed = None \/ B!Held(p) \/ \A w \in open : w.press # p THEN 0 ELSE 1
  BY DEF B!NewLines
<1>3. open \subseteq Reports /\ lines \in Counts /\ seen \subseteq B!Presses
  BY DEF UnlockTypes
<1>4. \A w \in open : w.press \in B!Presses
  BY <1>3 DEF Reports
<1>5. ASSUME NEW p \in B!Presses
      PROVE  /\ lines'[p] = lines[p] + B!NewLines(open, p) /\ lines[p] \in Nat
             /\ B!NewLines(open, p) \in {0, 1}
             /\ lines[p] = 0 \/ (lines[p] = 1 /\ B!Held(p))
  BY <1>1, <1>2, <1>3 DEF Counts, LinesInv
<1>6. lines' \in Counts
  BY <1>1, <1>5 DEF Counts
<1>a. /\ claimed # None => \A w \in open : ~B!Held(w.press) => w.press \in seen'
      /\ seen \subseteq seen'
      /\ \A p \in seen' \ seen : claimed # None /\ ~B!Held(p) /\ \E w \in open : w.press = p
  BY <1>1
<1>7. ASSUME NEW p \in B!Presses
      PROVE  /\ lines[p] <= lines'[p] /\ lines'[p] <= 1
             /\ lines'[p] > 0 => p \in seen' \/ ref[p] > 0
             /\ p \in seen' => lines'[p] > 0
  <2> HIDE DEF open
  <2>1. CASE claimed = None \/ B!Held(p) \/ \A w \in open : w.press # p
    <3>0. B!NewLines(open, p) = 0
      BY <1>2, <2>1
    <3>1. lines'[p] = lines[p] /\ lines[p] \in Nat
      BY <1>5, <3>0
    <3>2. p \in seen' => p \in seen
      BY <1>a, <2>1
    <3>3. p \in seen => lines[p] > 0
      BY DEF LinesInv
    <3>4. lines[p] > 0 => p \in seen \/ ref[p] > 0
      BY DEF LinesInv, B!Held
    <3>5. lines[p] <= 1
      BY <1>5
    <3> QED BY <1>a, <3>1, <3>2, <3>3, <3>4, <3>5
  <2>2. CASE ~(claimed = None \/ B!Held(p) \/ \A w \in open : w.press # p)
    <3>0. B!NewLines(open, p) = 1
      BY <1>2, <2>2
    <3>1. lines'[p] = 1 /\ lines[p] = 0
      BY <1>5, <2>2, <3>0
    <3>2. p \in seen'
      BY <1>a, <2>2
    <3> QED BY <3>1, <3>2
  <2> QED BY <2>1, <2>2
<1>8. seen' \subseteq B!Presses
  BY <1>1, <1>3, <1>4
<1>9. ASSUME NEW w \in wraps \ handled
      PROVE  /\ w \in handled' => ~B!Fresh(w) \/ lines'[w.press] > 0
             /\ ~B!Fresh(w) => w \in stale'
             /\ claimed # None => w \in handled'
  <2>1. ~B!Fresh(w) => w \in stale'
    BY <1>1
  <2>2. claimed # None => w \in handled'
    BY <1>1 DEF B!Unlanded
  <2>3. ASSUME w \in handled', B!Fresh(w)
        PROVE  lines'[w.press] > 0
    <3>1. w \in open /\ w.press \in B!Presses
      BY <1>4, <2>3
    <3>2. CASE B!Held(w.press)
      <4>1. lines[w.press] > 0
        <5>1. ref[w.press] \in Nat /\ lines[w.press] \in Nat
          BY <3>1 DEF UnlockTypes, Counts
        <5> QED BY <3>1, <3>2, <5>1 DEF B!Held, LinesInv
      <4>2. lines'[w.press] \in Nat /\ lines[w.press] \in Nat
        BY <1>3, <1>6, <3>1 DEF Counts
      <4> QED BY <1>7, <3>1, <4>1, <4>2
    <3>3. CASE ~B!Held(w.press)
      <4>1. claimed # None
        BY <1>1, <2>3, <3>3 DEF B!Unlanded
      <4>2. w.press \in seen'
        BY <1>1, <3>1, <3>3, <4>1
      <4> QED BY <1>7, <3>1, <4>2
    <3> QED BY <3>2, <3>3
  <2> QED BY <2>1, <2>2, <2>3
<1> HIDE DEF open
<1>10. /\ handled' \subseteq handled \cup wraps /\ handled \subseteq handled'
       /\ stale' \subseteq stale \cup wraps /\ stale \subseteq stale'
  BY <1>1
<1> QED
  BY <1>6, <1>7, <1>8, <1>9, <1>10 DEF Takes

Done == inbox \ B!Unlanded(inbox)

\* What waits after the app has gone through its inbox.
LEMMA QueuedAre ==
    /\ \A e \in B!Queued :
         \/ e \in queue /\ (e.needs # None \/ e.wrap \notin Done)
         \/ \E w \in Done :
              /\ e = [wrap |-> w, needs |-> IF w \in handled \/ ~B!Fresh(w) THEN None ELSE w.press]
              /\ \A f \in queue : f.needs # None => f.wrap # w
    /\ \A e \in queue : e.needs # None => e \in B!Queued
    /\ \A w \in Done : \E e \in B!Queued : e.wrap = w
<1> DEFINE need == [w \in Done |-> IF w \in handled \/ ~B!Fresh(w) THEN None ELSE w.press]
           kept == {e \in queue : e.needs # None \/ e.wrap \notin Done}
           new == {v \in Done : \A e \in kept : e.wrap # v}
<1>1. B!Queued = kept \cup {[wrap |-> w, needs |-> need[w]] : w \in new}
  BY DEF B!Queued, Done
<1>2. \A w \in new : need[w] = IF w \in handled \/ ~B!Fresh(w) THEN None ELSE w.press
  OBVIOUS
<1>3. \A w \in new : w \in Done /\ \A f \in queue : f.needs # None => f.wrap # w
  OBVIOUS
<1>4. \A w \in Done : w \in new \/ \E e \in kept : e.wrap = w
  OBVIOUS
<1>5. \A w \in new : [wrap |-> w, needs |-> need[w]].wrap = w
  OBVIOUS
<1>6. kept \subseteq queue /\ \A e \in kept : e.needs # None \/ e.wrap \notin Done
  OBVIOUS
<1>7. \A e \in queue : e.needs # None => e \in kept
  OBVIOUS
<1> HIDE DEF need, kept, new
<1>8. ASSUME NEW e \in B!Queued
      PROVE  \/ e \in queue /\ (e.needs # None \/ e.wrap \notin Done)
             \/ \E w \in Done :
                  /\ e = [wrap |-> w, needs |-> IF w \in handled \/ ~B!Fresh(w) THEN None ELSE w.press]
                  /\ \A f \in queue : f.needs # None => f.wrap # w
  <2>1. CASE e \in kept
    BY <1>6, <2>1
  <2>2. CASE e \notin kept
    <3>1. PICK w \in new : e = [wrap |-> w, needs |-> need[w]]
      BY <1>1, <1>8, <2>2
    <3>2. e = [wrap |-> w, needs |-> IF w \in handled \/ ~B!Fresh(w) THEN None ELSE w.press]
      BY <1>2, <3>1
    <3>3. w \in Done /\ \A f \in queue : f.needs # None => f.wrap # w
      BY <1>3
    <3> QED BY <3>2, <3>3
  <2> QED BY <2>1, <2>2
<1>9. \A e \in queue : e.needs # None => e \in B!Queued
  BY <1>1, <1>7
<1>10. ASSUME NEW w \in Done PROVE \E e \in B!Queued : e.wrap = w
  <2>1. CASE w \in new
    <3>1. [wrap |-> w, needs |-> need[w]] \in B!Queued
      BY <1>1, <2>1
    <3> QED BY <1>5, <2>1, <3>1
  <2>2. CASE w \notin new
    BY <1>1, <1>4, <2>2
  <2> QED BY <2>1, <2>2
<1> QED
  BY <1>8, <1>9, <1>10

\* What waits for the carrier is a report and a press, or none.
LEMMA QueuedTypes ==
    ASSUME UnlockTypes
    PROVE  B!Queued \subseteq [wrap : Reports, needs : B!Presses \cup {None}]
<1>1. \A w \in Done : w \in Reports /\ w.press \in B!Presses
  BY DEF Done, UnlockTypes, Reports
<1> QED
  BY <1>1, QueuedAre DEF UnlockTypes

\* Every variable keeps its type.
LEMMA UnlockTypesInit == B!Init => UnlockTypes
<1>1. ASSUME NEW b \in UnlockBounds PROVE b.presses \in Nat
  BY <1>1, UnlockAssumption
<1> QED
  BY <1>1 DEF B!Init, UnlockTypes, Counts

\* A fault is counted.
LEMMA FaultTyped ==
    ASSUME faults \in Nat, NEW bad, B!FaultIf(bad)
    PROVE  faults' \in Nat
BY DEF B!FaultIf

\* The ward's steps, and the link's, keep the types.
LEMMA WardTyped ==
    ASSUME UnlockTypes, NEW c \in BOOLEAN, NEW d \in BOOLEAN,
           \/ B!Press(c) \/ B!Flush(c, d) \/ B!Publish(c, d) \/ B!MarkSent(c) \/ B!Crash
           \/ \E w \in offered : B!Arrive(w)
    PROVE  UnlockTypes'
<1>0. faults \in Nat
  BY DEF UnlockTypes
<1>1. CASE B!Press(c)
  <2>1. faults' \in Nat
    BY <1>0, <1>1, FaultTyped DEF B!Press
  <2>2. /\ pressed < bounds.presses /\ pressed' = pressed + 1
        /\ spool' = IF c THEN spool \cup {[press |-> pressed + 1, wrap |-> None]} ELSE spool
        /\ UNCHANGED <<bounds, now, round, offered, relays, arrived, inbox, B!appVars>>
    BY <1>1 DEF B!Press
  <2>3. bounds \in UnlockBounds /\ bounds.presses \in Nat /\ pressed \in Nat
    BY UnlockAssumption DEF UnlockTypes
  <2>4. pressed + 1 \in B!Presses /\ pressed' \in Nat /\ pressed' <= bounds.presses
    BY <2>2, <2>3, PressesAre
  <2>5. spool' \subseteq Entries
    BY <2>2, <2>4 DEF UnlockTypes, Entries
  <2> QED
    BY <2>1, <2>2, <2>4, <2>5 DEF UnlockTypes, B!appVars, B!stored, B!intake, B!reads
<1>2. CASE B!Flush(c, d)
  <2> DEFINE new == {e.wrap : e \in Flushed(c)} \ {e.wrap : e \in spool}
             todo == {w \in {e.wrap : e \in Flushed(c)} : w # None /\ B!Fresh(w)}
  <2>1. faults' \in Nat
    BY <1>0, <1>2, FaultTyped DEF B!Flush
  <2>2. /\ spool' = IF d THEN Flushed(c) ELSE spool
        /\ offered' = IF d THEN offered \cup new ELSE offered
        /\ round' = [todo |-> todo, sent |-> {}]
        /\ UNCHANGED <<bounds, now, pressed, relays, arrived, inbox, B!appVars>>
    BY <1>2 DEF B!Flush, Flushed, B!Offered
  <2>3. Flushed(c) \subseteq Entries
    BY FlushedAre
  <2>4. todo \subseteq Reports
    BY <2>3 DEF Entries
  <2>5. new \subseteq Reports
    <3> SUFFICES ASSUME NEW f \in Flushed(c), f.wrap \notin {e.wrap : e \in spool}
                 PROVE  f.wrap \in Reports
      OBVIOUS
    <3>1. PICK e \in spool :
             /\ f.press = e.press
             /\ \/ f = e
                \/ f.wrap = [press |-> e.press, date |-> now, build |-> faults]
      BY FlushedAre
    <3>2. e.press \in B!Presses
      BY DEF UnlockTypes, Entries
    <3> QED BY <3>1, <3>2 DEF UnlockTypes, Reports
  <2> HIDE DEF new, todo
  <2>6. round' \in [todo : SUBSET Reports, sent : SUBSET Reports]
    BY <2>2, <2>4
  <2>7. spool' \subseteq Entries /\ offered' \subseteq Reports
    BY <2>2, <2>3, <2>5 DEF UnlockTypes
  <2> QED
    BY <2>1, <2>2, <2>6, <2>7 DEF UnlockTypes, B!appVars, B!stored, B!intake, B!reads
<1>3. CASE B!Publish(c, d)
  <2>1. faults' \in Nat
    BY <1>0, <1>3, FaultTyped DEF B!Publish
  <2>2. UNCHANGED <<bounds, now, pressed, spool, offered, arrived, inbox, B!appVars>>
    BY <1>3 DEF B!Publish
  <2>3. PICK w \in round.todo :
          /\ w \in Reports
          /\ relays' = IF c /\ ~B!OnRelay(w) THEN relays \cup {[wrap |-> w, at |-> now]} ELSE relays
          /\ round' \in [todo : SUBSET Reports, sent : SUBSET Reports]
    BY <1>3, PublishIs
  <2>4. relays' \subseteq [wrap : Reports, at : Nat]
    BY <2>3 DEF UnlockTypes
  <2> QED
    BY <2>1, <2>2, <2>3, <2>4 DEF UnlockTypes, B!appVars, B!stored, B!intake, B!reads
<1>4. CASE B!MarkSent(c)
  <2>1. faults' \in Nat
    BY <1>0, <1>4, FaultTyped DEF B!MarkSent
  <2>2. /\ spool' \subseteq spool /\ round' = None
        /\ UNCHANGED <<bounds, now, pressed, offered, relays, arrived, inbox, B!appVars>>
    BY <1>4 DEF B!MarkSent, B!Unsent
  <2> QED
    BY <2>1, <2>2 DEF UnlockTypes, B!appVars, B!stored, B!intake, B!reads
<1>5. CASE B!Crash
  BY <1>5 DEF B!Crash, UnlockTypes, B!appVars, B!stored, B!intake, B!reads
<1>6. CASE \E w \in offered : B!Arrive(w)
  BY <1>6 DEF B!Arrive, UnlockTypes, B!wardVars, B!appVars, B!stored, B!intake, B!reads
<1> QED
  BY <1>1, <1>2, <1>3, <1>4, <1>5, <1>6

\* A read takes in reports, and sweeps when it is due.
LEMMA ReadIs ==
    ASSUME UnlockTypes, LinesInv, NEW forced \in BOOLEAN, NEW reaches \in BOOLEAN,
           B!Read(forced, reaches)
    PROVE  \E wraps \in SUBSET Reports :
             /\ Takes(wraps)
             /\ \A w \in wraps : B!OnRelay(w)
             /\ reaches /\ B!SweepDue(forced) =>
                  \A r \in relays : r.wrap.date >= now - Floor => r.wrap \in wraps
             /\ B!FaultIf(~reaches)
             /\ sweptAt' = IF B!SweepDue(forced) THEN now ELSE sweptAt
             /\ lastRead' = IF reaches THEN now ELSE lastRead
             /\ lastBlind' = IF reaches THEN lastBlind ELSE now
             /\ UNCHANGED <<bounds, now, B!wardVars, relays, arrived, inbox, claimed, ref, saved,
                            persistedOk, queue>>
<1> DEFINE since == IF B!SweepDue(forced) THEN now - Floor ELSE B!WindowSince
           wraps == IF reaches THEN {r.wrap : r \in {x \in relays : x.wrap.date >= since}} ELSE {}
<1>1. /\ B!Take(wraps) /\ B!FaultIf(~reaches)
      /\ sweptAt' = IF B!SweepDue(forced) THEN now ELSE sweptAt
      /\ lastRead' = IF reaches THEN now ELSE lastRead
      /\ lastBlind' = IF reaches THEN lastBlind ELSE now
      /\ UNCHANGED <<bounds, now, B!wardVars, relays, arrived, inbox, claimed, ref, saved,
                     persistedOk, queue>>
  BY Zenon DEF B!Read
<1>2. wraps \subseteq Reports /\ \A w \in wraps : B!OnRelay(w)
  BY DEF UnlockTypes, B!OnRelay
<1>3. reaches /\ B!SweepDue(forced) =>
        \A r \in relays : r.wrap.date >= now - Floor => r.wrap \in wraps
  OBVIOUS
<1> HIDE DEF wraps
<1>4. Takes(wraps)
  BY <1>1, <1>2, TakeIs
<1> QED
  BY <1>1, <1>2, <1>3, <1>4

\* What the app does with its inbox, as one set of entries the carrier may forget.
LEMMA DrainIs ==
    ASSUME UnlockTypes, LinesInv, B!Drain
    PROVE  \E ready \in SUBSET B!Queued :
             /\ Takes(inbox)
             /\ \A e \in ready : persistedOk /\ (e.needs # None => ref[e.needs] > 0)
             /\ queue' = B!Queued \ ready
             /\ inbox' = inbox \ {e.wrap : e \in ready}
             /\ handled' = handled \cup Done
             /\ UNCHANGED <<bounds, now, faults, B!wardVars, relays, arrived, claimed, ref, saved,
                            persistedOk, B!reads>>
<1> DEFINE ready == IF persistedOk THEN B!Ready(B!Queued, ref) ELSE {}
<1>1. /\ B!Take(inbox)
      /\ queue' = B!Queued \ ready
      /\ inbox' = inbox \ {e.wrap : e \in ready}
      /\ UNCHANGED <<bounds, now, faults, B!wardVars, relays, arrived, claimed, ref, saved,
                     persistedOk, B!reads>>
  BY Zenon DEF B!Drain
<1>2. ready \subseteq B!Queued /\ \A e \in ready : persistedOk /\ (e.needs # None => ref[e.needs] > 0)
  BY DEF B!Ready
<1> HIDE DEF ready
<1>3. Takes(inbox)
  BY <1>1, TakeIs DEF UnlockTypes
<1>4. handled' = handled \cup Done
  BY <1>1, Zenon DEF B!Take, Done
<1> QED
  BY <1>1, <1>2, <1>3, <1>4

\* What the effects of a change do, as one set of entries the carrier may forget.
LEMMA PersistIs ==
    ASSUME NEW ok \in BOOLEAN, B!Persist(ok)
    PROVE  \E ready \in SUBSET queue :
             /\ \A e \in ready : ok /\ (e.needs # None => lines[e.needs] > 0)
             /\ B!FaultIf(~ok)
             /\ ref' = lines /\ persistedOk' = ok /\ saved' = IF ok THEN lines ELSE saved
             /\ queue' = queue \ ready
             /\ inbox' = inbox \ {e.wrap : e \in ready}
             /\ UNCHANGED <<bounds, now, B!wardVars, relays, arrived, claimed, lines, handled, seen,
                            stale, B!reads>>
<1> DEFINE ready == IF ok THEN B!Ready(queue, lines) ELSE {}
<1>1. /\ B!FaultIf(~ok)
      /\ ref' = lines /\ persistedOk' = ok /\ saved' = IF ok THEN lines ELSE saved
      /\ queue' = queue \ ready
      /\ inbox' = inbox \ {e.wrap : e \in ready}
      /\ UNCHANGED <<bounds, now, B!wardVars, relays, arrived, claimed, lines, handled, seen,
                     stale, B!reads>>
  BY Zenon DEF B!Persist
<1>2. ready \subseteq queue /\ \A e \in ready : ok /\ (e.needs # None => lines[e.needs] > 0)
  BY DEF B!Ready
<1> HIDE DEF ready
<1> QED
  BY <1>1, <1>2

\* The app's steps, and the clock's, keep the types.
LEMMA AppTyped ==
    ASSUME UnlockTypes, LinesInv, NEW c \in BOOLEAN, NEW d \in BOOLEAN,
           \/ B!Read(c, d) \/ B!Drain \/ B!Persist(c) \/ B!Reload \/ B!Claim \/ B!Tick
    PROVE  UnlockTypes'
<1>0. faults \in Nat
  BY DEF UnlockTypes
<1>1. CASE B!Read(c, d)
  <2>1. PICK wraps \in SUBSET Reports :
          /\ Takes(wraps) /\ B!FaultIf(~d)
          /\ sweptAt' = IF B!SweepDue(c) THEN now ELSE sweptAt
          /\ lastRead' = IF d THEN now ELSE lastRead
          /\ lastBlind' = IF d THEN lastBlind ELSE now
          /\ UNCHANGED <<bounds, now, B!wardVars, relays, arrived, inbox, claimed, ref, saved,
                         persistedOk, queue>>
    BY <1>1, ReadIs
  <2>2. faults' \in Nat
    BY <1>0, <2>1, FaultTyped
  <2>3. lines' \in Counts /\ seen' \subseteq B!Presses /\ handled' \subseteq Reports /\ stale' \subseteq Reports
    BY <2>1 DEF Takes, UnlockTypes
  <2> QED BY <2>1, <2>2, <2>3 DEF UnlockTypes, B!wardVars
<1>2. CASE B!Drain
  <2>1. PICK ready \in SUBSET B!Queued :
          /\ Takes(inbox)
          /\ queue' = B!Queued \ ready
          /\ inbox' = inbox \ {e.wrap : e \in ready}
          /\ UNCHANGED <<bounds, now, faults, B!wardVars, relays, arrived, claimed, ref, saved,
                         persistedOk, B!reads>>
    BY <1>2, DrainIs
  <2>2. queue' \subseteq [wrap : Reports, needs : B!Presses \cup {None}] /\ inbox' \subseteq inbox
    BY <2>1, QueuedTypes
  <2>3. lines' \in Counts /\ seen' \subseteq B!Presses /\ handled' \subseteq Reports /\ stale' \subseteq Reports
    BY <2>1 DEF Takes, UnlockTypes
  <2>4. inbox' \subseteq Reports
    BY <2>2 DEF UnlockTypes
  <2> QED BY <2>1, <2>2, <2>3, <2>4 DEF UnlockTypes, B!wardVars, B!reads
<1>3. CASE B!Persist(c)
  <2>1. PICK ready \in SUBSET queue :
          /\ B!FaultIf(~c)
          /\ ref' = lines /\ persistedOk' = c /\ saved' = IF c THEN lines ELSE saved
          /\ queue' = queue \ ready
          /\ inbox' = inbox \ {e.wrap : e \in ready}
          /\ UNCHANGED <<bounds, now, B!wardVars, relays, arrived, claimed, lines, handled, seen,
                         stale, B!reads>>
    BY <1>3, PersistIs
  <2>2. faults' \in Nat
    BY <1>0, <2>1, FaultTyped
  <2>3. queue' \subseteq queue /\ inbox' \subseteq inbox
    BY <2>1
  <2>4. queue' \subseteq [wrap : Reports, needs : B!Presses \cup {None}] /\ inbox' \subseteq Reports
    BY <2>3 DEF UnlockTypes
  <2> QED BY <2>1, <2>2, <2>4 DEF UnlockTypes, B!wardVars, B!reads
<1>4. CASE B!Reload
  <2>1. faults' \in Nat
    BY <1>0, <1>4, FaultTyped DEF B!Reload
  <2>2. /\ lines' = saved /\ ref' = saved /\ persistedOk' = TRUE /\ handled' = {} /\ seen' = {}
        /\ queue' = {} /\ sweptAt' = None /\ lastRead' = None /\ lastBlind' = 0
        /\ UNCHANGED <<bounds, now, B!wardVars, relays, arrived, inbox, claimed, saved, stale>>
    BY <1>4 DEF B!Reload
  <2> QED BY <2>1, <2>2 DEF UnlockTypes, B!wardVars
<1>5. CASE B!Claim
  BY <1>5 DEF B!Claim, UnlockTypes, B!wardVars, B!stored, B!intake, B!reads
<1>6. CASE B!Tick
  BY <1>6 DEF B!Tick, UnlockTypes, B!wardVars, B!appVars, B!stored, B!intake, B!reads
<1> QED
  BY <1>1, <1>2, <1>3, <1>4, <1>5, <1>6

\* Every step keeps the types.
LEMMA UnlockTypesStep ==
    ASSUME UnlockTypes, LinesInv, B!Next \/ UNCHANGED unlockVars
    PROVE  UnlockTypes'
<1>1. CASE UNCHANGED unlockVars
  BY <1>1 DEF unlockVars, UnlockTypes
<1>2. CASE B!Next
  BY <1>2, WardTyped, AppTyped DEF B!Next
<1> QED
  BY <1>1, <1>2

-----------------------------------------------------------------------------
(* What each step keeps of the app's. *)

\* While the app's own state rests, relays and the link may gain and time may pass.
LEMMA AppRests ==
    ASSUME UnlockTypes, AppInv, UNCHANGED <<B!appVars, arrived, inbox>>,
           now' \in Nat, now <= now', offered \subseteq offered', relays \subseteq relays',
           \A r \in relays' \ relays : r.at = now
    PROVE  AppInv'
<1>0. /\ now \in Nat /\ Jitter \in Nat
      /\ UNCHANGED <<claimed, lines, ref, saved, persistedOk, handled, seen, queue, stale, sweptAt,
                     lastRead, lastBlind>>
      /\ \A w \in handled : w.date \in Nat
      /\ \A w : B!OnRelay(w) => B!OnRelay(w)'
  BY UnlockAssumption, NotNoReport DEF UnlockTypes, B!appVars, B!stored, B!intake, B!reads, B!OnRelay
<1>1. OriginInv'
  BY <1>0 DEF AppInv, OriginInv, UnlockTypes
<1>2. LinesInv'
  BY <1>0 DEF AppInv, LinesInv, B!Held
<1>3. HandledShown'
  <2> SUFFICES ASSUME NEW w \in handled
               PROVE  lines[w.press] > 0 \/ w.date + Jitter < now'
    BY <1>0 DEF HandledShown
  <2>1. lines[w.press] > 0 \/ w.date + Jitter < now
    BY DEF AppInv, HandledShown
  <2> QED BY <1>0, <2>1
<1>4. QueueInv' /\ HandledKept' /\ B!ForgottenIsKept'
  BY <1>0 DEF AppInv, QueueInv, HandledKept, B!ForgottenIsKept, Excused
<1>5. SweepInv'
  <2> SUFFICES ASSUME sweptAt # None, claimed # None, claimed < sweptAt, lastBlind < sweptAt,
                      NEW r \in relays', r.at < sweptAt, r.wrap.date >= sweptAt - Floor
               PROVE  lines[r.wrap.press] > 0
    BY <1>0 DEF SweepInv
  <2>1. sweptAt \in Nat /\ sweptAt <= now
    BY DEF UnlockTypes, AppInv, OriginInv
  <2>2. r \in relays
    BY <1>0, <2>1
  <2> QED BY <2>2 DEF AppInv, SweepInv
<1>6. ReadInv'
  BY <1>0 DEF AppInv, ReadInv
<1> QED
  BY <1>1, <1>2, <1>3, <1>4, <1>5, <1>6 DEF AppInv

\* A wrap reaches the carrier at most once.
LEMMA ArriveKeeps ==
    ASSUME UnlockTypes, AppInv, NEW w \in offered, B!Arrive(w)
    PROVE  AppInv'
<1>1. /\ w \notin arrived /\ arrived' = arrived \cup {w} /\ inbox' = inbox \cup {w}
      /\ UNCHANGED <<now, offered, relays, claimed, lines, ref, saved, persistedOk, handled, seen,
                     queue, stale, sweptAt, lastRead, lastBlind>>
  BY DEF B!Arrive, B!wardVars, B!appVars, B!stored, B!intake, B!reads
<1>2. OriginInv' /\ LinesInv' /\ HandledShown' /\ SweepInv' /\ ReadInv'
  BY <1>1 DEF AppInv, OriginInv, LinesInv, B!Held, HandledShown, SweepInv, ReadInv
<1>3. QueueInv' /\ HandledKept' /\ B!ForgottenIsKept'
  BY <1>1 DEF AppInv, QueueInv, HandledKept, B!ForgottenIsKept, Excused, B!OnRelay
<1> QED
  BY <1>2, <1>3 DEF AppInv

\* A device that is added now was not known to any sweep.
LEMMA ClaimKeeps ==
    ASSUME UnlockTypes, AppInv, B!Claim
    PROVE  AppInv'
<1>1. /\ claimed' = now
      /\ UNCHANGED <<now, offered, relays, arrived, inbox, lines, ref, saved, persistedOk, handled,
                     seen, queue, stale, sweptAt, lastRead, lastBlind>>
  BY DEF B!Claim, B!wardVars, B!stored, B!intake, B!reads
<1>2. now \in Nat /\ sweptAt \in Nat \cup {None}
  BY DEF UnlockTypes
<1>3. OriginInv'
  BY <1>1, <1>2 DEF AppInv, OriginInv
<1>4. SweepInv'
  <2>1. sweptAt # None => ~(now < sweptAt)
    BY <1>2 DEF AppInv, OriginInv
  <2> QED BY <1>1, <2>1 DEF SweepInv
<1>5. LinesInv' /\ HandledShown' /\ ReadInv' /\ QueueInv' /\ HandledKept' /\ B!ForgottenIsKept'
  BY <1>1 DEF AppInv, LinesInv, B!Held, HandledShown, ReadInv, QueueInv, HandledKept,
              B!ForgottenIsKept, Excused, B!OnRelay
<1> QED
  BY <1>3, <1>4, <1>5 DEF AppInv

\* Taking wraps in adds the line of a press at most, and of those it is done with.
LEMMA TakeKeeps ==
    ASSUME UnlockTypes, AppInv, NEW wraps \in SUBSET Reports, Takes(wraps),
           \A w \in wraps : w.date <= now, UNCHANGED <<now, ref, saved, persistedOk>>
    PROVE  /\ LinesInv' /\ HandledShown'
           /\ \A p \in B!Presses : lines[p] > 0 => lines'[p] > 0
<1>1. /\ lines \in Counts /\ lines' \in Counts /\ ref \in Counts /\ saved \in Counts
      /\ now \in Nat /\ Jitter \in Nat
  BY UnlockAssumption DEF UnlockTypes, Takes
<1>2. ASSUME NEW p \in B!Presses
      PROVE  /\ lines[p] \in Nat /\ lines'[p] \in Nat /\ ref[p] \in Nat /\ saved[p] \in Nat
             /\ lines[p] <= lines'[p] /\ lines'[p] <= 1
             /\ ref[p] <= lines[p] /\ saved[p] <= lines[p]
             /\ lines'[p] > 0 => p \in seen' \/ ref[p] > 0
  BY <1>1 DEF Counts, Takes, AppInv, LinesInv
<1>3. \A p \in B!Presses : lines[p] > 0 => lines'[p] > 0
  BY <1>2
<1>4. LinesInv'
  <2>1. ASSUME NEW p \in B!Presses
        PROVE  lines'[p] <= 1 /\ ref[p] <= lines'[p] /\ saved[p] <= lines'[p]
    BY <1>2
  <2>2. \A p \in seen' : lines'[p] > 0
    BY DEF Takes
  <2>3. persistedOk => ref = saved
    BY DEF AppInv, LinesInv
  <2> QED BY <1>2, <2>1, <2>2, <2>3 DEF LinesInv, B!Held
<1>5. HandledShown'
  <2> SUFFICES ASSUME NEW w \in handled'
               PROVE  lines'[w.press] > 0 \/ w.date + Jitter < now
    BY DEF HandledShown
  <2>0. w \in Reports /\ w.press \in B!Presses /\ w.date \in Nat
    <3>1. w \in handled \cup wraps
      BY DEF Takes
    <3> QED BY <3>1, NotNoReport DEF UnlockTypes
  <2>1. CASE w \in handled
    BY <1>3, <2>0, <2>1 DEF AppInv, HandledShown
  <2>2. CASE w \notin handled
    <3>1. w \in wraps \ handled
      BY <2>2 DEF Takes
    <3>2. ~B!Fresh(w) \/ lines'[w.press] > 0
      BY <3>1 DEF Takes
    <3>3. ~B!Fresh(w) => w.date + Jitter < now
      <4>1. w.date <= now
        BY <3>1
      <4>2. B!Distance(now, w.date) = now - w.date
        BY <1>1, <2>0, <4>1, DistanceIs
      <4> QED BY <1>1, <2>0, <4>2 DEF B!Fresh
    <3> QED BY <3>2, <3>3
  <2> QED BY <2>1, <2>2
<1> QED
  BY <1>3, <1>4, <1>5

\* A sweep that reaches the relays shows what is there; a shorter read follows one closely.
LEMMA ReadKeeps ==
    ASSUME UnlockTypes, WardInv, AppInv, NEW forced \in BOOLEAN, NEW reaches \in BOOLEAN,
           B!Read(forced, reaches)
    PROVE  AppInv'
<1> DEFINE due == B!SweepDue(forced)
<1>1. PICK wraps \in SUBSET Reports :
        /\ Takes(wraps)
        /\ \A w \in wraps : B!OnRelay(w)
        /\ reaches /\ due => \A r \in relays : r.wrap.date >= now - Floor => r.wrap \in wraps
        /\ sweptAt' = IF due THEN now ELSE sweptAt
        /\ lastRead' = IF reaches THEN now ELSE lastRead
        /\ lastBlind' = IF reaches THEN lastBlind ELSE now
        /\ UNCHANGED <<bounds, now, B!wardVars, relays, arrived, inbox, claimed, ref, saved,
                       persistedOk, queue>>
  BY ReadIs DEF AppInv
<1>2. UNCHANGED <<now, offered, relays, arrived, inbox, claimed, ref, saved, persistedOk, queue>>
  BY <1>1 DEF B!wardVars
<1>3. /\ now \in Nat /\ Jitter \in Nat /\ Floor \in Nat /\ Floor <= Jitter
      /\ Sweep \in Nat /\ Sweep > 0
      /\ sweptAt \in Nat \cup {None} /\ lastRead \in Nat \cup {None} /\ lastBlind \in Nat
      /\ None \notin Int
  BY UnlockAssumption, NoneAssumption DEF UnlockTypes
<1>4. ~due => sweptAt # None /\ now - sweptAt < Sweep
  BY <1>3 DEF B!SweepDue
<1> HIDE DEF due
<1>5. /\ LinesInv' /\ HandledShown'
      /\ \A p \in B!Presses : lines[p] > 0 => lines'[p] > 0
  <2>1. \A w \in wraps : w.date <= now
    BY <1>1 DEF B!OnRelay, WardInv, RelaysInv
  <2> QED BY <1>1, <1>2, <2>1, TakeKeeps
<1>6. OriginInv'
  BY <1>1, <1>2, <1>3 DEF AppInv, OriginInv
<1>7. QueueInv' /\ HandledKept' /\ B!ForgottenIsKept'
  <2>1. handled' \subseteq handled \cup wraps /\ stale \subseteq stale'
    BY <1>1 DEF Takes
  <2>2. \A w : (Excused(w) => Excused(w)') /\ (w \in wraps => Excused(w)')
    BY <1>1, <1>2, <2>1 DEF Excused, B!OnRelay
  <2>3. QueueInv'
    BY <1>2, <2>2 DEF AppInv, QueueInv
  <2>4. HandledKept'
    BY <1>2, <2>1, <2>2 DEF AppInv, HandledKept
  <2>5. B!ForgottenIsKept'
    BY <1>2, <2>1 DEF AppInv, B!ForgottenIsKept, B!OnRelay
  <2> QED BY <2>3, <2>4, <2>5
<1>8. SweepInv'
  <2> SUFFICES ASSUME sweptAt' # None, claimed # None, claimed < sweptAt', lastBlind' < sweptAt',
                      NEW r \in relays, r.at < sweptAt', r.wrap.date >= sweptAt' - Floor
               PROVE  lines'[r.wrap.press] > 0
    BY <1>2 DEF SweepInv
  <2>0. /\ r.wrap \in Reports /\ r.wrap.press \in B!Presses /\ r.wrap.date \in Nat
        /\ r.wrap.date <= now
    BY NotNoReport DEF UnlockTypes, WardInv, RelaysInv
  <2>1. reaches
    BY <1>1, <1>3 DEF AppInv, OriginInv
  <2>2. CASE due
    <3>1. r.wrap \in wraps /\ r.wrap.date >= now - Floor
      BY <1>1, <2>1, <2>2
    <3>2. ~(r.wrap.date + Jitter < now)
      BY <1>3, <2>0, <3>1
    <3>3. CASE r.wrap \in handled
      <4>1. lines[r.wrap.press] > 0
        BY <3>2, <3>3 DEF AppInv, HandledShown
      <4> QED BY <1>5, <2>0, <4>1
    <3>4. CASE r.wrap \notin handled
      <4>1. B!Distance(now, r.wrap.date) = now - r.wrap.date
        BY <1>3, <2>0, DistanceIs
      <4>2. B!Fresh(r.wrap)
        BY <1>3, <2>0, <3>2, <4>1 DEF B!Fresh
      <4> QED BY <1>1, <3>1, <3>4, <4>2 DEF Takes
    <3> QED BY <3>3, <3>4
  <2>3. CASE ~due
    <3>1. lines[r.wrap.press] > 0
      BY <1>1, <2>1, <2>3 DEF AppInv, SweepInv
    <3> QED BY <1>5, <2>0, <3>1
  <2> QED BY <2>2, <2>3
<1>9. ReadInv'
  <2> SUFFICES ASSUME lastRead' # None
               PROVE  sweptAt' # None /\ lastRead' < sweptAt' + Sweep
    BY DEF ReadInv
  <2>1. CASE due
    <3>1. sweptAt' = now /\ now # None
      BY <1>1, <1>3, <2>1
    <3>2. lastRead' \in Nat /\ lastRead' < now + Sweep
      <4>1. CASE reaches
        BY <1>1, <1>3, <4>1
      <4>2. CASE ~reaches
        <5>1. lastRead # None /\ lastRead' = lastRead
          BY <1>1, <4>2
        <5>2. sweptAt # None /\ lastRead < sweptAt + Sweep /\ sweptAt <= now
          BY <5>1 DEF AppInv, ReadInv, OriginInv
        <5> QED BY <1>3, <5>1, <5>2
      <4> QED BY <4>1, <4>2
    <3> QED BY <3>1, <3>2
  <2>2. CASE ~due
    BY <1>1, <1>3, <1>4, <2>2 DEF AppInv, ReadInv
  <2> QED BY <2>1, <2>2
<1> QED
  BY <1>5, <1>6, <1>7, <1>8, <1>9 DEF AppInv

\* The carrier forgets a wrap only for an entry that is ready.
LEMMA DrainKeeps ==
    ASSUME UnlockTypes, WardInv, AppInv, B!Drain
    PROVE  AppInv'
<1>1. PICK ready \in SUBSET B!Queued :
        /\ Takes(inbox)
        /\ \A e \in ready : persistedOk /\ (e.needs # None => ref[e.needs] > 0)
        /\ queue' = B!Queued \ ready
        /\ inbox' = inbox \ {e.wrap : e \in ready}
        /\ handled' = handled \cup Done
        /\ UNCHANGED <<bounds, now, faults, B!wardVars, relays, arrived, claimed, ref, saved,
                       persistedOk, B!reads>>
  BY DrainIs DEF AppInv
<1>2. /\ UNCHANGED <<now, offered, relays, arrived, claimed, ref, saved, persistedOk, sweptAt,
                     lastRead, lastBlind>>
      /\ inbox \in SUBSET Reports
  BY <1>1 DEF B!wardVars, B!reads, UnlockTypes
<1>3. /\ stale \subseteq stale'
      /\ \A w : Excused(w) => Excused(w)'
      /\ \A w \in inbox \ handled : ~B!Fresh(w) => Excused(w)'
  BY <1>1, <1>2 DEF Takes, Excused, B!OnRelay
<1>4. /\ LinesInv' /\ HandledShown'
      /\ \A p \in B!Presses : lines[p] > 0 => lines'[p] > 0
  <2>1. \A w \in inbox : w.date <= now
    BY DEF AppInv, OriginInv, WardInv, OfferedInv
  <2> QED BY <1>1, <1>2, <2>1, TakeKeeps
<1>5. \A e \in B!Queued : e.needs = e.wrap.press \/ (e.needs = None /\ Excused(e.wrap)')
  <2> SUFFICES ASSUME NEW e \in B!Queued
               PROVE  e.needs = e.wrap.press \/ (e.needs = None /\ Excused(e.wrap)')
    OBVIOUS
  <2>1. CASE e \in queue
    BY <1>3, <2>1 DEF AppInv, QueueInv
  <2>2. CASE e \notin queue
    <3>1. PICK w \in Done :
            /\ e = [wrap |-> w, needs |-> IF w \in handled \/ ~B!Fresh(w) THEN None ELSE w.press]
            /\ \A f \in queue : f.needs # None => f.wrap # w
      BY <2>2, QueuedAre
    <3>2. w \in inbox /\ w \in Reports /\ w.press # None
      <4>1. w \in inbox /\ w \in Reports
        BY <1>2 DEF Done
      <4> QED BY <4>1, NotNoReport
    <3>3. CASE w \in handled
      <4>1. Excused(w)
        BY <3>1, <3>2, <3>3 DEF AppInv, HandledKept
      <4> QED BY <1>3, <3>1, <3>3, <4>1
    <3>4. CASE w \notin handled /\ ~B!Fresh(w)
      BY <1>3, <3>1, <3>2, <3>4
    <3>5. CASE w \notin handled /\ B!Fresh(w)
      BY <3>1, <3>5
    <3> QED BY <3>3, <3>4, <3>5
  <2> QED BY <2>1, <2>2
<1>6. QueueInv'
  BY <1>1, <1>5 DEF QueueInv
<1>7. HandledKept'
  <2> SUFFICES ASSUME NEW w \in handled', ~Excused(w)'
               PROVE  w \in arrived /\ (w \in inbox' => \E e \in queue' : e.wrap = w /\ e.needs = w.press)
    BY <1>2 DEF HandledKept
  <2>1. CASE w \in Done
    <3>1. w \in inbox /\ w \in arrived
      BY <2>1 DEF Done, AppInv, OriginInv
    <3>2. PICK e \in B!Queued : e.wrap = w
      BY <2>1, QueuedAre
    <3>3. e.needs = w.press
      BY <1>5, <3>2
    <3> QED BY <1>1, <3>1, <3>2, <3>3
  <2>2. CASE w \notin Done
    <3>1. w \in handled
      BY <1>1, <2>2
    <3>2. w \notin inbox
      BY <2>2, <3>1 DEF Done, B!Unlanded
    <3>3. w \in arrived
      BY <1>3, <3>1 DEF AppInv, HandledKept
    <3> QED BY <1>1, <3>2, <3>3
  <2> QED BY <2>1, <2>2
<1>8. B!ForgottenIsKept'
  <2> SUFFICES ASSUME NEW w \in arrived, w \notin inbox'
               PROVE  saved[w.press] > 0 \/ Excused(w)'
    BY <1>2 DEF B!ForgottenIsKept, Excused
  <2>1. CASE w \notin inbox
    <3>1. saved[w.press] > 0 \/ Excused(w)
      BY <2>1 DEF AppInv, B!ForgottenIsKept, Excused
    <3> QED BY <1>3, <3>1
  <2>2. CASE w \in inbox
    <3>1. PICK e \in ready : e.wrap = w
      BY <1>1, <2>2
    <3>2. w.press # None
      BY <1>2, <2>2, NotNoReport
    <3>3. persistedOk => ref = saved
      BY DEF AppInv, LinesInv
    <3> QED BY <1>1, <1>5, <3>1, <3>2, <3>3
  <2> QED BY <2>1, <2>2
<1>9. OriginInv' /\ ReadInv'
  BY <1>1, <1>2 DEF AppInv, OriginInv, ReadInv
<1>10. SweepInv'
  <2> SUFFICES ASSUME sweptAt # None, claimed # None, claimed < sweptAt, lastBlind < sweptAt,
                      NEW r \in relays, r.at < sweptAt, r.wrap.date >= sweptAt - Floor
               PROVE  lines'[r.wrap.press] > 0
    BY <1>2 DEF SweepInv
  <2>1. lines[r.wrap.press] > 0
    BY DEF AppInv, SweepInv
  <2>2. r.wrap.press \in B!Presses
    BY NotNoReport DEF UnlockTypes
  <2> QED BY <1>4, <2>1, <2>2
<1> QED
  BY <1>4, <1>6, <1>7, <1>8, <1>9, <1>10 DEF AppInv

\* What the carrier forgets after a write was in what was written.
LEMMA PersistKeeps ==
    ASSUME UnlockTypes, AppInv, NEW ok \in BOOLEAN, B!Persist(ok)
    PROVE  AppInv'
<1>1. PICK ready \in SUBSET queue :
        /\ \A e \in ready : ok /\ (e.needs # None => lines[e.needs] > 0)
        /\ ref' = lines /\ persistedOk' = ok /\ saved' = IF ok THEN lines ELSE saved
        /\ queue' = queue \ ready
        /\ inbox' = inbox \ {e.wrap : e \in ready}
        /\ UNCHANGED <<bounds, now, B!wardVars, relays, arrived, claimed, lines, handled, seen,
                       stale, B!reads>>
  BY PersistIs
<1>2. UNCHANGED <<now, offered, relays, arrived, claimed, lines, handled, seen, stale, sweptAt,
                  lastRead, lastBlind>>
  BY <1>1 DEF B!wardVars, B!reads
<1>3. ASSUME NEW p \in B!Presses
      PROVE  /\ lines[p] \in Nat /\ saved[p] \in Nat /\ saved'[p] \in Nat
             /\ lines[p] <= 1 /\ saved[p] <= saved'[p] /\ saved'[p] <= lines[p]
  BY <1>1 DEF UnlockTypes, Counts, AppInv, LinesInv
<1>4. LinesInv'
  <2>1. persistedOk' => ref' = saved'
    BY <1>1
  <2>2. \A p \in seen' : lines'[p] > 0
    BY <1>2 DEF AppInv, LinesInv
  <2>3. ASSUME NEW p \in B!Presses
        PROVE  /\ lines'[p] <= 1 /\ ref'[p] <= lines'[p] /\ saved'[p] <= lines'[p]
               /\ lines'[p] > 0 => B!Held(p)'
    BY <1>1, <1>2, <1>3 DEF B!Held
  <2> QED BY <2>1, <2>2, <2>3 DEF LinesInv
<1>5. OriginInv' /\ HandledShown' /\ ReadInv' /\ SweepInv' /\ QueueInv'
  BY <1>1, <1>2 DEF AppInv, OriginInv, HandledShown, ReadInv, SweepInv, QueueInv, Excused, B!OnRelay
<1>6. HandledKept'
  BY <1>1, <1>2 DEF AppInv, HandledKept, Excused, B!OnRelay
<1>7. B!ForgottenIsKept'
  <2> SUFFICES ASSUME NEW w \in arrived, w \notin inbox', ~Excused(w)
               PROVE  saved'[w.press] > 0
    BY <1>2 DEF B!ForgottenIsKept, Excused, B!OnRelay
  <2>0. w.press \in B!Presses /\ w.press # None
    BY NotNoReport, PressesAre DEF UnlockTypes
  <2>1. CASE w \notin inbox
    <3>1. saved[w.press] > 0
      BY <2>1 DEF AppInv, B!ForgottenIsKept, Excused
    <3> QED BY <1>3, <2>0, <3>1
  <2>2. CASE w \in inbox
    <3>1. PICK e \in ready : e.wrap = w
      BY <1>1, <2>2
    <3>2. e.needs = w.press
      BY <3>1 DEF AppInv, QueueInv
    <3> QED BY <1>1, <2>0, <3>1, <3>2
  <2> QED BY <2>1, <2>2
<1> QED
  BY <1>4, <1>5, <1>6, <1>7 DEF AppInv

\* What the app starts again with is what it had stored.
LEMMA ReloadKeeps ==
    ASSUME UnlockTypes, AppInv, B!Reload
    PROVE  AppInv'
<1>1. /\ lines' = saved /\ ref' = saved /\ persistedOk' = TRUE /\ handled' = {} /\ seen' = {}
      /\ queue' = {} /\ sweptAt' = None /\ lastRead' = None /\ lastBlind' = 0
      /\ UNCHANGED <<now, offered, relays, arrived, inbox, claimed, saved, stale>>
  BY DEF B!Reload, B!wardVars
<1>2. ASSUME NEW p \in B!Presses
      PROVE  saved[p] \in Nat /\ lines[p] \in Nat /\ saved[p] <= lines[p] /\ lines[p] <= 1
  BY DEF UnlockTypes, Counts, AppInv, LinesInv
<1>3. LinesInv'
  BY <1>1, <1>2 DEF LinesInv, B!Held
<1>4. OriginInv'
  BY <1>1 DEF AppInv, OriginInv, UnlockTypes
<1>5. HandledShown' /\ ReadInv' /\ SweepInv' /\ QueueInv' /\ HandledKept'
  BY <1>1 DEF HandledShown, ReadInv, SweepInv, QueueInv, HandledKept
<1>6. B!ForgottenIsKept'
  BY <1>1 DEF AppInv, B!ForgottenIsKept, B!OnRelay
<1> QED
  BY <1>3, <1>4, <1>5, <1>6 DEF AppInv

\* Every step keeps the app's invariant.
LEMMA AppStep ==
    ASSUME UnlockTypes, WardInv, AppInv, B!Next \/ UNCHANGED unlockVars
    PROVE  AppInv'
<1>0. now \in Nat
  BY DEF UnlockTypes
<1>1. CASE \/ \E lands \in BOOLEAN : B!Press(lands) \/ B!MarkSent(lands)
           \/ B!Crash \/ UNCHANGED unlockVars
  <2>1. UNCHANGED <<B!appVars, arrived, inbox, now, offered, relays>>
    BY <1>1 DEF B!Press, B!MarkSent, B!Crash, unlockVars, B!appVars, B!stored, B!intake, B!reads
  <2> QED BY <1>0, <2>1, AppRests
<1>2. CASE \E builds \in BOOLEAN, lands \in BOOLEAN : B!Flush(builds, lands)
  <2>1. UNCHANGED <<B!appVars, arrived, inbox, now, relays>> /\ offered \subseteq offered'
    BY <1>2 DEF B!Flush, B!Offered
  <2> QED BY <1>0, <2>1, AppRests
<1>3. CASE \E held \in BOOLEAN, accepted \in BOOLEAN : B!Publish(held, accepted)
  <2>1. PICK held \in BOOLEAN, accepted \in BOOLEAN : B!Publish(held, accepted)
    BY <1>3
  <2>2. UNCHANGED <<B!appVars, arrived, inbox, now, offered>>
    BY <2>1 DEF B!Publish
  <2>3. relays \subseteq relays' /\ \A r \in relays' \ relays : r.at = now
    <3>1. PICK w \in round.todo :
            relays' = IF held /\ ~B!OnRelay(w) THEN relays \cup {[wrap |-> w, at |-> now]} ELSE relays
      BY <2>1, PublishIs
    <3> QED BY <3>1
  <2> QED BY <1>0, <2>2, <2>3, AppRests
<1>4. CASE B!Tick
  <2>1. now' = now + 1 /\ UNCHANGED <<B!appVars, arrived, inbox, offered, relays>>
    BY <1>4 DEF B!Tick, B!wardVars
  <2> QED BY <1>0, <2>1, AppRests
<1>5. CASE (\E w \in offered : B!Arrive(w)) \/ B!Claim \/ B!Reload
  BY <1>5, ArriveKeeps, ClaimKeeps, ReloadKeeps
<1>6. CASE \E forced \in BOOLEAN, reaches \in BOOLEAN : B!Read(forced, reaches)
  BY <1>6, ReadKeeps
<1>7. CASE B!Drain \/ (\E ok \in BOOLEAN : B!Persist(ok))
  BY <1>7, DrainKeeps, PersistKeeps
<1> QED
  BY <1>1, <1>2, <1>3, <1>4, <1>5, <1>6, <1>7 DEF B!Next

\* A read a sweep's time after the last of three moments follows a sweep after each of them.
LEMMA SweptSince ==
    ASSUME NEW a \in Nat, NEW b \in Nat, NEW c \in Nat
    PROVE  /\ B!Max({a, b, c}) \in Nat
           /\ a <= B!Max({a, b, c}) /\ b <= B!Max({a, b, c}) /\ c <= B!Max({a, b, c})
<1> DEFINE S == {a, b, c}
<1>1. \E m \in S : \A k \in S : k <= m
  OBVIOUS
<1>2. B!Max(S) \in S /\ \A k \in S : k <= B!Max(S)
  <2> HIDE DEF S
  <2> QED BY <1>1 DEF B!Max
<1> QED
  BY <1>2

\* The invariant gives the promises of the app.
LEMMA AppShows ==
    ASSUME UnlockTypes, WardInv, AppInv
    PROVE  B!UnlockIsShown
<1>1. B!ShownInTime
  <2> DEFINE known == IF claimed = None THEN 0 ELSE claimed
  <2> SUFFICES ASSUME NEW r \in relays, claimed # None, lastRead # None,
                      r.wrap.date >= now - Floor,
                      lastRead >= B!Max({r.at, known, lastBlind}) + Sweep
               PROVE  lines[r.wrap.press] > 0
    BY DEF B!ShownInTime
  <2>1. /\ r.at \in Nat /\ known \in Nat /\ known = claimed /\ lastBlind \in Nat
        /\ lastRead \in Nat /\ now \in Nat /\ r.wrap.date \in Nat /\ Floor \in Nat /\ Sweep \in Nat
    BY NotNoReport, UnlockAssumption DEF UnlockTypes
  <2>2. sweptAt # None /\ sweptAt \in Nat /\ lastRead < sweptAt + Sweep /\ sweptAt <= now
    BY DEF AppInv, ReadInv, OriginInv, UnlockTypes
  <2> HIDE DEF known
  <2> DEFINE m == B!Max({r.at, known, lastBlind})
  <2>3. m \in Nat /\ r.at <= m /\ known <= m /\ lastBlind <= m
    BY <2>1, SweptSince
  <2>4. lastRead >= m + Sweep
    OBVIOUS
  <2> HIDE DEF m
  <2>5. r.at < sweptAt /\ known < sweptAt /\ lastBlind < sweptAt /\ r.wrap.date >= sweptAt - Floor
    BY <2>1, <2>2, <2>3, <2>4
  <2> QED BY <2>1, <2>2, <2>5 DEF AppInv, SweepInv
<1>2. B!OneLine
  <2> SUFFICES ASSUME NEW p \in B!Presses
               PROVE  lines[p] <= 1 /\ saved[p] <= 1
    BY DEF B!OneLine
  <2>1. lines[p] \in Nat /\ saved[p] \in Nat /\ lines[p] <= 1 /\ saved[p] <= lines[p]
    BY DEF UnlockTypes, Counts, AppInv, LinesInv
  <2> QED BY <2>1
<1> QED
  BY <1>1, <1>2 DEF B!UnlockIsShown, AppInv

UnlockInv == UnlockTypes /\ WardInv /\ AppInv

\* It holds at the start.
LEMMA UnlockInvInit == B!Init => UnlockInv
<1> SUFFICES ASSUME B!Init
             PROVE  UnlockInv
  OBVIOUS
<1>1. UnlockTypes
  BY UnlockTypesInit
<1>2. WardInv
  BY DEF B!Init, WardInv, JournalInv, RoundInv, OfferedInv, RelaysInv, B!UnlockIsLoud,
         B!StaysUntilSent, B!OneAlertADay
<1>3. AppInv
  BY NoneAssumption DEF B!Init, AppInv, OriginInv, LinesInv, HandledShown, QueueInv, HandledKept,
         B!ForgottenIsKept, SweepInv, ReadInv
<1> QED
  BY <1>1, <1>2, <1>3 DEF UnlockInv

\* The inductive invariant of a report's life.
THEOREM UnlockInvHolds == MessagesSpec => []UnlockInv
<1>1. MessagesInit => UnlockInv
  BY UnlockInvInit DEF MessagesInit
<1>2. UnlockInv /\ [MessagesNext]_<<part, vars, unlockVars, wardenVars>> => UnlockInv'
  <2> SUFFICES ASSUME UnlockInv, [MessagesNext]_<<part, vars, unlockVars, wardenVars>>
               PROVE  UnlockInv'
    OBVIOUS
  <2>1. B!Next \/ UNCHANGED unlockVars
    BY DEF MessagesNext
  <2> QED BY <2>1, UnlockTypesStep, WardStep, AppStep DEF UnlockInv, AppInv
<1> QED
  BY <1>1, <1>2, PTL DEF MessagesSpec

\* "Breaking it is LOUD": a press stays in the journal until a relay holds its report, and is
\* an alert a day at most (breakglass.rs).
THEOREM PressIsLoud == MessagesSpec => []UnlockIsLoud
<1>1. UnlockInv => UnlockIsLoud
  BY DEF UnlockInv, WardInv, UnlockIsLoud
<1> QED
  BY <1>1, UnlockInvHolds, PTL

\* A report some relay holds is in the Activity within a sweep of the app's reading, once, and
\* the carrier forgets none that is not kept (relayWindow.ts, ingestWrap.ts, localDrain.ts).
THEOREM ReportIsShown == MessagesSpec => []UnlockIsShown
<1>1. UnlockInv => UnlockIsShown
  BY AppShows DEF UnlockInv, UnlockIsShown
<1> QED
  BY <1>1, UnlockInvHolds, PTL
=============================================================================
