---------------------------- MODULE MeteringProofs ----------------------------
(***************************************************************************)
(* Theorems about the usage meter, for any length of the week, cap of the  *)
(* chain, clauses, cadence of saves, grace and bounds: what was used is    *)
(* counted, nothing but a later day gives it back, a clock put right puts  *)
(* the meter right, and failing saves lose no more than they must.         *)
(*                                                                         *)
(* A ledger keeps two meters that obey the same rules with another key.    *)
(* What is proved is proved of one meter, with any real key and any bound, *)
(* and used for both.                                                      *)
(***************************************************************************)
EXTENDS Metering, FoldProofs

USE WeekLenAssumption, ChainCapAssumption

-----------------------------------------------------------------------------
(* The chain. *)

\* The entries of a chain whose keys are numbers.
EntriesOf(K) == [key : K, secs : Nat]

\* The partial sums of what a chain gives back.
Sums(s, c, cur) ==
  /\ s[0] = 0
  /\ \A i \in 1 .. Len(c) :
       s[i] = IF c[i].key >= cur THEN s[i - 1] + c[i].secs ELSE s[i - 1]

LEMMA RestorableIs ==
  ASSUME NEW c \in Seq(EntriesOf(Int)), NEW cur \in Int
  PROVE  \E s : /\ Sums(s, c, cur) /\ \A i \in 0 .. Len(c) : s[i] \in Nat
                /\ Restorable(c, cur) = s[Len(c)]
<1> DEFINE n == Len(c)
           T == [i \in 0 .. Len(c) |-> Nat]
           step(a, i) == IF c[i].key >= cur THEN a + c[i].secs ELSE a
           g == [i \in 1 .. n |-> [a \in T[i - 1] |-> step(a, i)]]
           Is(f) == f = [i \in 0 .. n |-> IF i = 0 THEN 0
                          ELSE IF c[i].key >= cur THEN f[i - 1] + c[i].secs ELSE f[i - 1]]
           acc == CHOOSE f : Is(f)
<1>1. Restorable(c, cur) = acc[n] /\ n \in Nat
  BY DEF Restorable
<1>2. \A i \in 1 .. n : \A a \in T[i - 1] : step(a, i) \in T[i] /\ g[i][a] = step(a, i)
  <2>1. ASSUME NEW i \in 1 .. n
        PROVE  T[i - 1] = Nat /\ T[i] = Nat /\ c[i].secs \in Nat /\ c[i].key \in Int
    <3>1. T[i - 1] = Nat /\ T[i] = Nat
      BY <1>1
    <3>2. c[i] \in EntriesOf(Int)
      BY <1>1
    <3> QED
      BY <3>1, <3>2 DEF EntriesOf
  <2>2. ASSUME NEW i \in 1 .. n, NEW a \in Nat PROVE step(a, i) \in Nat
    BY <2>1, <2>2
  <2> HIDE DEF T, step
  <2> QED
    BY <2>1, <2>2
<1>3. 0 \in T[0]
  BY <1>1
<1>4. \A i \in 0 .. n : T[i] = Nat
  BY <1>1
<1> HIDE DEF g, T
<1>5. PICK f : Reaches(f, n, 0, g, T)
  <2> HIDE DEF step
  <2>1. \A i \in 1 .. n : \A a \in T[i - 1] : g[i][a] \in T[i]
    BY <1>2
  <2> QED
    BY <1>1, <1>3, <2>1, FoldReaches
<1>6. ASSUME NEW i \in 0 .. n
      PROVE  f[i] = IF i = 0 THEN 0
                    ELSE IF c[i].key >= cur THEN f[i - 1] + c[i].secs ELSE f[i - 1]
  <2>1. CASE i = 0
    BY <1>5, <2>1 DEF Reaches
  <2>2. CASE i # 0
    <3>1. i \in 1 .. n
      BY <1>1, <2>2
    <3>2. f[i] = step(f[i - 1], i)
      <4> HIDE DEF step
      <4> QED
        BY <1>2, <1>5, <3>1 DEF Reaches
    <3> QED
      BY <2>2, <3>2
  <2> QED
    BY <2>1, <2>2
<1>7. Is(f)
  BY <1>5, <1>6 DEF Reaches
<1>8. Is(acc)
  BY <1>7
<1> HIDE DEF acc
<1>9. acc[0] = 0 /\ \A i \in 1 .. n : acc[i] = step(acc[i - 1], i)
  <2>1. acc[0] = 0
    BY <1>1, <1>8
  <2>2. ASSUME NEW i \in 1 .. n PROVE acc[i] = step(acc[i - 1], i)
    <3>1. i \in 0 .. n /\ i # 0
      BY <1>1
    <3> QED
      BY <1>8, <3>1
  <2> QED
    BY <2>1, <2>2
<1>10. \A i \in 1 .. n : acc[i - 1] \in T[i - 1] => acc[i] \in T[i]
  <2> HIDE DEF step
  <2> QED
    BY <1>2, <1>9
<1>11. \A i \in 0 .. n : acc[i] \in T[i]
  <2>1. acc[0] \in T[0]
    BY <1>3, <1>9
  <2> HIDE DEF step
  <2> QED
    BY <1>1, <1>10, <2>1, FoldStays
<1>12. Sums(acc, c, cur)
  BY <1>9 DEF Sums
<1> QED
  BY <1>1, <1>4, <1>11, <1>12

LEMMA RestorableIsNat ==
  ASSUME NEW c \in Seq(EntriesOf(Int)), NEW cur \in Int
  PROVE  Restorable(c, cur) \in Nat
<1>1. Len(c) \in 0 .. Len(c)
  OBVIOUS
<1> QED
  BY <1>1, RestorableIs

\* What an entry holds for cur.
Part(e, cur) == IF e.key >= cur THEN e.secs ELSE 0

\* One more entry gives back what it holds.
LEMMA RestorableAppend ==
  ASSUME NEW c \in Seq(EntriesOf(Int)), NEW e \in EntriesOf(Int), NEW cur \in Int
  PROVE  Restorable(Append(c, e), cur) = Restorable(c, cur) + Part(e, cur)
<1> DEFINE d == Append(c, e)
           n == Len(c)
<1>1. d \in Seq(EntriesOf(Int)) /\ Len(d) = n + 1 /\ n \in Nat /\ d[n + 1] = e
      /\ \A i \in 1 .. n : d[i] = c[i]
  OBVIOUS
<1> HIDE DEF d
<1>2. PICK s : /\ Sums(s, c, cur) /\ \A i \in 0 .. n : s[i] \in Nat
               /\ Restorable(c, cur) = s[n]
  BY RestorableIs
<1>3. PICK t : /\ Sums(t, d, cur) /\ \A i \in 0 .. Len(d) : t[i] \in Nat
               /\ Restorable(d, cur) = t[Len(d)]
  BY <1>1, RestorableIs
<1>4. \A i \in 0 .. n : t[i] = s[i]
  <2> DEFINE T == [i \in 0 .. n |-> {s[i]}]
  <2>1. \A i \in 0 .. n : T[i] = {s[i]}
    OBVIOUS
  <2>2. t[0] \in T[0]
    BY <1>1, <1>2, <1>3, <2>1 DEF Sums
  <2>3. ASSUME NEW i \in 1 .. n, t[i - 1] \in T[i - 1] PROVE t[i] \in T[i]
    <3>1. i \in 0 .. n /\ i - 1 \in 0 .. n /\ i \in 1 .. Len(d) /\ i \in 1 .. Len(c)
      BY <1>1
    <3>2. t[i - 1] = s[i - 1]
      BY <2>1, <2>3, <3>1
    <3>3. t[i] = s[i]
      BY <1>1, <1>2, <1>3, <3>1, <3>2 DEF Sums
    <3> QED
      BY <2>1, <3>1, <3>3
  <2> HIDE DEF T
  <2>4. \A i \in 0 .. n : t[i] \in T[i]
    BY <1>1, <2>2, <2>3, FoldStays
  <2> QED
    BY <2>1, <2>4
<1>5. t[n + 1] = IF e.key >= cur THEN t[n] + e.secs ELSE t[n]
  <2>1. n + 1 \in 1 .. Len(d) /\ (n + 1) - 1 = n
    BY <1>1
  <2> QED
    BY <1>1, <1>3, <2>1 DEF Sums
<1>6. t[n] = s[n] /\ s[n] \in Nat
  BY <1>1, <1>2, <1>4
<1> QED
  BY <1>1, <1>2, <1>3, <1>5, <1>6 DEF d, Part

\* What is pushed is kept: the chain stays within its cap, reaches as far back as
\* it did, and gives back no less than it would have and what was pushed.
LEMMA PushKeeps ==
  ASSUME NEW K, K \subseteq Int,
         NEW c \in Seq(EntriesOf(K)), Len(c) <= ChainCap, NEW e \in EntriesOf(K),
         \A i \in 1 .. Len(c) : c[i].key < e.key
  PROVE  /\ Push(c, e) \in Seq(EntriesOf(K)) /\ Len(Push(c, e)) <= ChainCap
         /\ Push(c, e) # <<>>
         /\ Push(c, e)[1].key = IF c = <<>> THEN e.key ELSE c[1].key
         /\ \A i \in 1 .. Len(Push(c, e)) : Push(c, e)[i].key <= e.key
         /\ \A cur \in Int : Restorable(Push(c, e), cur) >= Restorable(c, cur) + Part(e, cur)
<1>1. /\ Len(c) \in Nat /\ e.key \in K /\ e.key \in Int /\ e.secs \in Nat
      /\ \A i \in 1 .. Len(c) : c[i].key \in K /\ c[i].key \in Int /\ c[i].secs \in Nat
      /\ EntriesOf(K) \subseteq EntriesOf(Int)
      /\ c \in Seq(EntriesOf(Int)) /\ e \in EntriesOf(Int)
  <2>1. \A i \in 1 .. Len(c) : c[i] \in EntriesOf(K)
    OBVIOUS
  <2>2. EntriesOf(K) \subseteq EntriesOf(Int)
    BY DEF EntriesOf
  <2>3. c \in Seq(EntriesOf(Int)) /\ e \in EntriesOf(Int)
    BY <2>1, <2>2
  <2>4. \A x \in EntriesOf(K) : x.key \in K /\ x.key \in Int /\ x.secs \in Nat
    BY DEF EntriesOf
  <2> QED
    BY <2>1, <2>2, <2>3, <2>4
<1>2. CASE Len(c) + 1 <= ChainCap
  <2>1. Push(c, e) = Append(c, e)
    BY <1>1, <1>2 DEF Push
  <2>2. PICK d : d = Append(c, e)
    OBVIOUS
  <2>3. /\ d \in Seq(EntriesOf(K)) /\ Len(d) = Len(c) + 1 /\ d[Len(c) + 1] = e
        /\ \A i \in 1 .. Len(c) : d[i] = c[i]
    BY <2>2
  <2>4. d # <<>> /\ d[1].key = IF c = <<>> THEN e.key ELSE c[1].key
    <3>1. CASE c = <<>>
      BY <2>3, <3>1
    <3>2. CASE c # <<>>
      <4>1. 1 \in 1 .. Len(c)
        BY <1>1, <3>2
      <4> QED
        BY <2>3, <3>2, <4>1
    <3> QED
      BY <3>1, <3>2
  <2>5. ASSUME NEW i \in 1 .. Len(d) PROVE d[i].key <= e.key
    BY <1>1, <2>3, <2>5
  <2>6. ASSUME NEW cur \in Int PROVE Restorable(d, cur) >= Restorable(c, cur) + Part(e, cur)
    <3>1. Restorable(d, cur) = Restorable(c, cur) + Part(e, cur)
      BY <1>1, <2>2, RestorableAppend
    <3>2. Restorable(c, cur) \in Nat /\ Part(e, cur) \in Nat
      BY <1>1, RestorableIsNat DEF Part
    <3> QED
      BY <3>1, <3>2
  <2> QED
    BY <1>1, <1>2, <2>1, <2>2, <2>3, <2>4, <2>5, <2>6
<1>3. CASE ~(Len(c) + 1 <= ChainCap)
  <2> DEFINE q == Len(c)
             p == SubSeq(c, 1, q - 1)
             m == [key |-> e.key, secs |-> c[q].secs + e.secs]
             d == Append(p, m)
  <2>1. q = ChainCap /\ q \in Nat /\ q >= 2 /\ q \in 1 .. q
    BY <1>1, <1>3
  <2>2. /\ p \in Seq(EntriesOf(K)) /\ Len(p) = q - 1
        /\ \A i \in 1 .. q - 1 : p[i] = c[i]
    BY <2>1
  <2>3. c[q].key \in K /\ c[q].key \in Int /\ c[q].key < e.key /\ c[q].secs \in Nat /\ c[q] \in EntriesOf(K)
    BY <1>1, <2>1
  <2>4. m \in EntriesOf(K) /\ m.key = e.key /\ m.secs = c[q].secs + e.secs
    BY <1>1, <2>3 DEF EntriesOf
  <2>5. Push(c, e) = d
    <3> DEFINE a == Append(c, e)
    <3>1. Len(a) = q + 1 /\ a[q + 1] = e /\ a[q] = c[q] /\ \A i \in 1 .. q : a[i] = c[i]
      BY <2>1
    <3>2. a \in Seq(EntriesOf(K))
      OBVIOUS
    <3> HIDE DEF a
    <3>3. (q + 1) - 1 = q /\ (q + 1) - 2 = q - 1 /\ ~(q + 1 <= ChainCap)
      BY <2>1
    <3>4. SubSeq(a, 1, q - 1) = p
      BY <2>1, <2>2, <3>1, <3>2
    <3>5. ~(a[q].key > a[q + 1].key) /\ a[q + 1].key > a[q].key
      BY <1>1, <2>3, <3>1
    <3> HIDE DEF p
    <3> QED
      BY <3>1, <3>3, <3>4, <3>5 DEF Push, a
  <2> HIDE DEF p, m
  <2>6. /\ d \in Seq(EntriesOf(K)) /\ Len(d) = q /\ d[q] = m
        /\ \A i \in 1 .. q - 1 : d[i] = c[i]
    BY <2>1, <2>2, <2>4
  <2>7. d # <<>> /\ d[1].key = c[1].key /\ c # <<>>
    BY <2>1, <2>6
  <2>8. ASSUME NEW i \in 1 .. Len(d) PROVE d[i].key <= e.key
    <3>1. CASE i = q
      BY <1>1, <2>4, <2>6, <3>1
    <3>2. CASE i # q
      BY <1>1, <2>1, <2>6, <3>2
    <3> QED
      BY <3>1, <3>2
  <2>9. ASSUME NEW cur \in Int PROVE Restorable(d, cur) >= Restorable(c, cur) + Part(e, cur)
    <3>1. p \in Seq(EntriesOf(Int)) /\ m \in EntriesOf(Int) /\ c[q] \in EntriesOf(Int)
      BY <1>1, <2>2, <2>3, <2>4
    <3>2. c = Append(p, c[q])
      BY <2>1, <2>2
    <3>3. Restorable(d, cur) = Restorable(p, cur) + Part(m, cur)
      BY <3>1, RestorableAppend
    <3>4. Restorable(c, cur) = Restorable(p, cur) + Part(c[q], cur)
      BY <3>1, <3>2, RestorableAppend
    <3>5. Restorable(p, cur) \in Nat
      BY <3>1, RestorableIsNat
    <3>6. /\ Part(m, cur) \in Nat /\ Part(c[q], cur) \in Nat /\ Part(e, cur) \in Nat
          /\ Part(m, cur) >= Part(c[q], cur) + Part(e, cur)
      BY <1>1, <2>3, <2>4 DEF Part
    <3> QED
      BY <3>3, <3>4, <3>5, <3>6
  <2> HIDE DEF d
  <2> QED
    BY <2>1, <2>5, <2>6, <2>7, <2>8, <2>9
<1> QED
  BY <1>2, <1>3

-----------------------------------------------------------------------------
(* One meter. *)

LEMMA KeysAreInts == Keys \subseteq Int
  BY BoundsAssumption DEF Keys

LEMMA MeterType ==
  ASSUME NEW m
  PROVE  m \in Meters <=> /\ m = [key |-> m.key, secs |-> m.secs, chain |-> m.chain]
                          /\ m.key \in Keys /\ m.secs \in Nat
                          /\ m.chain \in Seq(EntriesOf(Keys)) /\ Len(m.chain) <= ChainCap
  BY DEF Meters, Entries, EntriesOf

\* A meter and its chain are numbers.
LEMMA MeterNumbers ==
  ASSUME NEW m \in Meters
  PROVE  /\ m.key \in Int /\ m.secs \in Nat /\ m.chain \in Seq(EntriesOf(Keys))
         /\ m.chain \in Seq(EntriesOf(Int))
         /\ Len(m.chain) \in Nat /\ Len(m.chain) <= ChainCap
         /\ \A i \in 1 .. Len(m.chain) : m.chain[i].key \in Int
         /\ \A cur \in Int : Restorable(m.chain, cur) \in Nat
<1>1. /\ m.key \in Keys /\ m.secs \in Nat /\ m.chain \in Seq(EntriesOf(Keys))
      /\ Len(m.chain) <= ChainCap
  BY MeterType
<1>2. EntriesOf(Keys) \subseteq EntriesOf(Int)
  BY KeysAreInts DEF EntriesOf
<1>3. \A i \in 1 .. Len(m.chain) : m.chain[i] \in EntriesOf(Int)
  BY <1>1, <1>2
<1>4. m.chain \in Seq(EntriesOf(Int)) /\ Len(m.chain) \in Nat
  BY <1>1, <1>3
<1>5. \A e \in EntriesOf(Int) : e.key \in Int
  BY DEF EntriesOf
<1>6. \A cur \in Int : Restorable(m.chain, cur) \in Nat
  BY <1>4, RestorableIsNat
<1> QED
  BY <1>1, <1>3, <1>4, <1>5, <1>6, KeysAreInts

\* What a roll makes of a meter, by the clock and by where its key stands.
RollCases(R, m, cur, t, bound) ==
  /\ cur > m.key /\ t => R = [key |-> cur, secs |-> 0, chain |-> <<>>]
  /\ cur > m.key /\ ~t =>
       R = [key |-> cur, secs |-> 0,
            chain |-> Push(m.chain, [key |-> m.key, secs |-> m.secs])]
  /\ cur = m.key /\ t => R = [key |-> cur, secs |-> m.secs, chain |-> <<>>]
  /\ Restores(t, m, cur) =>
       R = [key |-> cur, secs |-> m.secs + Restorable(m.chain, cur), chain |-> <<>>]
  /\ m.key > cur /\ t /\ ~Restores(t, m, cur) /\ m.key - cur > bound =>
       R = [key |-> cur, secs |-> m.secs, chain |-> <<>>]
  /\ m.key > cur /\ t /\ ~Restores(t, m, cur) /\ m.key - cur <= bound => R = m
  /\ cur <= m.key /\ ~t => R = m

LEMMA RolledIs ==
  ASSUME NEW m \in Meters, NEW cur \in Keys, NEW t \in BOOLEAN, NEW bound \in Nat
  PROVE  RollCases(RolledMeter(m, cur, t, bound), m, cur, t, bound)
<1> DEFINE M == Moved(m, cur, t, bound)
           R == RolledMeter(m, cur, t, bound)
<1>1. /\ m.key \in Int /\ cur \in Int
      /\ m = [key |-> m.key, secs |-> m.secs, chain |-> m.chain]
  BY MeterNumbers, KeysAreInts, MeterType
<1>2. R = IF t /\ M.key = cur THEN [M EXCEPT !.chain = <<>>] ELSE M
  BY DEF RolledMeter
<1>3. cur > m.key =>
        M = [key |-> cur, secs |-> 0,
             chain |-> IF t THEN m.chain ELSE Push(m.chain, [key |-> m.key, secs |-> m.secs])]
  BY <1>1 DEF Moved, Restores
<1>4. Restores(t, m, cur) =>
        M = [key |-> cur, secs |-> m.secs + Restorable(m.chain, cur), chain |-> <<>>]
  <2> HAVE Restores(t, m, cur)
  <2>1. t /\ m.key > cur /\ ~(cur > m.key)
    BY <1>1 DEF Restores
  <2> QED
    BY <2>1 DEF Moved
<1>5. cur <= m.key /\ ~Restores(t, m, cur) =>
        M = IF t /\ m.key - cur > bound THEN [m EXCEPT !.key = cur] ELSE m
  BY <1>1 DEF Moved, DropsBack
<1>6. Restores(t, m, cur) => t /\ m.key > cur
  BY DEF Restores
<1>7. [m EXCEPT !.key = cur] = [key |-> cur, secs |-> m.secs, chain |-> m.chain]
      /\ [m EXCEPT !.chain = <<>>] = [key |-> m.key, secs |-> m.secs, chain |-> <<>>]
  BY <1>1
<1> HIDE DEF M, R
<1>8. cur > m.key /\ t => R = [key |-> cur, secs |-> 0, chain |-> <<>>]
  BY <1>2, <1>3
<1>9. cur > m.key /\ ~t =>
        R = [key |-> cur, secs |-> 0,
             chain |-> Push(m.chain, [key |-> m.key, secs |-> m.secs])]
  BY <1>2, <1>3
<1>10. cur = m.key /\ t => R = [key |-> cur, secs |-> m.secs, chain |-> <<>>]
  <2> HAVE cur = m.key /\ t
  <2>1. ~Restores(t, m, cur) /\ ~(m.key - cur > bound)
    BY <1>1 DEF Restores
  <2>2. M = m
    BY <1>1, <1>5, <2>1 DEF Restores
  <2> QED
    BY <1>2, <1>7, <2>2
<1>11. Restores(t, m, cur) =>
         R = [key |-> cur, secs |-> m.secs + Restorable(m.chain, cur), chain |-> <<>>]
  BY <1>2, <1>4, <1>6
<1>12. m.key > cur /\ t /\ ~Restores(t, m, cur) /\ m.key - cur > bound =>
         R = [key |-> cur, secs |-> m.secs, chain |-> <<>>]
  <2> HAVE m.key > cur /\ t /\ ~Restores(t, m, cur) /\ m.key - cur > bound
  <2>1. M = [key |-> cur, secs |-> m.secs, chain |-> m.chain]
    BY <1>1, <1>5, <1>7 DEF Restores
  <2> QED
    BY <1>2, <2>1
<1>13. m.key > cur /\ t /\ ~Restores(t, m, cur) /\ m.key - cur <= bound => R = m
  <2> HAVE m.key > cur /\ t /\ ~Restores(t, m, cur) /\ m.key - cur <= bound
  <2>1. M = m
    BY <1>1, <1>5 DEF Restores
  <2> QED
    BY <1>1, <1>2, <2>1
<1>14. cur <= m.key /\ ~t => R = m
  BY <1>1, <1>2, <1>5, <1>6
<1> QED
  BY <1>8, <1>9, <1>10, <1>11, <1>12, <1>13, <1>14 DEF R, RollCases

\* The chain of a meter was set aside before its key.
Ordered(m) == \A i \in 1 .. Len(m.chain) : m.chain[i].key < m.key

\* A meter just started, or pulled back, without a chain.
LEMMA Unchained ==
  ASSUME NEW k \in Keys, NEW n \in Nat
  PROVE  [key |-> k, secs |-> n, chain |-> <<>>] \in Meters
         /\ Ordered([key |-> k, secs |-> n, chain |-> <<>>])
<1> DEFINE m == [key |-> k, secs |-> n, chain |-> <<>>]
<1>1. m.key = k /\ m.secs = n /\ m.chain = <<>> /\ m = [key |-> m.key, secs |-> m.secs, chain |-> m.chain]
  OBVIOUS
<1> HIDE DEF m
<1>2. m.chain \in Seq(EntriesOf(Keys)) /\ Len(m.chain) = 0 /\ 0 <= ChainCap
  BY <1>1
<1>3. m \in Meters
  BY <1>1, <1>2, MeterType
<1>4. Ordered(m)
  BY <1>2 DEF Ordered
<1> QED
  BY <1>3, <1>4 DEF m

\* A push before a later key.
LEMMA PushedMeter ==
  ASSUME NEW m \in Meters, Ordered(m), NEW cur \in Keys, cur > m.key,
         NEW R, R = [key |-> cur, secs |-> 0,
                     chain |-> Push(m.chain, [key |-> m.key, secs |-> m.secs])]
  PROVE  /\ R \in Meters /\ Ordered(R) /\ R.key = cur /\ R.secs = 0 /\ R.chain # <<>>
         /\ R.chain[1].key = IF m.chain = <<>> THEN m.key ELSE m.chain[1].key
         /\ \A real \in Int : Restorable(R.chain, real) >=
              Restorable(m.chain, real) + (IF m.key >= real THEN m.secs ELSE 0)
<1>1. PICK e : e = [key |-> m.key, secs |-> m.secs]
  OBVIOUS
<1>2. e \in EntriesOf(Keys) /\ e.key = m.key /\ e.secs = m.secs
  BY <1>1, MeterType DEF EntriesOf
<1>3. PICK c : c = m.chain
  OBVIOUS
<1>4. /\ c \in Seq(EntriesOf(Keys)) /\ Len(c) <= ChainCap
      /\ \A i \in 1 .. Len(c) : c[i].key < e.key
  BY <1>2, <1>3, MeterType DEF Ordered
<1>5. PICK p : p = Push(c, e)
  OBVIOUS
<1>6. /\ p \in Seq(EntriesOf(Keys)) /\ Len(p) <= ChainCap /\ p # <<>>
      /\ p[1].key = IF c = <<>> THEN e.key ELSE c[1].key
      /\ \A i \in 1 .. Len(p) : p[i].key <= e.key
      /\ \A real \in Int : Restorable(p, real) >= Restorable(c, real) + Part(e, real)
  <2>1. PICK K : K = Keys
    OBVIOUS
  <2>2. K \subseteq Int /\ c \in Seq(EntriesOf(K)) /\ e \in EntriesOf(K)
    BY <1>2, <1>4, <2>1, KeysAreInts, Zenon
  <2>3. /\ Push(c, e) \in Seq(EntriesOf(K)) /\ Len(Push(c, e)) <= ChainCap /\ Push(c, e) # <<>>
        /\ Push(c, e)[1].key = IF c = <<>> THEN e.key ELSE c[1].key
        /\ \A i \in 1 .. Len(Push(c, e)) : Push(c, e)[i].key <= e.key
        /\ \A real \in Int : Restorable(Push(c, e), real) >= Restorable(c, real) + Part(e, real)
    BY <1>4, <2>2, PushKeeps, Zenon
  <2> QED
    BY <1>5, <2>1, <2>3, Zenon
<1>7. R.key = cur /\ R.secs = 0 /\ R.chain = p /\ R = [key |-> R.key, secs |-> R.secs, chain |-> R.chain]
  <2>1. R = [key |-> cur, secs |-> 0, chain |-> p]
    BY <1>1, <1>3, <1>5, Zenon
  <2>2. R.key = cur /\ R.secs = 0 /\ R.chain = p
    BY <2>1
  <2> QED
    BY <2>1, <2>2
<1>8. R \in Meters
  <2>1. 0 \in Nat
    OBVIOUS
  <2>2. R.key \in Keys /\ R.secs \in Nat /\ R.chain \in Seq(EntriesOf(Keys)) /\ Len(R.chain) <= ChainCap
    BY <1>6, <1>7, <2>1, Zenon
  <2> QED
    BY <1>7, <2>2, MeterType, Zenon
<1>9. Ordered(R)
  <2> SUFFICES ASSUME NEW i \in 1 .. Len(p) PROVE p[i].key < cur
    BY <1>7 DEF Ordered
  <2>1. p[i].key \in Int
    BY <1>7, <1>8, MeterNumbers
  <2>2. m.key \in Int /\ cur \in Int
    BY MeterNumbers, KeysAreInts
  <2> QED
    BY <1>2, <1>6, <2>1, <2>2
<1>10. ASSUME NEW real \in Int
       PROVE  Part(e, real) = IF m.key >= real THEN m.secs ELSE 0
  BY <1>2 DEF Part
<1> QED
  BY <1>2, <1>3, <1>6, <1>7, <1>8, <1>9, <1>10

\* A roll keeps a meter a meter.
LEMMA RolledMeterType ==
  ASSUME NEW m \in Meters, Ordered(m), NEW cur \in Keys, NEW t \in BOOLEAN, NEW bound \in Nat,
         NEW R, RollCases(R, m, cur, t, bound)
  PROVE  R \in Meters /\ Ordered(R)
<1>1. /\ m.key \in Int /\ cur \in Int /\ m.secs \in Nat /\ Restorable(m.chain, cur) \in Nat
      /\ m.secs + Restorable(m.chain, cur) \in Nat
  <2>1. cur \in Int
    BY KeysAreInts
  <2>2. m.key \in Int /\ m.secs \in Nat
    BY MeterNumbers, Zenon
  <2>3. Restorable(m.chain, cur) \in Nat
    BY <2>1, MeterNumbers, Zenon
  <2> HIDE DEF Restorable
  <2> QED
    BY <2>1, <2>2, <2>3
<1>2. CASE R = m
  BY <1>2
<1>3. CASE \E n \in Nat : R = [key |-> cur, secs |-> n, chain |-> <<>>]
  BY <1>3, Unchained
<1>4. CASE cur > m.key /\ ~t
  <2>1. R = [key |-> cur, secs |-> 0,
             chain |-> Push(m.chain, [key |-> m.key, secs |-> m.secs])]
    BY <1>4 DEF RollCases
  <2> QED
    BY <1>4, <2>1, PushedMeter
<1>5. R = m \/ (\E n \in Nat : R = [key |-> cur, secs |-> n, chain |-> <<>>]) \/ (cur > m.key /\ ~t)
  <2>1. CASE cur > m.key /\ t
    BY <2>1 DEF RollCases
  <2>2. CASE cur = m.key /\ t
    BY <1>1, <2>2 DEF RollCases
  <2>3. CASE m.key > cur /\ t /\ Restores(t, m, cur)
    BY <1>1, <2>3 DEF RollCases
  <2>4. CASE m.key > cur /\ t /\ ~Restores(t, m, cur) /\ m.key - cur > bound
    BY <1>1, <2>4 DEF RollCases
  <2>5. CASE m.key > cur /\ t /\ ~Restores(t, m, cur) /\ m.key - cur <= bound
    BY <2>5 DEF RollCases
  <2>6. CASE cur <= m.key /\ ~t
    BY <2>6 DEF RollCases
  <2>7. m.key > cur /\ t /\ ~Restores(t, m, cur) => m.key - cur > bound \/ m.key - cur <= bound
    BY <1>1
  <2>8. cur > m.key \/ cur = m.key \/ m.key > cur
    BY <1>1
  <2>9. ~t => cur > m.key \/ cur <= m.key
    BY <1>1
  <2> QED
    BY <2>1, <2>2, <2>3, <2>4, <2>5, <2>6, <2>7, <2>8, <2>9
<1> QED
  BY <1>2, <1>3, <1>4, <1>5

-----------------------------------------------------------------------------
(* What it is for one meter to be right about its history. *)

\* Nothing the clock has passed is due; a key that is real holds what is due; a
\* key ahead of the real one still reaches back, by its chain, to what is due.
Right(m, real, h) ==
  /\ Ordered(m)
  /\ ~h.sound => h.secs = 0
  /\ h.secs # 0 => h.at <= real
  /\ h.sound =>
      /\ m.key < real => Charged(h, real) = 0
      /\ m.key = real => m.secs >= Charged(h, real)
      /\ m.key > real => /\ m.chain # <<>> /\ m.chain[1].key <= real
                         /\ m.secs + Restorable(m.chain, real) >= Charged(h, real)

LEMMA ChargedIs ==
  ASSUME NEW h \in Histories, NEW real \in Keys
  PROVE  /\ Charged(h, real) \in Nat /\ h.at \in Int /\ h.secs \in Nat /\ h.sound \in BOOLEAN
         /\ Charged(h, real) # 0 => Charged(h, real) = h.secs /\ h.at = real
         /\ h.secs = 0 => Charged(h, real) = 0
  BY KeysAreInts DEF Histories, Charged

\* Nothing is due of a history that has not begun.
LEMMA UnchargedIsRight ==
  ASSUME NEW m, Ordered(m), NEW real \in Keys
  PROVE  Right(m, real, Uncharged) /\ Charged(Uncharged, real) = 0
  BY DEF Right, Uncharged, Charged

\* A trusted roll counts what is due.
LEMMA TrustedReads ==
  ASSUME NEW m \in Meters, NEW real \in Keys, NEW h \in Histories, NEW bound \in Nat,
         NEW t \in BOOLEAN, Right(m, real, h),
         NEW R, RollCases(R, m, real, t, bound)
  PROVE  t => R.secs >= Charged(h, real)
<1>1. m.key \in Int /\ real \in Int /\ m.secs \in Nat /\ Restorable(m.chain, real) \in Nat
  BY MeterNumbers, KeysAreInts
<1>2. PICK charged \in Nat : charged = Charged(h, real)
  BY ChargedIs
<1>3. CASE real > m.key /\ t
  <2>1. R.secs = 0
    BY <1>3 DEF RollCases
  <2>2. charged = 0
    BY <1>1, <1>2, <1>3, ChargedIs DEF Right
  <2> QED
    BY <1>2, <2>1, <2>2
<1>4. CASE real = m.key /\ t
  <2>1. R.secs = m.secs
    BY <1>4 DEF RollCases
  <2>2. m.secs >= charged
    BY <1>1, <1>2, <1>4, ChargedIs DEF Right
  <2> QED
    BY <1>2, <2>1, <2>2
<1>5. CASE m.key > real /\ h.sound /\ t
  <2>1. /\ m.chain # <<>> /\ m.chain[1].key <= real
        /\ m.secs + Restorable(m.chain, real) >= charged
    BY <1>2, <1>5 DEF Right
  <2>2. Restores(t, m, real)
    BY <1>5, <2>1 DEF Restores
  <2>3. R.secs = m.secs + Restorable(m.chain, real)
    BY <2>2 DEF RollCases
  <2> QED
    BY <1>2, <2>1, <2>3
<1>6. CASE ~h.sound
  <2>1. charged = 0
    BY <1>2, <1>6, ChargedIs DEF Right
  <2>2. R \in Meters
    BY RolledMeterType DEF Right
  <2>3. R.secs \in Nat
    BY <2>2, MeterType
  <2> QED
    BY <1>2, <2>1, <2>3
<1>7. real > m.key \/ real = m.key \/ m.key > real
  BY <1>1
<1> QED
  BY <1>3, <1>4, <1>5, <1>6, <1>7

\* A trusted clock reads the real key.
Reads(t, cur, real) == t => cur = real

\* A roll keeps a meter right, when a trusted clock reads the real key.
LEMMA RollKeepsRight ==
  ASSUME NEW m \in Meters, NEW real \in Keys, NEW cur \in Keys, NEW t \in BOOLEAN,
         NEW h \in Histories, NEW bound \in Nat,
         Reads(t, cur, real), Right(m, real, h),
         NEW R, RollCases(R, m, cur, t, bound)
  PROVE  Right(R, real, h)
<1>1. /\ m.key \in Int /\ real \in Int /\ cur \in Int /\ m.secs \in Nat
      /\ Restorable(m.chain, real) \in Nat
      /\ \A i \in 1 .. Len(m.chain) : m.chain[i].key \in Int
      /\ m.chain \in Seq(EntriesOf(Keys)) /\ Ordered(m)
  BY MeterNumbers, KeysAreInts DEF Right
<1>2. R \in Meters /\ Ordered(R)
  BY <1>1, RolledMeterType
<1>3. R \in Meters /\ Ordered(R) /\ R.key \in Int /\ R.secs \in Nat
      /\ Restorable(R.chain, real) \in Nat
  <2>1. R \in Meters /\ Ordered(R)
    BY <1>2
  <2> QED
    BY <1>1, <2>1, MeterNumbers
<1>4. PICK charged \in Nat : charged = Charged(h, real)
  BY ChargedIs
<1>5. CASE ~h.sound
  BY <1>3, <1>5 DEF Right
<1>6. CASE h.sound /\ t
  <2>1. R.secs >= charged
    <3>1. t /\ cur = real
      BY <1>6 DEF Reads
    <3>2. RollCases(R, m, real, t, bound)
      BY <3>1
    <3>3. t => R.secs >= Charged(h, real)
      BY <3>2, TrustedReads
    <3> QED
      BY <1>4, <3>1, <3>3
  <2>2. cur = real
    BY <1>6 DEF Reads
  <2>3. CASE R.key = real
    BY <1>1, <1>3, <1>4, <1>6, <2>1, <2>3 DEF Right
  <2>4. CASE R = m
    BY <2>4
  <2>5. CASE real > m.key
    <3>1. R.key = real
      BY <1>6, <2>2, <2>5 DEF RollCases
    <3> QED
      BY <2>3, <3>1
  <2>6. CASE real = m.key
    <3>1. R.key = real
      BY <1>6, <2>2, <2>6 DEF RollCases
    <3> QED
      BY <2>3, <3>1
  <2>7. CASE m.key > real
    <3>1. m.chain # <<>> /\ m.chain[1].key <= real
      BY <1>6, <2>7 DEF Right
    <3>2. Restores(t, m, cur)
      BY <1>6, <2>2, <2>7, <3>1 DEF Restores
    <3>3. R.key = real
      BY <2>2, <3>2 DEF RollCases
    <3> QED
      BY <2>3, <3>3
  <2> QED
    BY <1>1, <2>5, <2>6, <2>7
<1>7. CASE h.sound /\ ~t /\ cur <= m.key
  <2>1. R = m
    BY <1>7 DEF RollCases
  <2> QED
    BY <2>1
<1>8. CASE h.sound /\ ~t /\ cur > m.key
  <2>1. R = [key |-> cur, secs |-> 0,
             chain |-> Push(m.chain, [key |-> m.key, secs |-> m.secs])]
    BY <1>8 DEF RollCases
  <2>2. PICK back : back = IF m.key >= real THEN m.secs ELSE 0
    OBVIOUS
  <2>3. /\ R.key = cur /\ R.secs = 0 /\ R.chain # <<>>
        /\ R.chain[1].key = IF m.chain = <<>> THEN m.key ELSE m.chain[1].key
        /\ Restorable(R.chain, real) >= Restorable(m.chain, real) + back
    <3>1. cur > m.key
      BY <1>8
    <3> QED
      BY <1>1, <2>1, <2>2, <3>1, PushedMeter
  <2>4. m.key < real => charged = 0
    BY <1>4, <1>8 DEF Right
  <2>5. m.chain # <<>> => m.chain[1].key \in Int /\ m.chain[1].key < m.key
    <3> HAVE m.chain # <<>>
    <3>1. 1 \in 1 .. Len(m.chain)
      BY <1>1
    <3> QED
      BY <1>1, <3>1 DEF Ordered
  <2>6. m.key <= real \/ (m.chain # <<>> /\ m.chain[1].key <= real)
    BY <1>1, <1>8 DEF Right
  <2>7. R.chain[1].key <= real
    BY <1>1, <2>3, <2>5, <2>6
  <2>8. Restorable(R.chain, real) >= charged
    <3>1. m.key = real => m.secs >= charged
      BY <1>4, <1>8 DEF Right
    <3>2. m.key > real => m.secs + Restorable(m.chain, real) >= charged
      BY <1>4, <1>8 DEF Right
    <3>3. Restorable(R.chain, real) >= Restorable(m.chain, real) + back
      BY <2>3
    <3> QED
      BY <1>1, <1>3, <2>2, <2>4, <3>1, <3>2, <3>3
  <2>9. cur <= real => charged = 0
    BY <1>1, <1>8, <2>4
  <2> QED
    BY <1>1, <1>3, <1>4, <1>8, <2>3, <2>7, <2>8, <2>9 DEF Right
<1> QED
  BY <1>1, <1>5, <1>6, <1>7, <1>8

\* What is charged is noted, and counted.
LEMMA ChargeKeepsRight ==
  ASSUME NEW R \in Meters, NEW real \in Keys, NEW h \in Histories, NEW use \in Nat,
         NEW M, M = [key |-> R.key, secs |-> R.secs + use, chain |-> R.chain],
         Right(R, real, h)
  PROVE  /\ M \in Meters /\ Right(M, real, Noted(h, M, real, use))
         /\ Noted(h, M, real, use) \in Histories
         /\ Charged(Noted(h, M, real, use), real) <= Charged(h, real) + use
         /\ (h.sound \/ R.key <= real) /\ R.key >= real =>
              Charged(Noted(h, M, real, use), real) = Charged(h, real) + use
<1>1. /\ M.key = R.key /\ M.secs = R.secs + use /\ M.chain = R.chain
      /\ M = [key |-> M.key, secs |-> M.secs, chain |-> M.chain]
  OBVIOUS
<1>2. /\ R.key \in Int /\ R.secs \in Nat /\ real \in Int /\ Restorable(R.chain, real) \in Nat
      /\ R.key \in Keys /\ R.chain \in Seq(EntriesOf(Keys)) /\ Len(R.chain) <= ChainCap
  BY MeterNumbers, KeysAreInts, MeterType
<1>3. M \in Meters /\ Ordered(M)
  <2>1. M \in Meters
    BY <1>1, <1>2, MeterType
  <2> QED
    BY <1>1, <2>1 DEF Right, Ordered
<1>4. PICK charged \in Nat : charged = Charged(h, real)
  BY ChargedIs
<1>5. h.sound \in BOOLEAN /\ h.at \in Keys /\ h.secs \in Nat /\ h.at \in Int
      /\ h = [sound |-> h.sound, at |-> h.at, secs |-> h.secs]
  BY KeysAreInts DEF Histories
<1>6. PICK g : g = Noted(h, M, real, use)
  OBVIOUS
<1>7. CASE (h.sound \/ R.key <= real) /\ R.key >= real
  <2>1. g = [sound |-> TRUE, at |-> real, secs |-> charged + use]
    BY <1>1, <1>4, <1>6, <1>7 DEF Noted
  <2>2. g \in Histories /\ Charged(g, real) = charged + use
    BY <2>1 DEF Histories, Charged
  <2>3. R.key = real => R.secs >= charged
    <3>1. CASE h.sound
      BY <1>4, <3>1 DEF Right
    <3>2. CASE ~h.sound
      BY <1>2, <1>4, <3>2, ChargedIs DEF Right
    <3> QED
      BY <3>1, <3>2
  <2>4. R.key > real => /\ R.chain # <<>> /\ R.chain[1].key <= real
                        /\ R.secs + Restorable(R.chain, real) >= charged
    BY <1>2, <1>4, <1>7 DEF Right
  <2>5. Right(M, real, g)
    BY <1>1, <1>2, <1>3, <1>7, <2>1, <2>2, <2>3, <2>4 DEF Right
  <2> QED
    BY <1>3, <1>4, <1>6, <2>2, <2>5
<1>8. CASE (h.sound \/ R.key <= real) /\ ~(R.key >= real)
  <2>1. g = [sound |-> TRUE, at |-> h.at, secs |-> h.secs]
    BY <1>1, <1>5, <1>6, <1>8 DEF Noted
  <2>2. g \in Histories /\ Charged(g, real) = charged
    BY <1>4, <1>5, <2>1 DEF Histories, Charged
  <2>3. charged = 0
    <3>1. CASE h.sound
      BY <1>2, <1>4, <1>8, <3>1 DEF Right
    <3>2. CASE ~h.sound
      BY <1>4, <3>2, ChargedIs DEF Right
    <3> QED
      BY <3>1, <3>2
  <2>4. Right(M, real, g)
    BY <1>1, <1>2, <1>3, <1>8, <2>1, <2>2, <2>3 DEF Right
  <2> QED
    BY <1>3, <1>4, <1>6, <1>8, <2>2, <2>3, <2>4
<1>9. CASE ~(h.sound \/ R.key <= real)
  <2>1. g = h
    BY <1>1, <1>5, <1>6, <1>9 DEF Noted
  <2>2. Right(M, real, h)
    BY <1>3, <1>9 DEF Right
  <2> QED
    BY <1>3, <1>4, <1>6, <1>9, <2>1, <2>2
<1> QED
  BY <1>7, <1>8, <1>9

\* The next real key owes nothing yet.
LEMMA LaterIsRight ==
  ASSUME NEW m \in Meters, NEW real \in Keys, NEW real2 \in Keys, real <= real2,
         NEW h \in Histories, Right(m, real, h)
  PROVE  Right(m, real2, h) /\ (real # real2 => Charged(h, real2) = 0)
<1>1. CASE real = real2
  BY <1>1
<1>2. CASE real # real2
  <2>1. /\ m.key \in Int /\ m.secs \in Nat /\ real \in Int /\ real2 \in Int /\ real < real2
        /\ Restorable(m.chain, real2) \in Nat /\ h.at \in Int /\ h.secs \in Nat
    BY <1>2, MeterNumbers, KeysAreInts, ChargedIs
  <2>2. Charged(h, real2) = 0
    BY <2>1, ChargedIs DEF Right
  <2>3. m.chain # <<>> => m.chain[1].key \in Int
    <3> HAVE m.chain # <<>>
    <3>1. 1 \in 1 .. Len(m.chain)
      BY MeterNumbers
    <3> QED
      BY <3>1, MeterNumbers
  <2>4. h.sound /\ m.key > real2 => m.chain # <<>> /\ m.chain[1].key <= real2
    <3> HAVE h.sound /\ m.key > real2
    <3>1. m.chain # <<>> /\ m.chain[1].key <= real
      BY <2>1 DEF Right
    <3> QED
      BY <2>1, <2>3, <3>1
  <2> QED
    BY <2>1, <2>2, <2>4 DEF Right
<1> QED
  BY <1>1, <1>2

-----------------------------------------------------------------------------
(* The keys of the clock, and the ledger an iteration leaves. *)

\* A nonzero multiple of n is at least n away from zero.
LEMMA NoMultipleBetween ==
  ASSUME NEW n \in Nat \ {0}, NEW k \in Int, k * n < 0
  PROVE  k * n <= -n
<1>1. k < 0
  BY SMTT(30)
<1>2. (k + 1) * n <= 0
  BY <1>1, SMTT(30)
<1>3. (k + 1) * n = k * n + n /\ k * n \in Int
  BY SMTT(30)
<1> QED
  BY <1>2, <1>3

\* The start of a week is at most a week before the day, and moves with it.
LEMMA WeekKeyIs ==
  ASSUME NEW d \in Int, NEW w \in Int
  PROVE  /\ WeekKey(d, w) \in Int /\ WeekKey(d, w) <= d /\ WeekKey(d, w) > d - WeekLen
         /\ WeekKey(d, w) <= WeekKey(d + 1, w)
<1>1. PICK a \in Int : a = d + WeekLen - w
  OBVIOUS
<1>2. PICK b \in Int : b = a + 1
  OBVIOUS
<1>3. (d + 1) + WeekLen - w = b
  BY <1>1, <1>2
<1>4. WeekLen \in Nat /\ WeekLen > 0
  OBVIOUS
<1>5. PICK r \in 0 .. WeekLen - 1 : r = a % WeekLen
  BY <1>4
<1>6. PICK s \in 0 .. WeekLen - 1 : s = b % WeekLen
  BY <1>4
<1>7. WeekKey(d, w) = d - r /\ WeekKey(d + 1, w) = (d + 1) - s
  BY <1>1, <1>3, <1>5, <1>6 DEF WeekKey
<1>8. PICK p \in Int : p = a \div WeekLen /\ a = p * WeekLen + r
  BY <1>4, <1>5
<1>9. PICK q \in Int : q = b \div WeekLen /\ b = q * WeekLen + s
  BY <1>4, <1>6
<1>10. (q - p) * WeekLen = r + 1 - s
  <2>1. (q - p) * WeekLen = q * WeekLen - p * WeekLen
    BY <1>4
  <2>2. p * WeekLen \in Int /\ q * WeekLen \in Int
    BY <1>4
  <2> QED
    BY <1>2, <1>8, <1>9, <2>1, <2>2
<1>11. s <= r + 1
  <2> SUFFICES ASSUME s > r + 1 PROVE FALSE
    OBVIOUS
  <2>1. (q - p) * WeekLen < 0
    BY <1>10
  <2>2. (q - p) * WeekLen <= -WeekLen
    BY <2>1, NoMultipleBetween
  <2> QED
    BY <1>4, <1>10, <2>2
<1> QED
  BY <1>4, <1>7, <1>11

LEMMA CfgNumbers ==
  ASSUME NEW c \in Configs
  PROVE  c.zone \in 0 .. 2 /\ c.weekStart \in Int
  BY ConfigsAssumption

\* Every key of a clock is a key.
LEMMA KeysOfAClock ==
  ASSUME NEW c \in 1 .. 2 * MaxDay, NEW f \in Configs
  PROVE  /\ DayKey(c, f.zone) \in Keys /\ WeekKey(DayKey(c, f.zone), f.weekStart) \in Keys
         /\ DayKey(c, f.zone) \in Int
<1>1. f.zone \in 0 .. 2 /\ f.weekStart \in Int /\ MaxDay \in Nat
  BY CfgNumbers, BoundsAssumption
<1>2. PICK d \in Int : d = DayKey(c, f.zone)
  BY <1>1 DEF DayKey
<1>3. d >= 1 /\ d <= 2 * MaxDay + 2
  BY <1>1, <1>2 DEF DayKey
<1>4. PICK k \in Int : k = WeekKey(d, f.weekStart) /\ k <= d /\ k > d - WeekLen
  BY <1>1, WeekKeyIs
<1> QED
  BY <1>1, <1>2, <1>3, <1>4 DEF Keys

LEMMA LedgerUpdated ==
  ASSUME NEW L, L = [cfg |-> L.cfg, day |-> L.day, week |-> L.week], NEW D, NEW E
  PROVE  [L EXCEPT !.day = D, !.week = E] = [cfg |-> L.cfg, day |-> D, week |-> E]
<1>1. PICK x : x = [L EXCEPT !.day = D, !.week = E]
  OBVIOUS
<1>2. DOMAIN x = {"cfg", "day", "week"} /\ x.cfg = L.cfg /\ x.day = D /\ x.week = E
  BY <1>1
<1>3. x = [cfg |-> x.cfg, day |-> x.day, week |-> x.week]
  BY <1>1
<1> QED
  BY <1>1, <1>2, <1>3

LEMMA MeterUpdated ==
  ASSUME NEW m, m = [key |-> m.key, secs |-> m.secs, chain |-> m.chain], NEW n
  PROVE  [m EXCEPT !.secs = n] = [key |-> m.key, secs |-> n, chain |-> m.chain]
  OBVIOUS

LEMMA NoneIsNoLedger == None \notin Ledgers
<1> SUFFICES ASSUME None \in Ledgers PROVE FALSE
  OBVIOUS
<1>1. DOMAIN None = {"cfg", "day", "week"}
  BY DEF Ledgers
<1>2. DOMAIN None = {}
  BY DEF None
<1> QED
  BY <1>1, <1>2

LEMMA LedgerType ==
  ASSUME NEW L
  PROVE  L \in Ledgers <=> /\ L = [cfg |-> L.cfg, day |-> L.day, week |-> L.week]
                           /\ L.cfg \in Configs /\ L.day \in Meters /\ L.week \in Meters
  BY DEF Ledgers

\* A ledger just started owes nothing.
LEMMA NewLedgerIs ==
  ASSUME NEW f \in Configs, NEW c \in 1 .. 2 * MaxDay
  PROVE  /\ NewLedger(f, c) \in Ledgers /\ NewLedger(f, c).cfg = f
         /\ NewLedger(f, c).day = [key |-> DayKey(c, f.zone), secs |-> 0, chain |-> <<>>]
         /\ NewLedger(f, c).week = [key |-> WeekKey(DayKey(c, f.zone), f.weekStart),
                                    secs |-> 0, chain |-> <<>>]
         /\ Ordered(NewLedger(f, c).day) /\ Ordered(NewLedger(f, c).week)
<1>1. PICK L : L = NewLedger(f, c)
  OBVIOUS
<1>2. PICK d \in Keys, w \in Keys :
        d = DayKey(c, f.zone) /\ w = WeekKey(DayKey(c, f.zone), f.weekStart)
  BY KeysOfAClock
<1>3. L = [cfg |-> f, day |-> [key |-> d, secs |-> 0, chain |-> <<>>],
           week |-> [key |-> w, secs |-> 0, chain |-> <<>>]]
  BY <1>1, <1>2 DEF NewLedger, Meter
<1>4. /\ [key |-> d, secs |-> 0, chain |-> <<>>] \in Meters
      /\ Ordered([key |-> d, secs |-> 0, chain |-> <<>>])
      /\ [key |-> w, secs |-> 0, chain |-> <<>>] \in Meters
      /\ Ordered([key |-> w, secs |-> 0, chain |-> <<>>])
  BY Unchained
<1>5. L \in Ledgers
  BY <1>3, <1>4, LedgerType
<1> QED
  BY <1>1, <1>2, <1>3, <1>4, <1>5

\* An edit of the clause moves the keys and keeps the counts.
LEMMA ReconciledIs ==
  ASSUME NEW L \in Ledgers, NEW f \in Configs, NEW c \in 1 .. 2 * MaxDay, L.cfg # f
  PROVE  /\ Reconciled(L, f, c) \in Ledgers /\ Reconciled(L, f, c).cfg = f
         /\ Reconciled(L, f, c).day =
              [key |-> DayKey(c, f.zone), secs |-> L.day.secs, chain |-> <<>>]
         /\ Ordered(Reconciled(L, f, c).day) /\ Ordered(Reconciled(L, f, c).week)
<1>1. PICK B : B = Reconciled(L, f, c)
  OBVIOUS
<1>2. PICK d \in Keys, w \in Keys :
        d = DayKey(c, f.zone) /\ w = WeekKey(DayKey(c, f.zone), f.weekStart)
  BY KeysOfAClock
<1>3. PICK s \in Nat, z \in Nat : s = L.day.secs /\ z = L.week.secs
  BY LedgerType, MeterType
<1>4. NewLedger(f, c) = [cfg |-> f, day |-> [key |-> d, secs |-> 0, chain |-> <<>>],
                         week |-> [key |-> w, secs |-> 0, chain |-> <<>>]]
  BY <1>2 DEF NewLedger, Meter
<1>5. PICK N : /\ N = NewLedger(f, c) /\ N = [cfg |-> N.cfg, day |-> N.day, week |-> N.week]
               /\ N.cfg = f /\ N.day = [key |-> d, secs |-> 0, chain |-> <<>>]
               /\ N.week = [key |-> w, secs |-> 0, chain |-> <<>>]
  BY <1>4
<1>6. /\ [N.day EXCEPT !.secs = s] = [key |-> d, secs |-> s, chain |-> <<>>]
      /\ [N.week EXCEPT !.secs = z] = [key |-> w, secs |-> z, chain |-> <<>>]
  <2>1. PICK n : n = N.day /\ n = [key |-> d, secs |-> 0, chain |-> <<>>]
    BY <1>5
  <2>2. n.key = d /\ n.chain = <<>> /\ n = [key |-> n.key, secs |-> n.secs, chain |-> n.chain]
    BY <2>1
  <2>3. [n EXCEPT !.secs = s] = [key |-> d, secs |-> s, chain |-> <<>>]
    BY <2>2, MeterUpdated
  <2>4. PICK x : x = N.week /\ x = [key |-> w, secs |-> 0, chain |-> <<>>]
    BY <1>5
  <2>5. x.key = w /\ x.chain = <<>> /\ x = [key |-> x.key, secs |-> x.secs, chain |-> x.chain]
    BY <2>4
  <2>6. [x EXCEPT !.secs = z] = [key |-> w, secs |-> z, chain |-> <<>>]
    BY <2>5, MeterUpdated
  <2> QED
    BY <2>1, <2>3, <2>4, <2>6
<1>7. PICK D, E : D = [N.day EXCEPT !.secs = s] /\ E = [N.week EXCEPT !.secs = z]
  OBVIOUS
<1>8. B = [N EXCEPT !.day = D, !.week = E]
  BY <1>1, <1>3, <1>5, <1>7 DEF Reconciled
<1>9. [N EXCEPT !.day = D, !.week = E] = [cfg |-> N.cfg, day |-> D, week |-> E]
  <2>1. N = [cfg |-> N.cfg, day |-> N.day, week |-> N.week]
    BY <1>5
  <2> QED
    BY <2>1, LedgerUpdated
<1>10. B = [cfg |-> f, day |-> [key |-> d, secs |-> s, chain |-> <<>>],
           week |-> [key |-> w, secs |-> z, chain |-> <<>>]]
  BY <1>5, <1>6, <1>7, <1>8, <1>9
<1>11. /\ [key |-> d, secs |-> s, chain |-> <<>>] \in Meters
       /\ Ordered([key |-> d, secs |-> s, chain |-> <<>>])
       /\ [key |-> w, secs |-> z, chain |-> <<>>] \in Meters
       /\ Ordered([key |-> w, secs |-> z, chain |-> <<>>])
  BY Unchained
<1>12. B \in Ledgers
  BY <1>10, <1>11, LedgerType
<1> QED
  BY <1>1, <1>2, <1>3, <1>11, <1>12, <1>10

\* A ledger that has been metered: both meters rolled, and charged.
Metered(L, B, R, W, c, t, use) ==
  /\ RollCases(R, B.day, DayKey(c, B.cfg.zone), t, 1)
  /\ RollCases(W, B.week, WeekKey(DayKey(c, B.cfg.zone), B.cfg.weekStart), t, WeekLen)
  /\ L = [cfg |-> B.cfg,
          day |-> [key |-> R.key, secs |-> R.secs + use, chain |-> R.chain],
          week |-> [key |-> W.key, secs |-> W.secs + use, chain |-> W.chain]]

\* The ledger of a roll.
LEMMA RolledLedgerIs ==
  ASSUME NEW B \in Ledgers, NEW c \in 1 .. 2 * MaxDay, NEW t \in BOOLEAN,
         Ordered(B.day), Ordered(B.week)
  PROVE  \E R \in Meters, W \in Meters :
           /\ Ordered(R) /\ Ordered(W)
           /\ RollCases(R, B.day, DayKey(c, B.cfg.zone), t, 1)
           /\ RollCases(W, B.week, WeekKey(DayKey(c, B.cfg.zone), B.cfg.weekStart), t, WeekLen)
           /\ Rolled(B, c, t) = [cfg |-> B.cfg, day |-> R, week |-> W]
<1>1. PICK d \in Keys, w \in Keys :
        d = DayKey(c, B.cfg.zone) /\ w = WeekKey(DayKey(c, B.cfg.zone), B.cfg.weekStart)
  BY LedgerType, KeysOfAClock
<1>2. PICK R, W : /\ R = RolledMeter(B.day, d, t, 1) /\ W = RolledMeter(B.week, w, t, WeekLen)
  OBVIOUS
<1>3. B.day \in Meters /\ B.week \in Meters /\ B = [cfg |-> B.cfg, day |-> B.day, week |-> B.week]
  BY LedgerType
<1>4. 1 \in Nat /\ WeekLen \in Nat
  OBVIOUS
<1>5. RollCases(R, B.day, d, t, 1)
  BY <1>2, <1>3, <1>4, RolledIs
<1>6. RollCases(W, B.week, w, t, WeekLen)
  BY <1>2, <1>3, <1>4, RolledIs
<1>7. R \in Meters /\ Ordered(R)
  BY <1>3, <1>4, <1>5, RolledMeterType
<1>8. W \in Meters /\ Ordered(W)
  BY <1>3, <1>4, <1>6, RolledMeterType
<1>9. Rolled(B, c, t) = [cfg |-> B.cfg, day |-> R, week |-> W]
  <2>1. Rolled(B, c, t) = [B EXCEPT !.day = R, !.week = W]
    BY <1>1, <1>2, <1>3 DEF Rolled, DayNow, WeekNow
  <2> QED
    BY <1>3, <2>1
<1> QED
  BY <1>1, <1>5, <1>6, <1>7, <1>8, <1>9

LEMMA CreditedIs ==
  ASSUME NEW B \in Ledgers, NEW c \in 1 .. 2 * MaxDay, NEW t \in BOOLEAN, NEW use \in Nat,
         Ordered(B.day), Ordered(B.week)
  PROVE  \E R \in Meters, W \in Meters : Metered(Credited(B, c, t, use), B, R, W, c, t, use)
<1>1. PICK R \in Meters, W \in Meters :
           /\ Ordered(R) /\ Ordered(W)
           /\ RollCases(R, B.day, DayKey(c, B.cfg.zone), t, 1)
           /\ RollCases(W, B.week, WeekKey(DayKey(c, B.cfg.zone), B.cfg.weekStart), t, WeekLen)
           /\ Rolled(B, c, t) = [cfg |-> B.cfg, day |-> R, week |-> W]
  BY RolledLedgerIs
<1>2. PICK Q : Q = Rolled(B, c, t) /\ Q = [cfg |-> B.cfg, day |-> R, week |-> W]
  BY <1>1
<1>3. /\ R = [key |-> R.key, secs |-> R.secs, chain |-> R.chain]
      /\ W = [key |-> W.key, secs |-> W.secs, chain |-> W.chain]
  BY MeterType
<1>4. PICK D, E : D = [R EXCEPT !.secs = R.secs + use] /\ E = [W EXCEPT !.secs = W.secs + use]
  OBVIOUS
<1>5. /\ D = [key |-> R.key, secs |-> R.secs + use, chain |-> R.chain]
      /\ E = [key |-> W.key, secs |-> W.secs + use, chain |-> W.chain]
  BY <1>3, <1>4, MeterUpdated
<1>6. Credited(B, c, t, use) = [Q EXCEPT !.day = D, !.week = E]
  BY <1>2, <1>4 DEF Credited
<1>7. [Q EXCEPT !.day = D, !.week = E] = [cfg |-> Q.cfg, day |-> D, week |-> E]
  <2>1. Q = [cfg |-> Q.cfg, day |-> Q.day, week |-> Q.week]
    BY <1>2
  <2> QED
    BY <2>1, LedgerUpdated
<1>8. Credited(B, c, t, use) =
        [cfg |-> B.cfg, day |-> [key |-> R.key, secs |-> R.secs + use, chain |-> R.chain],
         week |-> [key |-> W.key, secs |-> W.secs + use, chain |-> W.chain]]
  BY <1>2, <1>5, <1>6, <1>7
<1> QED
  BY <1>1, <1>8 DEF Metered

-----------------------------------------------------------------------------
(* The inductive invariant of the metering. *)

RightLedger(L, H) ==
  Right(L.day, RealDay(L), H.day) /\ Right(L.week, RealWeek(L), H.week)

\* Both the ledger in memory and the saved one are right about their histories;
\* memory starts from the saved one; and what is due is loose or saved.
MeterInv ==
  /\ trusted => clk = today
  /\ led # None => RightLedger(led, due)
  /\ disk # None => RightLedger(disk, diskDue)
  /\ disk = None => diskDue = NothingDue
  /\ led = None => due = diskDue /\ loose = 0
  /\ led # None => Charged(due.day, RealDay(led)) <= loose + Charged(diskDue.day, RealDay(led))

DuesHistories == [day : Histories, week : Histories]

\* The history an iteration goes on from.
KeptDue == IF Tracked.cfg = cfg THEN due ELSE NothingDue

LEMMA NothingDueIs ==
  NothingDue \in DuesHistories /\ NothingDue.day = Uncharged /\ NothingDue.week = Uncharged
<1>1. 0 \in Keys
  BY BoundsAssumption DEF Keys
<1> QED
  BY <1>1 DEF NothingDue, DuesHistories, Histories, Uncharged

LEMMA Clocks ==
  ASSUME TypeOK
  PROVE  /\ clk \in 1 .. 2 * MaxDay /\ today \in 1 .. 2 * MaxDay
         /\ clk \in Int /\ today \in Int /\ MaxDay \in Nat
         /\ trusted \in BOOLEAN /\ cfg \in Configs
<1>1. MaxDay \in Nat /\ today \in 1 .. MaxDay /\ clk \in 1 .. MaxDay + today
  BY BoundsAssumption DEF TypeOK
<1>2. trusted \in BOOLEAN /\ cfg \in Configs
  BY DEF TypeOK
<1> QED
  BY <1>1, <1>2

\* The real keys of a ledger.
LEMMA RealKeys ==
  ASSUME TypeOK, NEW f \in Configs
  PROVE  /\ DayKey(today, f.zone) \in Keys /\ DayKey(today, f.zone) \in Int
         /\ WeekKey(DayKey(today, f.zone), f.weekStart) \in Keys
  BY Clocks, KeysOfAClock

LEMMA DueTypes ==
  ASSUME TypeOK
  PROVE  /\ due \in DuesHistories /\ diskDue \in DuesHistories
         /\ due.day \in Histories /\ due.week \in Histories
         /\ diskDue.day \in Histories /\ diskDue.week \in Histories
         /\ KeptDue \in DuesHistories /\ KeptDue.day \in Histories /\ KeptDue.week \in Histories
<1>1. due \in DuesHistories /\ diskDue \in DuesHistories
  BY DEF TypeOK, DuesHistories
<1>2. KeptDue \in DuesHistories
  BY <1>1, NothingDueIs DEF KeptDue
<1>3. \A d \in DuesHistories : d.day \in Histories /\ d.week \in Histories
  BY DEF DuesHistories
<1> QED
  BY <1>1, <1>2, <1>3

\* The ledger an iteration starts from is right.
LEMMA TrackedIs ==
  ASSUME TypeOK, MeterInv
  PROVE  /\ Tracked \in Ledgers /\ RightLedger(Tracked, due)
         /\ led # None => Tracked = led
         /\ led = None /\ disk = None => Tracked.cfg = cfg /\ due = NothingDue
         /\ led = None => Charged(due.day, RealDay(Tracked)) <=
                            loose + Charged(diskDue.day, RealDay(Tracked))
<1>1. /\ led \in Ledgers \union {None} /\ disk \in Ledgers \union {None}
      /\ cfg \in Configs /\ clk \in 1 .. 2 * MaxDay
  BY Clocks DEF TypeOK
<1>2. \A L \in Ledgers : Charged(diskDue.day, RealDay(L)) \in Nat
  BY LedgerType, RealKeys, DueTypes, ChargedIs DEF RealDay
<1>3. CASE led # None
  <2>1. Tracked = led
    BY <1>3 DEF Tracked
  <2> QED
    BY <1>1, <1>3, <2>1 DEF MeterInv
<1>4. CASE led = None /\ disk # None
  <2>1. Tracked = disk
    BY <1>4 DEF Tracked
  <2>2. due = diskDue /\ loose = 0
    BY <1>4 DEF MeterInv
  <2>3. disk \in Ledgers
    BY <1>1, <1>4
  <2>4. RightLedger(disk, due)
    BY <1>4, <2>2 DEF MeterInv
  <2>5. Charged(due.day, RealDay(disk)) <= loose + Charged(diskDue.day, RealDay(disk))
    BY <1>2, <2>2, <2>3
  <2> QED
    BY <1>4, <2>1, <2>3, <2>4, <2>5
<1>5. CASE led = None /\ disk = None
  <2>1. PICK N : N = NewLedger(cfg, clk)
    OBVIOUS
  <2>2. Tracked = N
    BY <1>5, <2>1 DEF Tracked
  <2>3. due = NothingDue /\ diskDue = NothingDue /\ loose = 0
    BY <1>5 DEF MeterInv
  <2>4. N \in Ledgers /\ N.cfg = cfg /\ Ordered(N.day) /\ Ordered(N.week)
    BY <1>1, <2>1, NewLedgerIs
  <2>5. RealDay(N) \in Keys /\ RealWeek(N) \in Keys
    BY <1>1, <2>4, RealKeys DEF RealDay, RealWeek
  <2>6. RightLedger(N, NothingDue)
    BY <2>4, <2>5, UnchargedIsRight, NothingDueIs DEF RightLedger
  <2>7. Charged(due.day, RealDay(N)) <= loose + Charged(diskDue.day, RealDay(N))
    BY <1>2, <2>3, <2>4
  <2> QED
    BY <1>5, <2>2, <2>3, <2>4, <2>6, <2>7
<1> QED
  BY <1>3, <1>4, <1>5

\* The ledger an iteration reconciles, rolls and charges.
Iterated(B, R, W, use) ==
  /\ Metered(MeteredLedger(use), B, R, W, clk, trusted, use)
  /\ B.cfg = cfg /\ (Tracked.cfg = cfg => B = Tracked)
  /\ Tracked.cfg # cfg =>
       B.day = [key |-> DayKey(clk, cfg.zone), secs |-> Tracked.day.secs, chain |-> <<>>]
  /\ RightLedger(B, KeptDue)
  /\ Right(R, RealDay(B), KeptDue.day) /\ Right(W, RealWeek(B), KeptDue.week)

LEMMA IterationIs ==
  ASSUME TypeOK, MeterInv, NEW use \in {0, 1}
  PROVE  \E B \in Ledgers, R \in Meters, W \in Meters : Iterated(B, R, W, use)
<1>1. /\ clk \in 1 .. 2 * MaxDay /\ trusted \in BOOLEAN /\ cfg \in Configs
      /\ use \in Nat
  BY Clocks
<1>2. PICK B : B = Reconciled(Tracked, cfg, clk)
  OBVIOUS
<1>3. /\ B \in Ledgers /\ B.cfg = cfg /\ (Tracked.cfg = cfg => B = Tracked)
      /\ Tracked.cfg # cfg =>
           B.day = [key |-> DayKey(clk, cfg.zone), secs |-> Tracked.day.secs, chain |-> <<>>]
      /\ RightLedger(B, KeptDue)
  <2>1. CASE Tracked.cfg = cfg
    <3>1. B = Tracked
      BY <1>2, <2>1 DEF Reconciled
    <3>2. KeptDue = due
      BY <2>1 DEF KeptDue
    <3> QED
      BY <2>1, <3>1, <3>2, TrackedIs
  <2>2. CASE Tracked.cfg # cfg
    <3>1. /\ B \in Ledgers /\ B.cfg = cfg /\ Ordered(B.day) /\ Ordered(B.week)
          /\ B.day = [key |-> DayKey(clk, cfg.zone), secs |-> Tracked.day.secs, chain |-> <<>>]
      BY <1>1, <1>2, <2>2, TrackedIs, ReconciledIs
    <3>2. RealDay(B) \in Keys /\ RealWeek(B) \in Keys
      BY <1>1, <3>1, RealKeys DEF RealDay, RealWeek
    <3>3. KeptDue = NothingDue
      BY <2>2 DEF KeptDue
    <3>4. RightLedger(B, KeptDue)
      BY <3>1, <3>2, <3>3, UnchargedIsRight, NothingDueIs DEF RightLedger
    <3> QED
      BY <2>2, <3>1, <3>4
  <2> QED
    BY <2>1, <2>2
<1>4. Ordered(B.day) /\ Ordered(B.week)
  BY <1>3 DEF RightLedger, Right
<1>5. PICK R \in Meters, W \in Meters :
        Metered(Credited(B, clk, trusted, use), B, R, W, clk, trusted, use)
  BY <1>1, <1>3, <1>4, CreditedIs
<1>6. Metered(MeteredLedger(use), B, R, W, clk, trusted, use)
  BY <1>2, <1>5 DEF MeteredLedger
<1>7. /\ B.day \in Meters /\ B.week \in Meters
      /\ RealDay(B) \in Keys /\ RealWeek(B) \in Keys
      /\ DayKey(clk, cfg.zone) \in Keys
      /\ WeekKey(DayKey(clk, cfg.zone), cfg.weekStart) \in Keys
      /\ KeptDue.day \in Histories /\ KeptDue.week \in Histories
      /\ 1 \in Nat /\ WeekLen \in Nat
  BY <1>1, <1>3, LedgerType, RealKeys, KeysOfAClock, DueTypes DEF RealDay, RealWeek
<1>8. /\ RollCases(R, B.day, DayKey(clk, cfg.zone), trusted, 1)
      /\ RollCases(W, B.week, WeekKey(DayKey(clk, cfg.zone), cfg.weekStart), trusted, WeekLen)
  BY <1>3, <1>5 DEF Metered
<1>9. /\ Reads(trusted, DayKey(clk, cfg.zone), RealDay(B))
      /\ Reads(trusted, WeekKey(DayKey(clk, cfg.zone), cfg.weekStart), RealWeek(B))
  <2>1. trusted => clk = today
    BY DEF MeterInv
  <2> QED
    BY <1>3, <2>1 DEF Reads, RealDay, RealWeek
<1>10. Right(R, RealDay(B), KeptDue.day)
  <2>1. Right(B.day, RealDay(B), KeptDue.day)
    BY <1>3 DEF RightLedger
  <2> QED
    BY <1>1, <1>7, <1>8, <1>9, <2>1, RollKeepsRight
<1>11. Right(W, RealWeek(B), KeptDue.week)
  <2>1. Right(B.week, RealWeek(B), KeptDue.week)
    BY <1>3 DEF RightLedger
  <2> QED
    BY <1>1, <1>7, <1>8, <1>9, <2>1, RollKeepsRight
<1> QED
  BY <1>3, <1>6, <1>10, <1>11 DEF Iterated

\* It is right about the history the iteration leaves.
LEMMA IterationKeeps ==
  ASSUME TypeOK, MeterInv, NEW use \in {0, 1},
         NEW L, L = MeteredLedger(use), NEW H, H = MeteredDue(L, use)
  PROVE  /\ L \in Ledgers /\ L.cfg = cfg /\ H \in DuesHistories /\ RightLedger(L, H)
         /\ Charged(H.day, RealDay(L)) <= Charged(KeptDue.day, RealDay(L)) + use
<1>1. PICK B \in Ledgers, R \in Meters, W \in Meters : Iterated(B, R, W, use)
  BY IterationIs
<1>2. PICK D, E : /\ D = [key |-> R.key, secs |-> R.secs + use, chain |-> R.chain]
                  /\ E = [key |-> W.key, secs |-> W.secs + use, chain |-> W.chain]
  OBVIOUS
<1>3. L = [cfg |-> cfg, day |-> D, week |-> E]
  BY <1>1, <1>2 DEF Iterated, Metered
<1>4. RealDay(L) = RealDay(B) /\ RealWeek(L) = RealWeek(B)
  BY <1>1, <1>3 DEF Iterated, RealDay, RealWeek
<1>5. /\ RealDay(L) \in Keys /\ RealWeek(L) \in Keys /\ use \in Nat /\ cfg \in Configs
      /\ KeptDue.day \in Histories /\ KeptDue.week \in Histories
  BY <1>3, Clocks, RealKeys, DueTypes DEF RealDay, RealWeek
<1>6. Right(R, RealDay(L), KeptDue.day) /\ Right(W, RealWeek(L), KeptDue.week)
  BY <1>1, <1>4 DEF Iterated
<1>7. PICK x, y : /\ x = Noted(KeptDue.day, D, RealDay(L), use)
                  /\ y = Noted(KeptDue.week, E, RealWeek(L), use)
  OBVIOUS
<1>8. /\ D \in Meters /\ Right(D, RealDay(L), x) /\ x \in Histories
      /\ Charged(x, RealDay(L)) <= Charged(KeptDue.day, RealDay(L)) + use
  BY <1>2, <1>5, <1>6, <1>7, ChargeKeepsRight
<1>9. E \in Meters /\ Right(E, RealWeek(L), y) /\ y \in Histories
  BY <1>2, <1>5, <1>6, <1>7, ChargeKeepsRight
<1>10. H = [day |-> x, week |-> y]
  BY <1>3, <1>7 DEF MeteredDue, KeptDue
<1>11. L \in Ledgers /\ L.cfg = cfg /\ L.day = D /\ L.week = E
  BY <1>3, <1>5, <1>8, <1>9, LedgerType
<1>12. H \in DuesHistories /\ H.day = x /\ H.week = y
  BY <1>8, <1>9, <1>10 DEF DuesHistories
<1> QED
  BY <1>8, <1>9, <1>11, <1>12 DEF RightLedger

LEMMA InitMeters == Init => TypeOK /\ MeterInv
<1> SUFFICES ASSUME Init PROVE TypeOK /\ MeterInv
  OBVIOUS
<1>1. MaxDay \in Nat /\ MaxDay >= 1 /\ Bounds \subseteq [day : 1 .. MaxDay, use : Nat, faults : Nat]
      /\ SlowEvery \in Nat /\ Grace \in Nat
  BY BoundsAssumption, CadenceAssumption
<1>2. today \in 1 .. MaxDay /\ clk \in 1 .. MaxDay + today /\ trusted \in BOOLEAN /\ cfg \in Configs
  BY <1>1 DEF Init
<1>3. led = None /\ disk = None /\ loose = 0 /\ due = NothingDue /\ diskDue = NothingDue
      /\ due \in DuesHistories
  BY NothingDueIs DEF Init
<1>4. guard \in [age : {Never} \union 0 .. Grace, tripped : BOOLEAN]
      /\ open \in BOOLEAN /\ wait \in {Never} \union 0 .. SlowEvery
  BY DEF Init, Settled
<1>5. /\ loose \in Nat /\ stretch \in {"first", "later", "mild"} /\ steady \in 0 .. MaxDay
      /\ left \in [day : 1 .. MaxDay, use : Nat, faults : Nat]
  BY <1>1 DEF Init
<1>6. TypeOK
  BY <1>2, <1>3, <1>4, <1>5 DEF TypeOK, DuesHistories
<1>7. MeterInv
  BY <1>3 DEF MeterInv, Init
<1> QED
  BY <1>6, <1>7

\* What the save guard becomes.
LEMMA GuardTypes ==
  ASSUME NEW g \in [age : {Never} \union 0 .. Grace, tripped : BOOLEAN], NEW r \in Results
  PROVE  /\ Ages(g) \in [age : {Never} \union 0 .. Grace, tripped : BOOLEAN]
         /\ Recorded(g, r) \in [age : {Never} \union 0 .. Grace, tripped : BOOLEAN]
<1>1. Grace \in Nat /\ Never \notin Nat
  BY CadenceAssumption DEF Never
<1>2. g = [age |-> g.age, tripped |-> g.tripped] /\ g.age \in {Never} \union 0 .. Grace
      /\ g.tripped \in BOOLEAN
  OBVIOUS
<1>3. Ages(g) \in [age : {Never} \union 0 .. Grace, tripped : BOOLEAN]
  BY <1>1, <1>2 DEF Ages
<1>4. CASE r = "ok"
  BY <1>3, <1>4 DEF Recorded, Settled
<1>5. CASE r = "full"
  BY <1>1, <1>2, <1>3, <1>5 DEF Recorded
<1>6. CASE r = "error"
  <2>1. CASE g.age = Never
    <3>1. Recorded(g, r) = [age |-> 0, tripped |-> g.tripped]
      BY <1>6, <2>1 DEF Recorded
    <3> QED
      BY <1>1, <1>2, <1>3, <3>1
  <2>2. CASE g.age # Never
    <3>1. PICK b \in BOOLEAN : b = (g.tripped \/ g.age >= Grace)
      OBVIOUS
    <3>2. Recorded(g, r) = [g EXCEPT !.tripped = b]
      BY <1>6, <2>2, <3>1 DEF Recorded
    <3>3. Recorded(g, r) = [age |-> g.age, tripped |-> b]
      BY <1>2, <3>2
    <3> QED
      BY <1>2, <1>3, <3>3
  <2> QED
    BY <2>1, <2>2
<1> QED
  BY <1>4, <1>5, <1>6 DEF Results

\* The types of what an iteration leaves.
LEMMA IterateTypes ==
  ASSUME TypeOK, MeterInv, NEW use \in {0, 1}, NEW slow \in BOOLEAN, NEW result \in Results,
         Iterate(use, slow, result)
  PROVE  TypeOK'
<1>1. PICK L : L = MeteredLedger(use)
  OBVIOUS
<1>2. PICK H : H = MeteredDue(L, use)
  OBVIOUS
<1>3. L \in Ledgers /\ H \in DuesHistories
  BY <1>1, <1>2, IterationKeeps
<1>4. led' = L /\ due' = H
  BY <1>1, <1>2 DEF Iterate
<1>5. PICK g : g = Ages(guard) /\ g \in [age : {Never} \union 0 .. Grace, tripped : BOOLEAN]
  BY GuardTypes DEF TypeOK
<1>6. guard' = g \/ guard' = Recorded(g, result)
  BY <1>5 DEF Iterate
<1>7. guard' \in [age : {Never} \union 0 .. Grace, tripped : BOOLEAN]
  BY <1>5, <1>6, GuardTypes
<1>8. disk' = disk \/ disk' = L
  BY <1>1 DEF Iterate, Snapshot
<1>9. diskDue' = diskDue \/ diskDue' = H
  BY <1>4 DEF Iterate
<1>10. disk' \in Ledgers \union {None} /\ diskDue' \in DuesHistories
  BY <1>3, <1>8, <1>9, DueTypes DEF TypeOK
<1>11. loose' \in Nat
  <2>1. loose' = 0 \/ loose' = loose + use
    BY DEF Iterate
  <2>2. loose \in Nat
    BY DEF TypeOK
  <2> QED
    BY <2>1, <2>2
<1>12. stretch' \in {"first", "later", "mild"}
  <2>1. stretch \in {"first", "later", "mild"}
    BY DEF TypeOK
  <2>2. stretch' = stretch \/ stretch' = "later" \/ stretch' = "mild"
    BY DEF Iterate, Results
  <2> QED
    BY <2>1, <2>2
<1>13. open' \in BOOLEAN
  <2>1. open' = ~guard.tripped
    BY DEF Iterate
  <2>2. (~guard.tripped) \in BOOLEAN
    OBVIOUS
  <2> QED
    BY <2>1, <2>2, Zenon
<1>14. steady' \in 0 .. MaxDay
  <2>1. steady' = 0 \/ steady' = today \/ steady' = steady
    BY DEF Iterate
  <2>2. today \in 1 .. MaxDay /\ steady \in 0 .. MaxDay /\ MaxDay \in Nat
    BY BoundsAssumption DEF TypeOK
  <2> QED
    BY <2>1, <2>2
<1>15. wait' \in {Never} \union 0 .. SlowEvery
  <2>1. /\ wait # Never /\ wait + 1 >= SlowEvery => slow
        /\ wait' = IF slow THEN 0 ELSE IF wait = Never THEN 1 ELSE wait + 1
    BY DEF Iterate
  <2>2. wait \in {Never} \union 0 .. SlowEvery /\ SlowEvery \in Nat \ {0}
    BY CadenceAssumption DEF TypeOK
  <2>3. CASE slow
    BY <2>1, <2>2, <2>3
  <2>4. CASE ~slow
    BY <2>1, <2>2, <2>4
  <2> QED
    BY <2>3, <2>4
<1>16. left' \in [day : 1 .. MaxDay, use : Nat, faults : Nat]
  <2>1. left' = [left EXCEPT !.use = left.use - use] /\ (use = 1 => left.use > 0)
    BY DEF Iterate
  <2>2. left \in [day : 1 .. MaxDay, use : Nat, faults : Nat]
    BY DEF TypeOK
  <2>3. left.use - use \in Nat
    BY <2>1, <2>2
  <2> QED
    BY <2>1, <2>2, <2>3
<1>17. today' = today /\ clk' = clk /\ trusted' = trusted /\ cfg' = cfg
  BY DEF Iterate
<1> QED
  BY <1>3, <1>4, <1>7, <1>10, <1>11, <1>12, <1>13, <1>14, <1>15, <1>16, <1>17
  DEF TypeOK, DuesHistories

\* An iteration keeps the ledgers right.
LEMMA IterateMeters ==
  ASSUME TypeOK, MeterInv, NEW use \in {0, 1}, NEW slow \in BOOLEAN, NEW result \in Results,
         Iterate(use, slow, result)
  PROVE  MeterInv'
<1>1. PICK L : L = MeteredLedger(use)
  OBVIOUS
<1>2. PICK H : H = MeteredDue(L, use)
  OBVIOUS
<1>3. /\ L \in Ledgers /\ L.cfg = cfg /\ H \in DuesHistories /\ RightLedger(L, H)
      /\ Charged(H.day, RealDay(L)) <= Charged(KeptDue.day, RealDay(L)) + use
  BY <1>1, <1>2, IterationKeeps
<1>4. led' = L /\ due' = H /\ today' = today /\ clk' = clk /\ trusted' = trusted
  BY <1>1, <1>2 DEF Iterate
<1>5. L # None
  BY <1>3, NoneIsNoLedger
<1>6. \/ disk' = disk /\ diskDue' = diskDue /\ loose' = loose + use
      \/ disk' = L /\ diskDue' = H /\ loose' = 0
  BY <1>1, <1>4 DEF Iterate, Snapshot
<1>7. PICK real : real = RealDay(L) /\ real \in Keys
  BY <1>3, LedgerType, RealKeys DEF RealDay
<1>8. (trusted => clk = today)'
  BY <1>4 DEF MeterInv
<1>9. RightLedger(L, H)' /\ (RightLedger(disk, diskDue) => RightLedger(disk, diskDue)')
  <2>1. \A x : RealDay(x)' = RealDay(x') /\ RealWeek(x)' = RealWeek(x')
    BY <1>4 DEF RealDay, RealWeek
  <2> QED
    BY <1>3, <1>4, <1>6 DEF RightLedger, RealDay, RealWeek
<1>10. (disk # None => RightLedger(disk, diskDue))'
  <2>1. CASE disk' = disk /\ diskDue' = diskDue
    <3>1. disk # None => RightLedger(disk, diskDue)
      BY DEF MeterInv
    <3> QED
      BY <1>9, <2>1, <3>1
  <2>2. CASE disk' = L /\ diskDue' = H
    <3>1. RightLedger(L, H)'
      BY <1>9
    <3>2. RightLedger(disk, diskDue)' <=> RightLedger(L, H)'
      BY <2>2 DEF RightLedger, RealDay, RealWeek
    <3> QED
      BY <3>1, <3>2
  <2> QED
    BY <1>6, <2>1, <2>2
<1>11. RightLedger(led, due)'
  <2>1. RightLedger(L, H)'
    BY <1>9
  <2>2. RightLedger(led, due)' <=> RightLedger(L, H)'
    BY <1>4 DEF RightLedger, RealDay, RealWeek
  <2> QED
    BY <2>1, <2>2
<1>12. (disk = None => diskDue = NothingDue)'
  <2>1. disk = None => diskDue = NothingDue
    BY DEF MeterInv
  <2> QED
    BY <1>5, <1>6, <2>1
<1>13. (Charged(due.day, RealDay(led)) <= loose + Charged(diskDue.day, RealDay(led)))'
  <2>1. PICK c \in Nat, k \in Nat, d \in Nat :
          /\ c = Charged(H.day, real) /\ k = Charged(KeptDue.day, real)
          /\ d = Charged(diskDue.day, real)
    <3>1. H.day \in Histories /\ KeptDue.day \in Histories /\ diskDue.day \in Histories
      BY <1>3, DueTypes DEF DuesHistories
    <3> QED
      BY <1>7, <3>1, ChargedIs
  <2>2. loose \in Nat
    BY DEF TypeOK
  <2>3. k <= loose + d
    <3>1. CASE Tracked.cfg = cfg
      <4>1. RealDay(Tracked) = real
        BY <1>3, <1>7, <3>1 DEF RealDay
      <4>2. Charged(due.day, RealDay(Tracked)) <= loose + Charged(diskDue.day, RealDay(Tracked))
        <5>1. CASE led = None
          BY <5>1, TrackedIs
        <5>2. CASE led # None
          BY <5>2, TrackedIs DEF MeterInv
        <5> QED
          BY <5>1, <5>2
      <4>3. KeptDue = due
        BY <3>1 DEF KeptDue
      <4> QED
        BY <2>1, <4>1, <4>2, <4>3
    <3>2. CASE Tracked.cfg # cfg
      <4>1. KeptDue = NothingDue
        BY <3>2 DEF KeptDue
      <4>2. k = 0
        BY <2>1, <4>1, NothingDueIs DEF Charged, Uncharged
      <4> QED
        BY <2>2, <4>2
    <3> QED
      BY <3>1, <3>2
  <2>4. c <= k + use
    BY <1>3, <1>7, <2>1
  <2>5. RealDay(led)' = real
    BY <1>4, <1>7 DEF RealDay
  <2>6. Charged(due.day, RealDay(led))' = c
    BY <1>4, <2>1, <2>5 DEF Charged
  <2>7. CASE diskDue' = diskDue /\ loose' = loose + use
    <3>1. Charged(diskDue.day, RealDay(led))' = d
      BY <2>1, <2>5, <2>7 DEF Charged
    <3> QED
      BY <2>2, <2>3, <2>4, <2>6, <2>7, <3>1
  <2>8. CASE diskDue' = H /\ loose' = 0
    <3>1. Charged(diskDue.day, RealDay(led))' = c
      BY <2>1, <2>5, <2>8 DEF Charged
    <3> QED
      BY <2>6, <2>8, <3>1
  <2> QED
    BY <1>6, <2>7, <2>8
<1> QED
  BY <1>4, <1>5, <1>8, <1>10, <1>11, <1>12, <1>13 DEF MeterInv

\* A ledger stays right over midnight.
LEMMA MidnightKeepsRight ==
  ASSUME TypeOK, NextDay, NEW L \in Ledgers, NEW H \in DuesHistories, RightLedger(L, H)
  PROVE  /\ RightLedger(L, H)' /\ Charged(H.day, RealDay(L)') = 0
         /\ RealDay(L)' = RealDay(L) + 1 /\ RealDay(L) \in Int
<1>1. today' = today + 1 /\ today \in 1 .. MaxDay /\ MaxDay \in Nat /\ left.day \in 1 .. MaxDay
      /\ today < left.day
  BY BoundsAssumption DEF NextDay, TypeOK
<1>2. today + 1 \in 1 .. 2 * MaxDay
  BY <1>1
<1>3. L.cfg \in Configs /\ L.day \in Meters /\ L.week \in Meters
      /\ L.cfg.weekStart \in Int /\ L.cfg.zone \in 0 .. 2
  BY LedgerType, CfgNumbers
<1>4. PICK d \in Keys, w \in Keys : d = RealDay(L) /\ w = RealWeek(L) /\ d \in Int /\ w \in Int
  BY <1>3, RealKeys, KeysAreInts DEF RealDay, RealWeek
<1>5. PICK e \in Keys, x \in Keys :
        e = DayKey(today + 1, L.cfg.zone) /\ x = WeekKey(e, L.cfg.weekStart) /\ e \in Int /\ x \in Int
  BY <1>2, <1>3, KeysOfAClock, KeysAreInts
<1>6. e = d + 1
  BY <1>1, <1>3, <1>4, <1>5 DEF RealDay, DayKey
<1>7. w <= x
  <2>1. WeekKey(d, L.cfg.weekStart) <= WeekKey(d + 1, L.cfg.weekStart)
    BY <1>3, <1>4, WeekKeyIs
  <2> QED
    BY <1>4, <1>5, <1>6, <2>1 DEF RealWeek
<1>8. RealDay(L)' = e /\ RealWeek(L)' = x
  BY <1>1, <1>5 DEF RealDay, RealWeek
<1>9. H.day \in Histories /\ H.week \in Histories
  BY DEF DuesHistories
<1>10. Right(L.day, d, H.day) /\ Right(L.week, w, H.week)
  BY <1>4 DEF RightLedger
<1>11. d <= e /\ d # e
  BY <1>4, <1>6
<1>12. Right(L.day, e, H.day) /\ Charged(H.day, e) = 0
  BY <1>3, <1>9, <1>10, <1>11, LaterIsRight
<1>13. Right(L.week, x, H.week)
  BY <1>3, <1>7, <1>9, <1>10, LaterIsRight
<1>14. RightLedger(L, H)' <=> Right(L.day, RealDay(L)', H.day) /\ Right(L.week, RealWeek(L)', H.week)
  BY DEF RightLedger, Right, Ordered, Charged
<1> QED
  BY <1>4, <1>6, <1>8, <1>12, <1>13, <1>14

\* What holds of a state in which only the clock, the clause or the bounds differ.
LEMMA LedgersUntouched ==
  ASSUME TypeOK, MeterInv,
         UNCHANGED <<today, led, disk, loose, due, diskDue>>,
         (trusted => clk = today)'
  PROVE  MeterInv'
<1>1. /\ led # None => RightLedger(led, due)
      /\ disk # None => RightLedger(disk, diskDue)
      /\ disk = None => diskDue = NothingDue
      /\ led = None => due = diskDue /\ loose = 0
      /\ led # None => Charged(due.day, RealDay(led)) <= loose + Charged(diskDue.day, RealDay(led))
  BY DEF MeterInv
<1>2. /\ RightLedger(led, due)' <=> RightLedger(led, due)
      /\ RightLedger(disk, diskDue)' <=> RightLedger(disk, diskDue)
      /\ RealDay(led)' = RealDay(led)
  BY DEF RightLedger, RealDay, RealWeek
<1>3. (led # None =>
         Charged(due.day, RealDay(led)) <= loose + Charged(diskDue.day, RealDay(led)))'
  BY <1>1, <1>2 DEF Charged
<1> QED
  BY <1>1, <1>2, <1>3 DEF MeterInv

\* The daemon forgets the ledger: what is due is what the saved one is due.
LEMMA LedgerForgotten ==
  ASSUME TypeOK, MeterInv,
         UNCHANGED <<today, disk, diskDue>>, led' = None, due' = diskDue, loose' = 0,
         (trusted => clk = today)'
  PROVE  MeterInv'
<1>1. /\ disk # None => RightLedger(disk, diskDue)
      /\ disk = None => diskDue = NothingDue
  BY DEF MeterInv
<1>2. RightLedger(disk, diskDue)' <=> RightLedger(disk, diskDue)
  BY DEF RightLedger, RealDay, RealWeek
<1> QED
  BY <1>1, <1>2 DEF MeterInv

\* One step keeps the types and the ledgers right.
LEMMA StepKeepsMeters == TypeOK /\ MeterInv /\ [Next]_vars => TypeOK' /\ MeterInv'
<1> SUFFICES ASSUME TypeOK, MeterInv, [Next]_vars PROVE TypeOK' /\ MeterInv'
  OBVIOUS
<1>1. CASE NextDay
  <2>1. /\ today' = today + 1 /\ clk' = clk + 1 /\ trusted' = trusted /\ left' = left
        /\ UNCHANGED <<cfg, led, disk, guard, open, wait, loose, stretch, due, diskDue, steady>>
    BY <1>1 DEF NextDay
  <2>2. today < left.day /\ left.day \in 1 .. MaxDay /\ today \in 1 .. MaxDay /\ MaxDay \in Nat
        /\ clk \in 1 .. MaxDay + today
    BY <1>1, BoundsAssumption DEF NextDay, TypeOK
  <2>3. today' \in 1 .. MaxDay /\ clk' \in 1 .. MaxDay + today'
    BY <2>1, <2>2
  <2>4. TypeOK'
    BY <2>1, <2>3 DEF TypeOK
  <2>5. (trusted => clk = today)'
    BY <2>1 DEF MeterInv
  <2>6. (led # None => RightLedger(led, due))'
    <3>1. CASE led # None
      <4>1. led \in Ledgers /\ due \in DuesHistories /\ RightLedger(led, due)
        BY <3>1, DueTypes DEF TypeOK, MeterInv
      <4>2. PICK L, H : L = led /\ H = due
        OBVIOUS
      <4>3. RightLedger(L, H)'
        BY <1>1, <4>1, <4>2, MidnightKeepsRight
      <4>4. RightLedger(L, H)' <=> RightLedger(led, due)'
        BY <2>1, <4>2 DEF RightLedger, RealDay, RealWeek
      <4> QED
        BY <4>3, <4>4
    <3> QED
      BY <2>1, <3>1
  <2>7. (disk # None => RightLedger(disk, diskDue))'
    <3>1. CASE disk # None
      <4>1. disk \in Ledgers /\ diskDue \in DuesHistories /\ RightLedger(disk, diskDue)
        BY <3>1, DueTypes DEF TypeOK, MeterInv
      <4>2. PICK L, H : L = disk /\ H = diskDue
        OBVIOUS
      <4>3. RightLedger(L, H)'
        BY <1>1, <4>1, <4>2, MidnightKeepsRight
      <4>4. RightLedger(L, H)' <=> RightLedger(disk, diskDue)'
        BY <2>1, <4>2 DEF RightLedger, RealDay, RealWeek
      <4> QED
        BY <4>3, <4>4
    <3> QED
      BY <2>1, <3>1
  <2>8. (led # None =>
           Charged(due.day, RealDay(led)) <= loose + Charged(diskDue.day, RealDay(led)))'
    <3>1. CASE led # None
      <4>1. led \in Ledgers /\ due \in DuesHistories /\ RightLedger(led, due)
            /\ diskDue.day \in Histories /\ loose \in Nat
        BY <3>1, DueTypes DEF TypeOK, MeterInv
      <4>2. PICK L, H : L = led /\ H = due
        OBVIOUS
      <4>3. PICK e : e = RealDay(L)'
        OBVIOUS
      <4>4. Charged(H.day, e) = 0
        BY <1>1, <4>1, <4>2, <4>3, MidnightKeepsRight
      <4>5. e \in Keys
        <5>1. L.cfg \in Configs /\ today + 1 \in 1 .. 2 * MaxDay
          BY <2>2, <4>1, <4>2, LedgerType
        <5>2. e = DayKey(today + 1, L.cfg.zone)
          BY <2>1, <4>3 DEF RealDay
        <5> QED
          BY <5>1, <5>2, KeysOfAClock
      <4>6. Charged(diskDue.day, e) \in Nat
        BY <4>1, <4>5, ChargedIs
      <4>7. RealDay(led)' = e
        BY <2>1, <4>2, <4>3 DEF RealDay
      <4>8. Charged(due.day, RealDay(led))' = 0 /\ Charged(diskDue.day, RealDay(led))' \in Nat
        BY <2>1, <4>2, <4>4, <4>6, <4>7 DEF Charged
      <4> QED
        BY <2>1, <4>1, <4>8
    <3> QED
      BY <2>1, <3>1
  <2>9. /\ (disk = None => diskDue = NothingDue)'
        /\ (led = None => due = diskDue /\ loose = 0)'
    BY <2>1 DEF MeterInv
  <2> QED
    BY <2>4, <2>5, <2>6, <2>7, <2>8, <2>9 DEF MeterInv
<1>2. CASE Synchronise
  <2>1. TypeOK'
    BY <1>2, BoundsAssumption DEF Synchronise, TypeOK
  <2>2. (trusted => clk = today)'
    BY <1>2 DEF Synchronise
  <2> QED
    BY <1>2, <2>1, <2>2, LedgersUntouched DEF Synchronise
<1>3. CASE SetClock
  <2>1. today \in 1 .. MaxDay /\ MaxDay \in Nat
    BY BoundsAssumption DEF TypeOK
  <2>2. clk' \in 1 .. MaxDay + today
    <3>1. clk' \in 1 .. MaxDay + 1
      BY <1>3 DEF SetClock
    <3> QED
      BY <2>1, <3>1
  <2>3. left' \in [day : 1 .. MaxDay, use : Nat, faults : Nat]
    <3>1. left \in [day : 1 .. MaxDay, use : Nat, faults : Nat] /\ left.faults > 0
          /\ left' = [left EXCEPT !.faults = left.faults - 1]
      BY <1>3 DEF SetClock, TypeOK
    <3>2. left.faults - 1 \in Nat
      BY <3>1
    <3> QED
      BY <3>1, <3>2
  <2>4. TypeOK'
    BY <1>3, <2>2, <2>3 DEF SetClock, TypeOK
  <2>5. (trusted => clk = today)'
    BY <1>3 DEF SetClock
  <2> QED
    BY <1>3, <2>4, <2>5, LedgersUntouched DEF SetClock
<1>4. CASE Restart
  <2>1. left' \in [day : 1 .. MaxDay, use : Nat, faults : Nat]
    <3>1. left \in [day : 1 .. MaxDay, use : Nat, faults : Nat] /\ left.faults > 0
          /\ left' = [left EXCEPT !.faults = left.faults - 1]
      BY <1>4 DEF Restart, TypeOK
    <3>2. left.faults - 1 \in Nat
      BY <3>1
    <3> QED
      BY <3>1, <3>2
  <2>2. guard' \in [age : {Never} \union 0 .. Grace, tripped : BOOLEAN] /\ trusted' \in BOOLEAN
    BY <1>4 DEF Restart, Settled, TypeOK
  <2>3. TypeOK'
    BY <1>4, <2>1, <2>2, BoundsAssumption DEF Restart, TypeOK
  <2>4. (trusted => clk = today)'
    <3>1. trusted' => trusted
      BY <1>4 DEF Restart
    <3> QED
      BY <1>4, <3>1 DEF Restart, MeterInv
  <2> QED
    BY <1>4, <2>3, <2>4, LedgerForgotten DEF Restart
<1>5. CASE EditClause
  <2>1. left' \in [day : 1 .. MaxDay, use : Nat, faults : Nat]
    <3>1. left \in [day : 1 .. MaxDay, use : Nat, faults : Nat] /\ left.faults > 0
          /\ left' = [left EXCEPT !.faults = left.faults - 1]
      BY <1>5 DEF EditClause, TypeOK
    <3>2. left.faults - 1 \in Nat
      BY <3>1
    <3> QED
      BY <3>1, <3>2
  <2>2. cfg' \in Configs
    BY <1>5 DEF EditClause
  <2>3. TypeOK'
    BY <1>5, <2>1, <2>2 DEF EditClause, TypeOK
  <2>4. (trusted => clk = today)'
    BY <1>5 DEF EditClause, MeterInv
  <2> QED
    BY <1>5, <2>3, <2>4, LedgersUntouched DEF EditClause
<1>6. CASE IterateWithout
  <2>1. left' \in [day : 1 .. MaxDay, use : Nat, faults : Nat]
    <3>1. left \in [day : 1 .. MaxDay, use : Nat, faults : Nat] /\ left.faults > 0
          /\ left' = [left EXCEPT !.faults = left.faults - 1]
      BY <1>6 DEF IterateWithout, TypeOK
    <3>2. left.faults - 1 \in Nat
      BY <3>1
    <3> QED
      BY <3>1, <3>2
  <2>2. guard' \in [age : {Never} \union 0 .. Grace, tripped : BOOLEAN]
        /\ wait' \in {Never} \union 0 .. SlowEvery
    BY <1>6, CadenceAssumption DEF IterateWithout, Settled, TypeOK
  <2>3. TypeOK'
    BY <1>6, <2>1, <2>2, BoundsAssumption DEF IterateWithout, TypeOK
  <2>4. (trusted => clk = today)'
    BY <1>6 DEF IterateWithout, MeterInv
  <2> QED
    BY <1>6, <2>3, <2>4, LedgerForgotten DEF IterateWithout
<1>7. CASE \E use \in {0, 1}, slow \in BOOLEAN, result \in Results : Iterate(use, slow, result)
  BY <1>7, IterateTypes, IterateMeters
<1>8. CASE UNCHANGED vars
  <2>1. UNCHANGED <<today, led, disk, loose, due, diskDue>> /\ TypeOK'
    BY <1>8 DEF vars, TypeOK
  <2>2. (trusted => clk = today)'
    BY <1>8 DEF vars, MeterInv
  <2> QED
    BY <2>1, <2>2, LedgersUntouched
<1> QED
  BY <1>1, <1>2, <1>3, <1>4, <1>5, <1>6, <1>7, <1>8 DEF Next

-----------------------------------------------------------------------------
(* The theorems. *)

LEMMA MetersHold == Spec => [](TypeOK /\ MeterInv)
<1>1. Init => TypeOK /\ MeterInv
  BY InitMeters
<1>2. (TypeOK /\ MeterInv) /\ [Next]_vars => (TypeOK /\ MeterInv)'
  BY StepKeepsMeters
<1> QED
  BY <1>1, <1>2, PTL DEF Spec

\* The types of the metering (runtime.rs, usage.rs, usage_save_guard.rs): the
\* chain of a ledger that is saved and restored for years stays within its cap,
\* and every key stays one the clock could have read.
THEOREM TypesHold == Spec => []TypeOK
  BY MetersHold, PTL

\* The roll of a ledger by the clock of the moment.
LEMMA RolledHere ==
  ASSUME TypeOK, NEW L \in Ledgers, Ordered(L.day), Ordered(L.week)
  PROVE  \E R \in Meters, W \in Meters :
           /\ RollCases(R, L.day, DayKey(clk, L.cfg.zone), trusted, 1)
           /\ RollCases(W, L.week, WeekKey(DayKey(clk, L.cfg.zone), L.cfg.weekStart), trusted, WeekLen)
           /\ Rolled(L, clk, trusted).day = R /\ Rolled(L, clk, trusted).week = W
<1>1. clk \in 1 .. 2 * MaxDay /\ trusted \in BOOLEAN
  BY Clocks
<1>2. PICK R \in Meters, W \in Meters :
           /\ Ordered(R) /\ Ordered(W)
           /\ RollCases(R, L.day, DayKey(clk, L.cfg.zone), trusted, 1)
           /\ RollCases(W, L.week, WeekKey(DayKey(clk, L.cfg.zone), L.cfg.weekStart), trusted, WeekLen)
           /\ Rolled(L, clk, trusted) = [cfg |-> L.cfg, day |-> R, week |-> W]
  BY <1>1, RolledLedgerIs
<1> QED
  BY <1>2

\* What a trusted roll of a right ledger counts.
LEMMA TrustedCounts ==
  ASSUME TypeOK, MeterInv, NEW L \in Ledgers, NEW H \in DuesHistories, RightLedger(L, H)
  PROVE  trusted => /\ Rolled(L, clk, trusted).day.secs >= Charged(H.day, RealDay(L))
                    /\ Rolled(L, clk, trusted).week.secs >= Charged(H.week, RealWeek(L))
<1>1. Ordered(L.day) /\ Ordered(L.week)
  BY DEF RightLedger, Right
<1>2. PICK R \in Meters, W \in Meters :
           /\ RollCases(R, L.day, DayKey(clk, L.cfg.zone), trusted, 1)
           /\ RollCases(W, L.week, WeekKey(DayKey(clk, L.cfg.zone), L.cfg.weekStart), trusted, WeekLen)
           /\ Rolled(L, clk, trusted).day = R /\ Rolled(L, clk, trusted).week = W
  BY <1>1, RolledHere
<1>3. /\ L.cfg \in Configs /\ L.day \in Meters /\ L.week \in Meters
      /\ H.day \in Histories /\ H.week \in Histories
      /\ trusted \in BOOLEAN /\ 1 \in Nat /\ WeekLen \in Nat
  BY LedgerType, Clocks DEF DuesHistories
<1>4. RealDay(L) \in Keys /\ RealWeek(L) \in Keys
  BY <1>3, RealKeys DEF RealDay, RealWeek
<1>5. trusted => /\ RollCases(R, L.day, RealDay(L), trusted, 1)
                 /\ RollCases(W, L.week, RealWeek(L), trusted, WeekLen)
  <2>1. trusted => clk = today
    BY DEF MeterInv
  <2> QED
    BY <1>2, <2>1 DEF RealDay, RealWeek
<1>6. Right(L.day, RealDay(L), H.day) /\ Right(L.week, RealWeek(L), H.week)
  BY DEF RightLedger
<1>7. trusted => R.secs >= Charged(H.day, RealDay(L))
  <2>1. RollCases(R, L.day, RealDay(L), trusted, 1) =>
          (trusted => R.secs >= Charged(H.day, RealDay(L)))
    BY <1>3, <1>4, <1>6, TrustedReads
  <2> QED
    BY <1>5, <2>1
<1>8. trusted => W.secs >= Charged(H.week, RealWeek(L))
  <2>1. RollCases(W, L.week, RealWeek(L), trusted, WeekLen) =>
          (trusted => W.secs >= Charged(H.week, RealWeek(L)))
    BY <1>3, <1>4, <1>6, TrustedReads
  <2> QED
    BY <1>5, <2>1
<1> QED
  BY <1>2, <1>7, <1>8

\* The key of a trusted roll: the real one, or at most the bound ahead as it was.
LEMMA TrustedKey ==
  ASSUME NEW m \in Meters, NEW cur \in Keys, NEW bound \in Nat,
         NEW R, RollCases(R, m, cur, TRUE, bound), R.key # cur
  PROVE  R = m /\ m.key > cur /\ m.key <= cur + bound
<1>1. m.key \in Int /\ cur \in Int
  BY MeterNumbers, KeysAreInts
<1>2. CASE cur > m.key
  BY <1>2 DEF RollCases
<1>3. CASE cur = m.key
  BY <1>3 DEF RollCases
<1>4. CASE m.key > cur /\ Restores(TRUE, m, cur)
  BY <1>4 DEF RollCases
<1>5. CASE m.key > cur /\ ~Restores(TRUE, m, cur) /\ m.key - cur > bound
  <2>1. R = [key |-> cur, secs |-> m.secs, chain |-> <<>>]
    BY <1>5 DEF RollCases
  <2> QED
    BY <2>1
<1>6. CASE m.key > cur /\ ~Restores(TRUE, m, cur) /\ m.key - cur <= bound
  <2>1. R = m
    BY <1>6 DEF RollCases
  <2> QED
    BY <1>1, <1>6, <2>1
<1>7. cur > m.key \/ cur = m.key \/ m.key > cur
  BY <1>1
<1>8. m.key - cur > bound \/ m.key - cur <= bound
  BY <1>1
<1> QED
  BY <1>2, <1>3, <1>4, <1>5, <1>6, <1>7, <1>8

\* The key a device announces is the key of its next roll.
LEMMA AnnouncedIs ==
  ASSUME TypeOK, NEW L \in Ledgers, Ordered(L.day), Ordered(L.week)
  PROVE  CurrentDayKey(L, clk, trusted) = Rolled(L, clk, trusted).day.key
<1>1. PICK R \in Meters, W \in Meters :
           /\ RollCases(R, L.day, DayKey(clk, L.cfg.zone), trusted, 1)
           /\ Rolled(L, clk, trusted).day = R
  BY RolledHere
<1>2. PICK m : m = L.day /\ m \in Meters /\ m.key \in Int
  BY LedgerType, MeterNumbers
<1>3. PICK cur : cur = DayKey(clk, L.cfg.zone) /\ cur \in Int
  BY LedgerType, Clocks, KeysOfAClock
<1>4. RollCases(R, m, cur, trusted, 1) /\ trusted \in BOOLEAN
  BY <1>1, <1>2, <1>3, Clocks
<1>5. CurrentDayKey(L, clk, trusted) =
        IF cur > m.key \/ Restores(trusted, m, cur) \/ DropsBack(trusted, m, cur, 1)
        THEN cur ELSE m.key
  BY <1>2, <1>3 DEF CurrentDayKey, DayNow
<1>6. DropsBack(trusted, m, cur, 1) <=> trusted /\ m.key - cur > 1
  BY DEF DropsBack
<1>7. Restores(trusted, m, cur) => trusted /\ m.key > cur
  BY DEF Restores
<1>8. CASE cur > m.key
  <2>1. R.key = cur
    BY <1>4, <1>8 DEF RollCases
  <2> QED
    BY <1>1, <1>5, <1>8, <2>1
<1>9. CASE m.key > cur /\ Restores(trusted, m, cur)
  <2>1. R.key = cur
    BY <1>4, <1>9 DEF RollCases
  <2> QED
    BY <1>1, <1>5, <1>9, <2>1
<1>10. CASE m.key > cur /\ trusted /\ ~Restores(trusted, m, cur) /\ m.key - cur > 1
  <2>1. R = [key |-> cur, secs |-> m.secs, chain |-> <<>>]
    BY <1>4, <1>10 DEF RollCases
  <2>2. R.key = cur
    BY <2>1
  <2>3. DropsBack(trusted, m, cur, 1)
    BY <1>6, <1>10
  <2> QED
    BY <1>1, <1>5, <2>2, <2>3
<1>11. CASE m.key > cur /\ trusted /\ ~Restores(trusted, m, cur) /\ m.key - cur <= 1
  <2>1. R = m
    BY <1>4, <1>11 DEF RollCases
  <2>2. ~(m.key - cur > 1) /\ ~(cur > m.key)
    BY <1>2, <1>3, <1>11
  <2> QED
    BY <1>1, <1>5, <1>6, <1>11, <2>1, <2>2
<1>12. CASE cur <= m.key /\ ~trusted
  <2>1. R = m
    BY <1>4, <1>12 DEF RollCases
  <2>2. ~(cur > m.key)
    BY <1>2, <1>3, <1>12
  <2> QED
    BY <1>1, <1>5, <1>6, <1>7, <1>12, <2>1, <2>2
<1>13. CASE cur = m.key /\ trusted
  <2>1. R.key = cur
    BY <1>4, <1>13 DEF RollCases
  <2>2. ~(cur > m.key) /\ ~(m.key - cur > 1) /\ ~(m.key > cur)
    BY <1>2, <1>3, <1>13
  <2> QED
    BY <1>1, <1>5, <1>6, <1>7, <1>13, <2>1, <2>2
<1>14. /\ cur > m.key \/ cur = m.key \/ m.key > cur
       /\ m.key - cur > 1 \/ m.key - cur <= 1
       /\ m.key > cur => cur <= m.key
       /\ cur = m.key => cur <= m.key
  BY <1>2, <1>3
<1> QED
  BY <1>7, <1>8, <1>9, <1>10, <1>11, <1>12, <1>13, <1>14

\* Since the clock has been trusted, the key is at most a day ahead of where it
\* was put right, and two days on the count is exact.
SteadyInv ==
  steady # 0 =>
    /\ trusted /\ led # None /\ steady <= today
    /\ \/ led.day.key <= DayKey(steady, led.cfg.zone) + 1
       \/ led.day.key <= RealDay(led)
    /\ RealDay(led) >= DayKey(steady, led.cfg.zone) + 2 /\ led.day.key = RealDay(led)
         => led.day.secs = Charged(due.day, RealDay(led))

\* The day of a ledger an iteration charged with a trusted clock.
LEMMA IterationOfTheDay ==
  ASSUME TypeOK, MeterInv, NEW use \in {0, 1},
         NEW L, L = MeteredLedger(use), NEW H, H = MeteredDue(L, use)
  PROVE  \E B \in Ledgers, R \in Meters :
           /\ Tracked.cfg = cfg => B = Tracked
           /\ L.cfg = cfg /\ L.day.key = R.key /\ L.day.secs = R.secs + use
           /\ RealDay(L) \in Keys
           /\ trusted => RollCases(R, B.day, RealDay(L), trusted, 1)
           /\ Right(B.day, RealDay(L), KeptDue.day)
           /\ (KeptDue.day.sound \/ R.key <= RealDay(L)) /\ R.key >= RealDay(L) =>
                Charged(H.day, RealDay(L)) = Charged(KeptDue.day, RealDay(L)) + use
<1>1. PICK B \in Ledgers, R \in Meters, W \in Meters : Iterated(B, R, W, use)
  BY IterationIs
<1>2. PICK D, E : /\ D = [key |-> R.key, secs |-> R.secs + use, chain |-> R.chain]
                  /\ E = [key |-> W.key, secs |-> W.secs + use, chain |-> W.chain]
  OBVIOUS
<1>3. L = [cfg |-> cfg, day |-> D, week |-> E]
  BY <1>1, <1>2 DEF Iterated, Metered
<1>4. RealDay(L) = RealDay(B) /\ RealDay(L) = DayKey(today, cfg.zone) /\ L.day = D /\ L.cfg = cfg
  BY <1>1, <1>3 DEF Iterated, RealDay
<1>5. RealDay(L) \in Keys /\ use \in Nat /\ KeptDue.day \in Histories
  BY <1>4, Clocks, RealKeys, DueTypes
<1>6. Right(R, RealDay(L), KeptDue.day) /\ Right(B.day, RealDay(L), KeptDue.day)
  BY <1>1, <1>4 DEF Iterated, RightLedger
<1>7. PICK x : x = Noted(KeptDue.day, D, RealDay(L), use)
  OBVIOUS
<1>8. (KeptDue.day.sound \/ R.key <= RealDay(L)) /\ R.key >= RealDay(L) =>
        Charged(x, RealDay(L)) = Charged(KeptDue.day, RealDay(L)) + use
  BY <1>2, <1>5, <1>6, <1>7, ChargeKeepsRight
<1>9. H.day = x
  BY <1>3, <1>7 DEF MeteredDue, KeptDue
<1>10. trusted => RollCases(R, B.day, RealDay(L), trusted, 1)
  <2>1. trusted => clk = today
    BY DEF MeterInv
  <2> QED
    BY <1>1, <1>4, <2>1 DEF Iterated, Metered
<1>11. L.day.key = R.key /\ L.day.secs = R.secs + use
  BY <1>2, <1>4
<1> QED
  BY <1>1, <1>4, <1>5, <1>6, <1>8, <1>9, <1>10, <1>11 DEF Iterated

LEMMA IterateSteady ==
  ASSUME TypeOK, MeterInv, SteadyInv,
         NEW use \in {0, 1}, NEW slow \in BOOLEAN, NEW result \in Results,
         Iterate(use, slow, result)
  PROVE  SteadyInv'
<1> SUFFICES ASSUME steady' # 0 PROVE SteadyInv'
  BY DEF SteadyInv
<1>1. PICK L : L = MeteredLedger(use)
  OBVIOUS
<1>2. PICK H : H = MeteredDue(L, use)
  OBVIOUS
<1>3. PICK B \in Ledgers, R \in Meters :
           /\ Tracked.cfg = cfg => B = Tracked
           /\ L.cfg = cfg /\ L.day.key = R.key /\ L.day.secs = R.secs + use
           /\ RealDay(L) \in Keys
           /\ trusted => RollCases(R, B.day, RealDay(L), trusted, 1)
           /\ Right(B.day, RealDay(L), KeptDue.day)
           /\ (KeptDue.day.sound \/ R.key <= RealDay(L)) /\ R.key >= RealDay(L) =>
                Charged(H.day, RealDay(L)) = Charged(KeptDue.day, RealDay(L)) + use
  BY <1>1, <1>2, IterationOfTheDay
<1>4. led' = L /\ due' = H /\ today' = today /\ trusted' = trusted
  BY <1>1, <1>2 DEF Iterate
<1>5. L # None
  BY <1>1, <1>2, IterationKeeps, NoneIsNoLedger
<1>6. /\ trusted
      /\ \/ steady' = today
         \/ steady' = steady /\ steady # 0 /\ Tracked.cfg = cfg
  BY DEF Iterate
<1>7. PICK real \in Int : real = RealDay(L) /\ real = DayKey(today, cfg.zone) /\ real \in Keys
  BY <1>3, KeysAreInts DEF RealDay
<1>8. RealDay(led)' = real /\ led'.cfg = cfg /\ led'.day.key = R.key /\ led'.day.secs = R.secs + use
  BY <1>3, <1>4, <1>7 DEF RealDay
<1>9. /\ R.key \in Int /\ R.secs \in Nat /\ B.day \in Meters /\ B.day.key \in Int
      /\ B.day.secs \in Nat /\ trusted \in BOOLEAN /\ cfg.zone \in Int
      /\ today \in Int /\ steady \in Int
  <2>1. B.day \in Meters
    BY LedgerType
  <2>2. R.key \in Int /\ R.secs \in Nat /\ B.day.key \in Int /\ B.day.secs \in Nat
    BY <2>1, MeterNumbers
  <2>3. trusted \in BOOLEAN /\ cfg.zone \in Int /\ today \in Int
    BY Clocks, CfgNumbers
  <2>4. steady \in Int
    BY BoundsAssumption DEF TypeOK
  <2> QED
    BY <2>1, <2>2, <2>3, <2>4
<1>10. RollCases(R, B.day, real, trusted, 1)
  BY <1>3, <1>6, <1>7
<1>11. R.key = real \/ (R = B.day /\ B.day.key > real /\ B.day.key <= real + 1)
  <2>1. B.day \in Meters /\ real \in Keys /\ 1 \in Nat
    BY <1>7, <1>9
  <2>2. trusted = TRUE
    BY <1>6, <1>9
  <2>3. RollCases(R, B.day, real, TRUE, 1)
    BY <1>10, <2>2
  <2>4. R.key # real => R = B.day /\ B.day.key > real /\ B.day.key <= real + 1
    BY <2>1, <2>3, TrustedKey
  <2> QED
    BY <2>4
<1>12. SteadyInv' <=>
         /\ trusted' /\ led' # None /\ steady' <= today'
         /\ \/ led'.day.key <= DayKey(steady', led'.cfg.zone) + 1
            \/ led'.day.key <= RealDay(led)'
         /\ RealDay(led)' >= DayKey(steady', led'.cfg.zone) + 2 /\ led'.day.key = RealDay(led)'
              => led'.day.secs = Charged(due.day, RealDay(led))'
  BY DEF SteadyInv
<1>13. CASE steady' = today
  <2>1. DayKey(steady', led'.cfg.zone) = real
    BY <1>7, <1>8, <1>13
  <2>2. R.key <= real + 1 /\ ~(real >= real + 2)
    BY <1>7, <1>9, <1>11
  <2>3. steady' <= today'
    BY <1>4, <1>9, <1>13
  <2> QED
    BY <1>4, <1>5, <1>6, <1>8, <1>12, <2>1, <2>2, <2>3
<1>14. CASE steady' = steady /\ steady # 0 /\ Tracked.cfg = cfg
  <2>1. /\ led # None /\ steady <= today
        /\ \/ led.day.key <= DayKey(steady, led.cfg.zone) + 1
           \/ led.day.key <= RealDay(led)
        /\ RealDay(led) >= DayKey(steady, led.cfg.zone) + 2 /\ led.day.key = RealDay(led)
             => led.day.secs = Charged(due.day, RealDay(led))
    BY <1>14 DEF SteadyInv
  <2>2. B = led /\ led.cfg = cfg /\ RealDay(led) = real
    <3>1. Tracked = led
      BY <2>1, TrackedIs
    <3> QED
      BY <1>3, <1>7, <1>14, <3>1 DEF RealDay
  <2>3. PICK since \in Int : since = DayKey(steady, cfg.zone)
    BY <1>9 DEF DayKey
  <2>4. DayKey(steady', led'.cfg.zone) = since /\ steady' <= today'
    BY <1>4, <1>8, <1>14, <2>1, <2>3
  <2>5. B.day.key <= since + 1 \/ B.day.key <= real
    BY <2>1, <2>2, <2>3
  <2>6. R.key <= since + 1 \/ R.key <= real
    BY <1>7, <1>9, <1>11, <2>5
  <2>7. ASSUME real >= since + 2, R.key = real
        PROVE  R.secs + use = Charged(H.day, real)
    <3>1. B.day.key <= real
      BY <1>7, <1>9, <2>3, <2>5, <2>7
    <3>2. KeptDue = due
      BY <1>14 DEF KeptDue
    <3>3. PICK c \in Nat : c = Charged(due.day, real)
      BY <1>7, DueTypes, ChargedIs
    <3>4. Charged(H.day, real) = c + use
      <4>1. R.key <= real /\ R.key >= real
        BY <1>7, <2>7
      <4> QED
        BY <1>3, <1>7, <3>2, <3>3, <4>1
    <3>5. CASE B.day.key = real
      <4>1. R.secs = B.day.secs
        BY <1>6, <1>10, <3>5 DEF RollCases
      <4>2. B.day.secs = c
        BY <2>1, <2>2, <2>3, <2>7, <3>3, <3>5
      <4> QED
        BY <3>4, <4>1, <4>2
    <3>6. CASE B.day.key < real
      <4>1. R.secs = 0
        BY <1>6, <1>7, <1>9, <1>10, <3>6 DEF RollCases
      <4>2. Right(B.day, real, due.day)
        BY <1>3, <1>7, <3>2
      <4>3. c = 0
        <5>1. due.day.sound => c = 0
          BY <3>3, <3>6, <4>2 DEF Right
        <5>2. ~due.day.sound => c = 0
          BY <1>7, <3>3, <4>2, DueTypes, ChargedIs DEF Right
        <5> QED
          BY <5>1, <5>2
      <4> QED
        BY <3>4, <4>1, <4>3
    <3> QED
      BY <1>7, <1>9, <3>1, <3>5, <3>6
  <2>8. Charged(due.day, RealDay(led))' = Charged(H.day, real)
    BY <1>4, <1>8 DEF Charged
  <2> QED
    BY <1>4, <1>5, <1>6, <1>8, <1>12, <2>4, <2>6, <2>7, <2>8
<1> QED
  BY <1>6, <1>13, <1>14

LEMMA InitSteady == Init => SteadyInv
  BY DEF Init, SteadyInv

LEMMA StepKeepsSteady == TypeOK /\ MeterInv /\ SteadyInv /\ [Next]_vars => SteadyInv'
<1> SUFFICES ASSUME TypeOK, MeterInv, SteadyInv, [Next]_vars PROVE SteadyInv'
  OBVIOUS
<1>1. CASE UNCHANGED <<today, trusted, led, due, steady>>
  <2>1. RealDay(led)' = RealDay(led)
    BY <1>1 DEF RealDay
  <2>2. Charged(due.day, RealDay(led))' = Charged(due.day, RealDay(led))
    BY <1>1, <2>1 DEF Charged
  <2> QED
    BY <1>1, <2>1, <2>2 DEF SteadyInv
<1>2. CASE NextDay
  <2>1. /\ today' = today + 1 /\ trusted' = trusted /\ led' = led /\ due' = due /\ steady' = steady
    BY <1>2 DEF NextDay
  <2> SUFFICES ASSUME steady # 0 PROVE SteadyInv'
    BY <2>1 DEF SteadyInv
  <2>2. /\ trusted /\ led # None /\ steady <= today
        /\ \/ led.day.key <= DayKey(steady, led.cfg.zone) + 1
           \/ led.day.key <= RealDay(led)
    BY DEF SteadyInv
  <2>3. PICK L : L = led /\ L \in Ledgers
    BY <2>2 DEF TypeOK
  <2>4. PICK since \in Int : since = DayKey(steady, L.cfg.zone)
    BY <2>3, LedgerType, CfgNumbers, BoundsAssumption DEF TypeOK, DayKey
  <2>5. PICK real \in Int : real = RealDay(L)
    BY <2>3, LedgerType, RealKeys DEF RealDay
  <2>6. PICK key \in Int : key = L.day.key
    BY <2>3, LedgerType, MeterNumbers
  <2>7. RealDay(led)' = real + 1
    <3>1. L.cfg.zone \in Int /\ today \in Int
      BY <2>3, LedgerType, CfgNumbers, Clocks
    <3> QED
      BY <2>1, <2>3, <2>5, <3>1 DEF RealDay, DayKey
  <2>8. key <= since + 1 \/ key <= real
    BY <2>2, <2>3, <2>4, <2>5, <2>6
  <2>9. /\ key <= since + 1 \/ key <= real + 1
        /\ ~(real + 1 >= since + 2 /\ key = real + 1)
    BY <2>8
  <2>10. steady <= today'
    BY <2>1, <2>2, Clocks, BoundsAssumption DEF TypeOK
  <2>11. DayKey(steady', led'.cfg.zone) = since /\ led'.day.key = key
    BY <2>1, <2>3, <2>4, <2>6
  <2> QED
    BY <2>1, <2>2, <2>7, <2>9, <2>10, <2>11 DEF SteadyInv
<1>3. CASE Synchronise
  <2>1. steady' = 0
    BY <1>3 DEF Synchronise, SteadyInv
  <2> QED
    BY <2>1 DEF SteadyInv
<1>4. CASE SetClock
  BY <1>1, <1>4 DEF SetClock
<1>5. CASE Restart
  BY <1>5 DEF Restart, SteadyInv
<1>6. CASE EditClause
  BY <1>1, <1>6 DEF EditClause
<1>7. CASE IterateWithout
  BY <1>7 DEF IterateWithout, SteadyInv
<1>8. CASE \E use \in {0, 1}, slow \in BOOLEAN, result \in Results : Iterate(use, slow, result)
  BY <1>8, IterateSteady
<1>9. CASE UNCHANGED vars
  BY <1>1, <1>9 DEF vars
<1> QED
  BY <1>2, <1>3, <1>4, <1>5, <1>6, <1>7, <1>8, <1>9 DEF Next

\* What is right and steady makes the meter right.
LEMMA MeterIsRightHere == TypeOK /\ MeterInv /\ SteadyInv => MeterIsRight
<1> SUFFICES ASSUME TypeOK, MeterInv, SteadyInv PROVE MeterIsRight
  OBVIOUS
<1>1. CASE led = None
  BY <1>1 DEF MeterIsRight, TimeSpentIsCounted, MeterRecovers, AnnouncedKeyIsTheRolledOne
<1>2. CASE led # None
  <2>1. /\ led \in Ledgers /\ due \in DuesHistories /\ RightLedger(led, due)
        /\ due.day \in Histories
    BY <1>2, DueTypes DEF TypeOK, MeterInv
  <2>2. TimeSpentIsCounted
    BY <2>1, TrustedCounts DEF TimeSpentIsCounted
  <2>3. AnnouncedKeyIsTheRolledOne
    <3>1. Ordered(led.day) /\ Ordered(led.week)
      BY <2>1 DEF RightLedger, Right
    <3> QED
      BY <2>1, <3>1, AnnouncedIs DEF AnnouncedKeyIsTheRolledOne
  <2>4. MeterRecovers
    <3> SUFFICES ASSUME steady # 0, today >= steady + 2
                 PROVE  UsedToday(led, clk) = Charged(due.day, RealDay(led))
      BY DEF MeterRecovers
    <3>1. /\ clk = today
          /\ \/ led.day.key <= DayKey(steady, led.cfg.zone) + 1
             \/ led.day.key <= RealDay(led)
          /\ RealDay(led) >= DayKey(steady, led.cfg.zone) + 2 /\ led.day.key = RealDay(led)
               => led.day.secs = Charged(due.day, RealDay(led))
      BY DEF SteadyInv, MeterInv
    <3>2. PICK zone \in Int : zone = led.cfg.zone
      BY <2>1, LedgerType, CfgNumbers
    <3>3. today \in Int /\ steady \in Int
      BY Clocks, BoundsAssumption DEF TypeOK
    <3>4. PICK real \in Int : real = RealDay(led) /\ real = today + zone /\ real \in Keys
      BY <2>1, <3>2, LedgerType, RealKeys DEF RealDay, DayKey
    <3>5. DayKey(steady, led.cfg.zone) = steady + zone /\ DayNow(led, clk) = real
      BY <3>1, <3>2, <3>4 DEF DayKey, DayNow, RealDay
    <3>6. PICK key \in Int : key = led.day.key
      BY <2>1, LedgerType, MeterNumbers
    <3>7. key <= real
      BY <3>1, <3>2, <3>3, <3>4, <3>5, <3>6
    <3>8. CASE key = real
      <4>1. ~(real > key) /\ real >= steady + zone + 2
        BY <3>2, <3>3, <3>4, <3>8
      <4>2. led.day.secs = Charged(due.day, RealDay(led))
        BY <3>1, <3>4, <3>5, <3>6, <3>8, <4>1
      <4> QED
        BY <3>5, <3>6, <4>1, <4>2 DEF UsedToday
    <3>9. CASE key < real
      <4>1. UsedToday(led, clk) = 0
        BY <3>5, <3>6, <3>9 DEF UsedToday
      <4>2. Right(led.day, real, due.day)
        BY <2>1, <3>4 DEF RightLedger
      <4>3. due.day.sound => Charged(due.day, real) = 0
        BY <3>6, <3>9, <4>2 DEF Right
      <4>4. ~due.day.sound => Charged(due.day, real) = 0
        BY <2>1, <3>4, <4>2, ChargedIs DEF Right
      <4> QED
        BY <3>4, <4>1, <4>3, <4>4
    <3> QED
      BY <3>7, <3>8, <3>9
  <2> QED
    BY <2>2, <2>3, <2>4 DEF MeterIsRight
<1> QED
  BY <1>1, <1>2

LEMMA SteadyHolds == Spec => [](TypeOK /\ MeterInv /\ SteadyInv)
<1>1. Init => TypeOK /\ MeterInv /\ SteadyInv
  BY InitMeters, InitSteady
<1>2. (TypeOK /\ MeterInv /\ SteadyInv) /\ [Next]_vars => (TypeOK /\ MeterInv /\ SteadyInv)'
  BY StepKeepsMeters, StepKeepsSteady
<1> QED
  BY <1>1, <1>2, PTL DEF Spec

\* The meter is right in both directions (usage.rs roll, push_pre_roll,
\* take_restorable, drop_back, current_day_key): whatever trips of the clock,
\* restarts and saves there were, a trusted roll counts at least what today and
\* this week were charged; two midnights after the clock was put right it counts
\* exactly that; and the key a device announces is the one its next roll leaves.
THEOREM MeterAlwaysRight == Spec => []MeterIsRight
<1>1. TypeOK /\ MeterInv /\ SteadyInv => MeterIsRight
  BY MeterIsRightHere
<1> QED
  BY <1>1, SteadyHolds, PTL

-----------------------------------------------------------------------------
(* What a restart gives back. *)

\* What may be loose, by how the saves have gone and how far the guard is.
LossInv ==
  /\ stretch = "first" =>
      \/ wait = Never /\ loose = 0 /\ guard = Settled
      \/ wait # Never /\ guard.tripped /\ loose <= (IF open THEN 1 ELSE 2)
  /\ stretch = "later" =>
      /\ wait # Never
      /\ ~guard.tripped => guard.age = Never /\ loose <= wait /\ loose < SlowEvery
      /\ guard.tripped => loose <= SlowEvery + (IF open THEN 0 ELSE 1)
  /\ stretch = "mild" =>
      /\ wait # Never /\ guard.age # Never
      /\ ~guard.tripped /\ guard.age < Grace => loose <= SlowEvery + guard.age
      /\ ~guard.tripped /\ guard.age = Grace =>
          /\ loose <= SlowEvery + Grace + wait
          /\ loose < 2 * SlowEvery + Grace
      /\ guard.tripped => loose <= 2 * SlowEvery + Grace + (IF open THEN 0 ELSE 1)

LEMMA AgesIs ==
  ASSUME NEW g \in [age : {Never} \union 0 .. Grace, tripped : BOOLEAN]
  PROVE  /\ Ages(g).tripped = g.tripped
         /\ g.age = Never => Ages(g).age = Never
         /\ g.age # Never /\ g.age < Grace => Ages(g).age = g.age + 1
         /\ g.age # Never /\ ~(g.age < Grace) => Ages(g).age = g.age
  BY CadenceAssumption DEF Ages, Never

LEMMA RecordedIs ==
  ASSUME NEW g \in [age : {Never} \union 0 .. Grace, tripped : BOOLEAN]
  PROVE  /\ Recorded(g, "ok").age = Never /\ Recorded(g, "ok").tripped = FALSE
         /\ Recorded(g, "full").tripped = TRUE
         /\ Recorded(g, "full").age = IF g.age = Never THEN 0 ELSE g.age
         /\ Recorded(g, "error").age = IF g.age = Never THEN 0 ELSE g.age
         /\ g.age = Never => Recorded(g, "error").tripped = g.tripped
         /\ g.age # Never => (Recorded(g, "error").tripped <=> g.tripped \/ g.age >= Grace)
<1>1. Recorded(g, "ok") = Settled
  BY DEF Recorded
<1>2. Recorded(g, "full") = [age |-> IF g.age = Never THEN 0 ELSE g.age, tripped |-> TRUE]
  BY DEF Recorded
<1>3. g.age = Never => Recorded(g, "error") = [age |-> 0, tripped |-> g.tripped]
  BY DEF Recorded
<1>4. PICK b \in BOOLEAN : b = (g.tripped \/ g.age >= Grace)
  OBVIOUS
<1>5. g.age # Never => Recorded(g, "error") = [g EXCEPT !.tripped = b]
  BY <1>4 DEF Recorded
<1>6. g.age # Never => Recorded(g, "error").tripped = b /\ Recorded(g, "error").age = g.age
  BY <1>5
<1>7. Recorded(g, "ok").age = Never /\ Recorded(g, "ok").tripped = FALSE
  BY <1>1 DEF Settled
<1>8. Recorded(g, "full").tripped = TRUE
      /\ Recorded(g, "full").age = IF g.age = Never THEN 0 ELSE g.age
  BY <1>2
<1>9. Recorded(g, "error").age = IF g.age = Never THEN 0 ELSE g.age
  BY <1>3, <1>6
<1>10. g.age = Never => Recorded(g, "error").tripped = g.tripped
  BY <1>3
<1>11. g.age # Never => (Recorded(g, "error").tripped <=> g.tripped \/ g.age >= Grace)
  BY <1>4, <1>6
<1> QED
  BY <1>7, <1>8, <1>9, <1>10, <1>11

LEMMA InitLoss == Init => LossInv
  BY DEF Init, LossInv

LEMMA IterateLoss ==
  ASSUME TypeOK, LossInv,
         NEW use \in {0, 1}, NEW slow \in BOOLEAN, NEW result \in Results,
         Iterate(use, slow, result)
  PROVE  LossInv'
<1>1. SlowEvery \in Nat /\ SlowEvery >= 1 /\ Grace \in Nat /\ Never = -1
  BY CadenceAssumption DEF Never
<1>2. /\ guard \in [age : {Never} \union 0 .. Grace, tripped : BOOLEAN]
      /\ wait \in {Never} \union 0 .. SlowEvery /\ loose \in Nat
      /\ stretch \in {"first", "later", "mild"} /\ open \in BOOLEAN
  BY DEF TypeOK
<1>3. PICK g \in [age : {Never} \union 0 .. Grace, tripped : BOOLEAN] : g = Ages(guard)
  BY <1>2, GuardTypes
<1>4. /\ g.tripped = guard.tripped
      /\ guard.age = Never => g.age = Never
      /\ guard.age # Never /\ guard.age < Grace => g.age = guard.age + 1
      /\ guard.age # Never /\ ~(guard.age < Grace) => g.age = guard.age
      /\ guard.age \in {Never} \union 0 .. Grace /\ g.age \in {Never} \union 0 .. Grace
      /\ guard.tripped \in BOOLEAN /\ g.tripped \in BOOLEAN
  BY <1>2, <1>3, AgesIs
<1>5. /\ use = 1 => open
      /\ wait # Never /\ wait + 1 >= SlowEvery => slow
      /\ open' = ~guard.tripped
      /\ wait' = IF slow THEN 0 ELSE IF wait = Never THEN 1 ELSE wait + 1
  BY DEF Iterate
<1>6. wait' # Never /\ (slow => wait' = 0) /\ (~slow /\ wait # Never => wait' = wait + 1)
      /\ wait' \in Nat
  BY <1>1, <1>2, <1>5
<1>11. guard.tripped => ~open'
  BY <1>5
<1>12. use \in Nat /\ use <= 1 /\ (~open => use = 0)
  BY <1>5
<1>7. CASE ~Saves(slow)
  <2>1. guard' = g /\ loose' = loose + use /\ stretch' = stretch
    BY <1>3, <1>7 DEF Iterate
  <2>2. ~slow /\ wait # Never /\ wait + 1 < SlowEvery /\ wait' = wait + 1
    BY <1>1, <1>2, <1>5, <1>6, <1>7 DEF Saves
  <2>3. CASE stretch = "first"
    <3>1. guard.tripped /\ loose <= (IF open THEN 1 ELSE 2)
      BY <2>2, <2>3 DEF LossInv
    <3>2. loose' <= 2
      BY <1>2, <1>12, <2>1, <3>1
    <3> QED
      BY <1>11, <1>4, <1>6, <2>1, <2>3, <3>1, <3>2 DEF LossInv
  <2>4. CASE stretch = "later"
    <3>1. CASE ~guard.tripped
      <4>1. guard.age = Never /\ loose <= wait
        BY <2>4, <3>1 DEF LossInv
      <4>2. ~g.tripped /\ g.age = Never /\ loose' <= wait' /\ loose' < SlowEvery
        BY <1>1, <1>2, <1>4, <2>1, <2>2, <3>1, <4>1
      <4> QED
        BY <1>6, <2>1, <2>4, <4>2 DEF LossInv
    <3>2. CASE guard.tripped
      <4>1. loose <= SlowEvery + (IF open THEN 0 ELSE 1)
        BY <2>4, <3>2 DEF LossInv
      <4>2. loose' <= SlowEvery + 1 /\ g.tripped
        BY <1>1, <1>2, <1>4, <1>12, <2>1, <3>2, <4>1
      <4> QED
        BY <1>1, <1>6, <1>11, <2>1, <2>4, <3>2, <4>2 DEF LossInv
    <3> QED
      BY <3>1, <3>2
  <2>5. CASE stretch = "mild"
    <3>1. guard.age # Never
      BY <2>5 DEF LossInv
    <3>2. g.age # Never
      BY <1>1, <1>4, <3>1
    <3>3. CASE guard.tripped
      <4>1. loose <= 2 * SlowEvery + Grace + (IF open THEN 0 ELSE 1)
        BY <2>5, <3>3 DEF LossInv
      <4>2. loose' <= 2 * SlowEvery + Grace + 1 /\ g.tripped
        BY <1>1, <1>2, <1>4, <1>12, <2>1, <3>3, <4>1
      <4> QED
        BY <1>1, <1>6, <1>11, <2>1, <2>5, <3>2, <3>3, <4>2 DEF LossInv
    <3>4. CASE ~guard.tripped
      <4>1. guard.age < Grace => loose <= SlowEvery + guard.age
        BY <2>5, <3>4 DEF LossInv
      <4>2. guard.age = Grace => loose <= SlowEvery + Grace + wait /\ loose < 2 * SlowEvery + Grace
        BY <2>5, <3>4 DEF LossInv
      <4>3. g.age < Grace => loose' <= SlowEvery + g.age
        BY <1>1, <1>2, <1>4, <2>1, <3>1, <4>1
      <4>4. g.age = Grace => loose' <= SlowEvery + Grace + wait' /\ loose' < 2 * SlowEvery + Grace
        BY <1>1, <1>2, <1>4, <2>1, <2>2, <3>1, <4>1, <4>2
      <4>5. ~g.tripped
        BY <1>4, <3>4
      <4> QED
        BY <1>6, <1>11, <2>1, <2>5, <3>2, <4>3, <4>4, <4>5 DEF LossInv
    <3> QED
      BY <3>3, <3>4
  <2> QED
    BY <1>2, <2>3, <2>4, <2>5
<1>8. CASE Saves(slow) /\ result = "ok"
  <2>1. guard' = Recorded(g, "ok") /\ loose' = 0 /\ stretch' = "later"
    BY <1>3, <1>8 DEF Iterate
  <2>2. guard'.age = Never /\ ~guard'.tripped
    BY <2>1, RecordedIs
  <2> QED
    BY <1>1, <1>6, <2>1, <2>2 DEF LossInv
<1>9. CASE Saves(slow) /\ result = "full"
  <2>1. guard' = Recorded(g, "full") /\ loose' = loose + use /\ stretch' = stretch
    BY <1>3, <1>9 DEF Iterate
  <2>2. /\ guard'.tripped
        /\ guard'.age = IF g.age = Never THEN 0 ELSE g.age
    BY <2>1, RecordedIs
  <2>3. CASE stretch = "first"
    <3>1. CASE wait = Never /\ loose = 0
      <4>1. loose' <= 1
        BY <2>1, <3>1
      <4> QED
        BY <1>6, <1>11, <2>1, <2>2, <2>3, <4>1 DEF LossInv
    <3>2. CASE guard.tripped /\ loose <= (IF open THEN 1 ELSE 2)
      <4>1. loose' <= 2
        BY <1>2, <1>12, <2>1, <3>2
      <4> QED
        BY <1>6, <1>11, <2>1, <2>2, <2>3, <4>1 DEF LossInv
    <3> QED
      BY <2>3, <3>1, <3>2 DEF LossInv
  <2>4. CASE stretch = "later"
    <3>1. CASE ~guard.tripped
      <4>1. loose < SlowEvery
        BY <2>4, <3>1 DEF LossInv
      <4>2. loose' <= SlowEvery
        BY <1>1, <1>2, <2>1, <4>1
      <4> QED
        BY <1>1, <1>2, <1>6, <2>1, <2>2, <2>4, <4>2 DEF LossInv
    <3>2. CASE guard.tripped
      <4>1. loose <= SlowEvery + (IF open THEN 0 ELSE 1)
        BY <2>4, <3>2 DEF LossInv
      <4>2. loose' <= SlowEvery + 1
        BY <1>1, <1>2, <1>12, <2>1, <3>2, <4>1
      <4> QED
        BY <1>1, <1>6, <1>11, <2>1, <2>2, <2>4, <3>2, <4>2 DEF LossInv
    <3> QED
      BY <3>1, <3>2
  <2>5. CASE stretch = "mild"
    <3>1. guard'.age # Never
      BY <1>1, <1>4, <2>2
    <3>2. CASE guard.tripped
      <4>1. loose <= 2 * SlowEvery + Grace + (IF open THEN 0 ELSE 1)
        BY <2>5, <3>2 DEF LossInv
      <4>2. loose' <= 2 * SlowEvery + Grace + 1
        BY <1>1, <1>2, <1>12, <2>1, <3>2, <4>1
      <4> QED
        BY <1>1, <1>6, <1>11, <2>1, <2>2, <2>5, <3>1, <3>2, <4>2 DEF LossInv
    <3>3. CASE ~guard.tripped
      <4>1. /\ guard.age < Grace => loose <= SlowEvery + guard.age
            /\ guard.age = Grace => loose < 2 * SlowEvery + Grace
            /\ guard.age # Never
        BY <2>5, <3>3 DEF LossInv
      <4>2. loose' <= 2 * SlowEvery + Grace
        BY <1>1, <1>2, <1>4, <2>1, <4>1
      <4>3. loose' <= 2 * SlowEvery + Grace + (IF open' THEN 0 ELSE 1)
        BY <1>1, <1>2, <2>1, <4>2
      <4> QED
        BY <1>6, <1>11, <2>1, <2>2, <2>5, <3>1, <4>3 DEF LossInv
    <3> QED
      BY <3>2, <3>3
  <2> QED
    BY <1>2, <2>3, <2>4, <2>5
<1>10. CASE Saves(slow) /\ result = "error"
  <2>1. guard' = Recorded(g, "error") /\ loose' = loose + use /\ stretch' = "mild"
    BY <1>3, <1>10 DEF Iterate
  <2>2. /\ guard'.age = IF g.age = Never THEN 0 ELSE g.age
        /\ g.age = Never => guard'.tripped = g.tripped
        /\ g.age # Never => (guard'.tripped <=> g.tripped \/ g.age >= Grace)
    BY <2>1, RecordedIs
  <2>3. guard'.age # Never
    BY <1>1, <1>4, <2>2
  <2>4. CASE guard.tripped
    <3>1. loose <= 2 * SlowEvery + Grace + (IF open THEN 0 ELSE 1)
      BY <1>1, <1>2, <2>4 DEF LossInv, Settled
    <3>2. loose' <= 2 * SlowEvery + Grace + 1
      BY <1>1, <1>2, <1>12, <2>1, <3>1
    <3>3. guard'.tripped
      BY <1>4, <2>2, <2>4
    <3> QED
      BY <1>1, <1>6, <1>11, <2>1, <2>3, <2>4, <3>2, <3>3 DEF LossInv
  <2>5. CASE ~guard.tripped /\ guard.age = Never
    <3>1. loose <= SlowEvery - 1
      BY <1>1, <1>2, <2>5 DEF LossInv, Settled
    <3>2. guard'.age = 0 /\ ~guard'.tripped /\ loose' <= SlowEvery
      BY <1>1, <1>2, <1>4, <2>1, <2>2, <2>5, <3>1
    <3>3. wait' >= 0
      BY <1>6
    <3>4. guard'.age < Grace => loose' <= SlowEvery + guard'.age
      BY <1>1, <3>2
    <3>5. loose' <= SlowEvery + Grace + wait' /\ loose' < 2 * SlowEvery + Grace
      <4>1. PICK l \in Nat, w \in Nat : l = loose' /\ w = wait'
        BY <1>2, <1>6, <1>12, <2>1
      <4>2. l <= SlowEvery
        BY <3>2, <4>1
      <4>3. l <= SlowEvery + Grace + w /\ l < 2 * SlowEvery + Grace
        BY <1>1, <4>2
      <4> QED
        BY <4>1, <4>3
    <3> QED
      BY <1>1, <1>2, <1>6, <2>1, <2>3, <3>2, <3>3, <3>4, <3>5 DEF LossInv
  <2>6. CASE ~guard.tripped /\ guard.age # Never
    <3>1. stretch = "mild"
      BY <1>2, <2>6 DEF LossInv, Settled
    <3>2. /\ guard.age < Grace => loose <= SlowEvery + guard.age
          /\ guard.age = Grace => loose < 2 * SlowEvery + Grace
      BY <2>6, <3>1 DEF LossInv
    <3>3. loose' <= 2 * SlowEvery + Grace
      BY <1>1, <1>2, <1>4, <2>1, <2>6, <3>2
    <3>4. guard'.age = g.age /\ (guard'.tripped <=> g.age >= Grace) /\ g.age # Never
      BY <1>1, <1>4, <2>2, <2>6
    <3>5. g.age < Grace => loose' <= SlowEvery + g.age
      BY <1>1, <1>2, <1>4, <2>1, <2>6, <3>2
    <3>6. /\ ~guard'.tripped => guard'.age < Grace /\ loose' <= SlowEvery + guard'.age
          /\ guard'.age = Grace => guard'.tripped
      BY <1>1, <1>4, <3>4, <3>5
    <3>7. loose' <= 2 * SlowEvery + Grace + (IF open' THEN 0 ELSE 1)
      BY <1>1, <1>2, <2>1, <3>3
    <3> QED
      BY <1>6, <1>11, <2>1, <2>3, <3>6, <3>7 DEF LossInv
  <2> QED
    BY <2>4, <2>5, <2>6
<1> QED
  BY <1>7, <1>8, <1>9, <1>10 DEF Results

LEMMA StepKeepsLoss == TypeOK /\ LossInv /\ [Next]_vars => LossInv'
<1> SUFFICES ASSUME TypeOK, LossInv, [Next]_vars PROVE LossInv'
  OBVIOUS
<1>1. CASE UNCHANGED <<guard, open, wait, loose, stretch>>
  BY <1>1 DEF LossInv
<1>2. CASE Restart
  BY <1>2 DEF Restart, LossInv
<1>3. CASE IterateWithout
  <2>1. SlowEvery \in Nat /\ SlowEvery >= 1 /\ wait' \in Nat
    BY <1>3, CadenceAssumption DEF IterateWithout, TypeOK
  <2>2. wait' # Never /\ 0 <= wait' /\ 0 < SlowEvery
    BY <2>1 DEF Never
  <2> QED
    BY <1>3, <2>2 DEF IterateWithout, LossInv, Settled
<1>4. CASE \E use \in {0, 1}, slow \in BOOLEAN, result \in Results : Iterate(use, slow, result)
  BY <1>4, IterateLoss
<1> QED
  BY <1>1, <1>2, <1>3, <1>4 DEF Next, NextDay, Synchronise, SetClock, EditClause, vars

\* The loss is bounded, and a restart gives back nothing but the loose.
LEMMA LossesHere == TypeOK /\ MeterInv /\ LossInv => RestartLosesLittle
<1> SUFFICES ASSUME TypeOK, MeterInv, LossInv PROVE RestartLosesLittle
  OBVIOUS
<1>1. LossIsBounded
  <2>1. SlowEvery \in Nat /\ SlowEvery >= 1 /\ Grace \in Nat /\ loose \in Nat
        /\ guard \in [age : {Never} \union 0 .. Grace, tripped : BOOLEAN]
        /\ stretch \in {"first", "later", "mild"} /\ open \in BOOLEAN
    BY CadenceAssumption DEF TypeOK
  <2>2. CASE stretch = "first"
    BY <2>1, <2>2 DEF LossInv, LossIsBounded
  <2>3. CASE stretch = "later"
    BY <2>1, <2>3 DEF LossInv, LossIsBounded
  <2>4. CASE stretch = "mild"
    <3>1. loose <= 2 * SlowEvery + Grace + 1
      <4>1. CASE guard.tripped
        BY <2>1, <2>4, <4>1 DEF LossInv
      <4>2. CASE ~guard.tripped
        <5>1. guard.age \in 0 .. Grace
          BY <2>1, <2>4 DEF LossInv
        <5>2. /\ guard.age < Grace => loose <= SlowEvery + guard.age
              /\ guard.age = Grace => loose < 2 * SlowEvery + Grace
          BY <2>4, <4>2 DEF LossInv
        <5> QED
          BY <2>1, <5>1, <5>2
      <4> QED
        BY <4>1, <4>2
    <3> QED
      BY <2>1, <2>4, <3>1 DEF LossIsBounded
  <2> QED
    BY <2>1, <2>2, <2>3, <2>4
<1>2. RestartGivesBackOnlyTheLoose
  <2> SUFFICES ASSUME led # None, trusted, disk # None => disk.cfg = led.cfg
               PROVE  Charged(due.day, RealDay(led)) <=
                        loose + IF disk = None THEN 0 ELSE Rolled(disk, clk, trusted).day.secs
    BY DEF RestartGivesBackOnlyTheLoose
  <2>1. Charged(due.day, RealDay(led)) <= loose + Charged(diskDue.day, RealDay(led))
    BY DEF MeterInv
  <2>2. led \in Ledgers /\ loose \in Nat
    BY DEF TypeOK
  <2>3. RealDay(led) \in Keys
    BY <2>2, LedgerType, RealKeys DEF RealDay
  <2>4. PICK c \in Nat, d \in Nat : /\ c = Charged(due.day, RealDay(led))
                                    /\ d = Charged(diskDue.day, RealDay(led))
    BY <2>3, DueTypes, ChargedIs
  <2>5. CASE disk = None
    <3>1. d = 0
      BY <2>4, <2>5, NothingDueIs DEF MeterInv, Charged, Uncharged
    <3> QED
      BY <2>1, <2>2, <2>4, <2>5, <3>1
  <2>6. CASE disk # None
    <3>1. disk \in Ledgers /\ RightLedger(disk, diskDue) /\ diskDue \in DuesHistories
      BY <2>6, DueTypes DEF TypeOK, MeterInv
    <3>2. RealDay(disk) = RealDay(led)
      BY <2>6 DEF RealDay
    <3>3. Rolled(disk, clk, trusted).day.secs >= d
      BY <2>4, <3>1, <3>2, TrustedCounts
    <3>4. Rolled(disk, clk, trusted).day.secs \in Nat
      <4>1. Ordered(disk.day) /\ Ordered(disk.week)
        BY <3>1 DEF RightLedger, Right
      <4> QED
        BY <3>1, <4>1, RolledHere, MeterNumbers
    <3>5. PICK r \in Nat : r = Rolled(disk, clk, trusted).day.secs
      BY <3>4
    <3>6. c <= loose + r
      <4>1. c <= loose + d
        BY <2>1, <2>4
      <4>2. r >= d
        BY <3>3, <3>5
      <4> QED
        BY <2>2, <4>1, <4>2
    <3> QED
      BY <2>4, <2>6, <3>5, <3>6
  <2> QED
    BY <2>5, <2>6
<1> QED
  BY <1>1, <1>2 DEF RestartLosesLittle

\* A restart gives back little (runtime.rs slow tick, usage_save_guard.rs): what
\* no saved ledger holds is bounded by the cadence of the saves, or by the grace
\* as well where they fail with a plain error, and of today nothing else is lost.
THEOREM LossAlwaysBounded == Spec => []RestartLosesLittle
<1>1. Init => LossInv
  BY InitLoss
<1>2. (TypeOK /\ MeterInv) /\ LossInv /\ [Next]_vars => LossInv'
  BY StepKeepsLoss
<1>3. TypeOK /\ MeterInv /\ LossInv => RestartLosesLittle
  BY LossesHere
<1> QED
  BY <1>1, <1>2, <1>3, MetersHold, PTL DEF Spec

-----------------------------------------------------------------------------
(* What refills a ledger. *)

\* A roll takes nothing from a count unless the clock has passed its key, and
\* moves the key back only when the clock is trusted.
LEMMA RollRefills ==
  ASSUME NEW m \in Meters, NEW cur \in Keys, NEW t \in BOOLEAN, NEW bound \in Nat,
         NEW R \in Meters, RollCases(R, m, cur, t, bound)
  PROVE  /\ R.secs >= m.secs \/ cur > m.key
         /\ R.key >= m.key \/ t
<1>1. /\ m.key \in Int /\ cur \in Int /\ m.secs \in Nat /\ Restorable(m.chain, cur) \in Nat
      /\ R.key \in Int /\ R.secs \in Nat
  BY MeterNumbers, KeysAreInts
<1>2. R.secs >= m.secs \/ cur > m.key
  <2>1. CASE cur > m.key
    BY <2>1
  <2>2. CASE cur = m.key /\ t
    <3>1. R.secs = m.secs
      BY <2>2 DEF RollCases
    <3> QED
      BY <1>1, <3>1
  <2>3. CASE m.key > cur /\ Restores(t, m, cur)
    <3>1. R.secs = m.secs + Restorable(m.chain, cur)
      BY <2>3 DEF RollCases
    <3> QED
      BY <1>1, <3>1
  <2>4. CASE m.key > cur /\ t /\ ~Restores(t, m, cur) /\ m.key - cur > bound
    <3>1. R = [key |-> cur, secs |-> m.secs, chain |-> <<>>]
      BY <2>4 DEF RollCases
    <3>2. R.secs = m.secs
      BY <3>1
    <3> QED
      BY <1>1, <3>2
  <2>5. CASE m.key > cur /\ t /\ ~Restores(t, m, cur) /\ m.key - cur <= bound
    <3>1. R = m
      BY <2>5 DEF RollCases
    <3> QED
      BY <1>1, <3>1
  <2>6. CASE cur <= m.key /\ ~t
    <3>1. R = m
      BY <2>6 DEF RollCases
    <3> QED
      BY <1>1, <3>1
  <2>7. /\ cur > m.key \/ cur = m.key \/ m.key > cur
        /\ m.key - cur > bound \/ m.key - cur <= bound
        /\ m.key > cur => cur <= m.key
        /\ cur = m.key => cur <= m.key
    BY <1>1
  <2> QED
    BY <2>1, <2>2, <2>3, <2>4, <2>5, <2>6, <2>7
<1>3. R.key >= m.key \/ t
  <2>1. CASE cur <= m.key /\ ~t
    <3>1. R = m
      BY <2>1 DEF RollCases
    <3> QED
      BY <1>1, <3>1
  <2>2. CASE cur > m.key /\ ~t
    <3>1. R.key = cur
      BY <2>2 DEF RollCases
    <3> QED
      BY <1>1, <2>2, <3>1
  <2>3. cur <= m.key \/ cur > m.key
    BY <1>1
  <2> QED
    BY <2>1, <2>2, <2>3
<1> QED
  BY <1>2, <1>3

\* What a step may do to the count of a ledger it keeps.
Refills ==
  led # None /\ led' # None =>
    /\ led'.day.secs < led.day.secs => led'.cfg = led.cfg /\ DayNow(led, clk) > led.day.key
    /\ led'.day.key < led.day.key => trusted \/ led'.cfg # led.cfg

LEMMA IterateRefills ==
  ASSUME TypeOK, MeterInv, NEW use \in {0, 1}, NEW slow \in BOOLEAN, NEW result \in Results,
         Iterate(use, slow, result)
  PROVE  Refills
<1> SUFFICES ASSUME led # None
             PROVE  /\ led'.day.secs < led.day.secs =>
                         led'.cfg = led.cfg /\ DayNow(led, clk) > led.day.key
                    /\ led'.day.key < led.day.key => trusted \/ led'.cfg # led.cfg
  BY DEF Refills
<1>1. PICK B \in Ledgers, R \in Meters, W \in Meters : Iterated(B, R, W, use)
  BY IterationIs
<1>2. PICK L : L = MeteredLedger(use) /\ led' = L
  BY DEF Iterate
<1>3. /\ L.cfg = cfg /\ L.day.key = R.key /\ L.day.secs = R.secs + use
      /\ RollCases(R, B.day, DayKey(clk, cfg.zone), trusted, 1)
  BY <1>1, <1>2 DEF Iterated, Metered
<1>4. Tracked = led /\ led \in Ledgers
  BY TrackedIs DEF TypeOK
<1>5. PICK m \in Meters : m = led.day
  BY <1>4, LedgerType
<1>6. PICK cur \in Keys : cur = DayKey(clk, cfg.zone)
  BY Clocks, KeysOfAClock
<1>7. /\ m.key \in Int /\ m.secs \in Nat /\ R.key \in Int /\ R.secs \in Nat /\ cur \in Int
      /\ trusted \in BOOLEAN
  BY MeterNumbers, KeysAreInts, Clocks
<1>8. CASE led.cfg = cfg
  <2>1. RollCases(R, m, cur, trusted, 1)
    BY <1>1, <1>3, <1>4, <1>5, <1>6, <1>8 DEF Iterated
  <2>2. /\ R.secs >= m.secs \/ cur > m.key
        /\ R.key >= m.key \/ trusted
    BY <1>7, <2>1, RollRefills
  <2>3. DayNow(led, clk) = cur
    BY <1>6, <1>8 DEF DayNow
  <2>4. L.day.secs < m.secs => cur > m.key
    BY <1>3, <1>7, <2>2
  <2>5. L.day.key < m.key => trusted
    BY <1>3, <1>7, <2>2
  <2> QED
    BY <1>2, <1>3, <1>5, <1>8, <2>3, <2>4, <2>5
<1>9. CASE led.cfg # cfg
  <2>1. B.day = [key |-> cur, secs |-> m.secs, chain |-> <<>>]
    BY <1>1, <1>4, <1>5, <1>6, <1>9 DEF Iterated
  <2>2. PICK n \in Meters : n = B.day /\ n.key = cur /\ n.secs = m.secs
    BY <2>1, LedgerType
  <2>3. RollCases(R, n, cur, trusted, 1)
    BY <1>3, <1>6, <2>2
  <2>4. R.secs >= n.secs \/ cur > n.key
    BY <1>7, <2>3, RollRefills
  <2>5. ~(L.day.secs < m.secs)
    BY <1>3, <1>7, <2>2, <2>4
  <2> QED
    BY <1>2, <1>3, <1>5, <1>9, <2>5
<1> QED
  BY <1>8, <1>9

LEMMA StepRefills == TypeOK /\ MeterInv /\ [Next]_vars => [Refills]_vars
<1> SUFFICES ASSUME TypeOK, MeterInv, Next PROVE Refills
  OBVIOUS
<1>1. CASE led' = led
  <2>1. led # None => led.day.secs \in Nat /\ led.day.key \in Int
    BY LedgerType, MeterNumbers DEF TypeOK
  <2>2. led # None => ~(led.day.secs < led.day.secs) /\ ~(led.day.key < led.day.key)
    BY <2>1
  <2> QED
    BY <1>1, <2>2 DEF Refills
<1>2. CASE led' = None
  BY <1>2 DEF Refills
<1>3. CASE \E use \in {0, 1}, slow \in BOOLEAN, result \in Results : Iterate(use, slow, result)
  BY <1>3, IterateRefills
<1> QED
  BY <1>1, <1>2, <1>3
  DEF Next, NextDay, Synchronise, SetClock, Restart, EditClause, IterateWithout

\* Nothing refills a ledger but a later day (usage.rs roll, reconcile, drop_back):
\* a count falls only when the clock has passed its key under the same clause, and
\* an untrusted clock never moves a key back.
THEOREM NothingElseRefills == Spec => OnlyALaterDayRefills
<1>1. (TypeOK /\ MeterInv) /\ [Next]_vars => [Refills]_vars
  BY StepRefills
<1>2. [][Refills]_vars => OnlyALaterDayRefills
  BY DEF Refills, OnlyALaterDayRefills
<1> QED
  BY <1>1, <1>2, MetersHold, PTL DEF Spec
================================================================================
