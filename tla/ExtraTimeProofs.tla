---------------------------- MODULE ExtraTimeProofs ----------------------------
(***************************************************************************)
(* Theorems about ExtraTime, for every length of the day, every timezone,  *)
(* any ids and amounts and any bounds.  The first part is about sums over  *)
(* a finite set; the second about the operators of ExtensionLedger alone,  *)
(* on any ledger; the rest about the doors and the loop.                   *)
(*                                                                         *)
(* An iteration of the loop folds the inbox and the adjustment file into a *)
(* ledger.  What holds of the ledger a fold begins with, and is kept by    *)
(* each of its steps, holds of the ledger it ends with (FoldProofs).       *)
(***************************************************************************)
EXTENDS ExtraTime, FoldProofs, FiniteSetTheorems

--------------------------------------------------------------------------------
(* Sums over a finite set.  MapThenSumSet takes its elements in an order no  *)
(* proof can know; the sum is the number of units, laid out one by one, and  *)
(* a count knows no order.                                                   *)

\* The sum of f over S.
Total(f, S) == MapThenSumSet(LAMBDA x : f[x], S)

\* f[x] units for each x in s, numbered.
Units(f, s) == {u \in s \X Nat : u[2] \in 1..f[u[1]]}

\* One more element brings its own units.
LEMMA UnitsGrow ==
    ASSUME NEW f, NEW s, NEW x, x \notin s, f[x] \in Nat, IsFiniteSet(Units(f, s))
    PROVE  /\ IsFiniteSet(Units(f, s \union {x}))
           /\ Cardinality(Units(f, s \union {x})) = Cardinality(Units(f, s)) + f[x]
<1> DEFINE A == Units(f, s)
           B == {x} \X (1..f[x])
<1>1. IsFiniteSet(B) /\ Cardinality(B) = f[x]
  <2>1. IsFiniteSet({x}) /\ Cardinality({x}) = 1
    BY FS_Singleton
  <2>2. IsFiniteSet(1..f[x]) /\ Cardinality(1..f[x]) = f[x]
    <3>1. PICK n \in Nat : n = f[x]
      OBVIOUS
    <3>2. \A a, b \in Int : /\ IsFiniteSet(a..b)
                            /\ Cardinality(a..b) = IF a > b THEN 0 ELSE b - a + 1
      BY FS_Interval, Zenon
    <3>3. 1 \in Int /\ n \in Int /\ n = IF 1 > n THEN 0 ELSE n - 1 + 1
      OBVIOUS
    <3> QED
      BY <3>1, <3>2, <3>3
  <2>3. IsFiniteSet(B) /\ Cardinality(B) = Cardinality({x}) * Cardinality(1..f[x])
    BY <2>1, <2>2, FS_Product
  <2> QED
    BY <2>1, <2>2, <2>3
<1>2. Units(f, s \union {x}) = A \union B
  BY DEF Units
<1>3. A \intersect B = {}
  BY DEF Units
<1> HIDE DEF A, B
<1>4. IsFiniteSet(A) /\ Cardinality(A) \in Nat
  BY FS_CardinalityType DEF A
<1>5. /\ IsFiniteSet(A \union B)
      /\ Cardinality(A \union B) = Cardinality(A) + Cardinality(B) - Cardinality(A \intersect B)
  BY <1>1, <1>4, FS_Union
<1>6. Cardinality(A \intersect B) = 0
  BY <1>3, FS_EmptySet
<1>7. Cardinality(A \union B) = Cardinality(A) + f[x]
  BY <1>1, <1>4, <1>5, <1>6
<1> QED
  BY <1>2, <1>5, <1>7 DEF A

\* A set of finite sets that has a member has one from which no element can be
\* taken without leaving the set.
LEMMA Smallest ==
    ASSUME NEW bad, bad # {}, \A s \in bad : IsFiniteSet(s)
    PROVE  \E s \in bad : \A x \in s : s \ {x} \notin bad
<1> DEFINE sizes == {Cardinality(s) : s \in bad}
<1>1. sizes # {} /\ sizes \subseteq Nat
  BY FS_CardinalityType
<1>2. PICK m \in sizes : \A k \in sizes : m <= k
  <2> HIDE DEF sizes
  <2> QED
    BY <1>1, Least
<1>3. PICK s \in bad : Cardinality(s) = m
  OBVIOUS
<1>4. ASSUME NEW x \in s, s \ {x} \in bad PROVE FALSE
  <2>1. Cardinality(s \ {x}) = m - 1
    BY <1>3, FS_RemoveElement
  <2>2. Cardinality(s \ {x}) \in sizes
    BY <1>4
  <2> QED
    BY <1>1, <1>2, <2>1, <2>2
<1> QED
  BY <1>4

LEMMA UnitsFinite ==
    ASSUME NEW S, IsFiniteSet(S), NEW f, \A x \in S : f[x] \in Nat
    PROVE  \A s \in SUBSET S : IsFiniteSet(Units(f, s))
<1> DEFINE bad == {s \in SUBSET S : ~IsFiniteSet(Units(f, s))}
<1> SUFFICES ASSUME bad # {} PROVE FALSE
  OBVIOUS
<1>1. \A s \in bad : IsFiniteSet(s)
  BY FS_Subset
<1>2. PICK s \in bad : \A x \in s : s \ {x} \notin bad
  <2> HIDE DEF bad
  <2> QED
    BY <1>1, Smallest
<1>3. CASE s = {}
  <2>1. Units(f, s) = {}
    BY <1>3 DEF Units
  <2> QED
    BY <1>2, <2>1, FS_EmptySet
<1>4. CASE s # {}
  <2>1. PICK x \in s : TRUE
    BY <1>4
  <2>2. IsFiniteSet(Units(f, s \ {x})) /\ x \notin s \ {x} /\ f[x] \in Nat
    BY <1>2, <2>1
  <2>3. (s \ {x}) \union {x} = s
    BY <2>1
  <2>4. IsFiniteSet(Units(f, (s \ {x}) \union {x}))
    BY <2>2, UnitsGrow
  <2> QED
    BY <1>2, <2>3, <2>4
<1> QED
  BY <1>3, <1>4

\* The recursion MapThenSumSet unfolds to.
IsSum(h, f, S) ==
    h = [s \in SUBSET S |->
            IF s = {} THEN 0
            ELSE f[CHOOSE x \in s : TRUE] + h[s \ {CHOOSE x \in s : TRUE}]]

\* The sum is the number of units.
LEMMA SumIsUnits ==
    ASSUME NEW S, IsFiniteSet(S), NEW f, \A x \in S : f[x] \in Nat
    PROVE  Total(f, S) = Cardinality(Units(f, S))
<1> DEFINE h == CHOOSE g : IsSum(g, f, S)
           c == [s \in SUBSET S |-> Cardinality(Units(f, s))]
<1>1. Total(f, S) = h[S]
  BY DEF Total, MapThenSumSet, MapThenFoldSet, IsSum
<1>2. ASSUME NEW s \in SUBSET S, s # {}
      PROVE  LET x == CHOOSE x \in s : TRUE
             IN  /\ x \in s /\ s \ {x} \in SUBSET S
                 /\ Cardinality(Units(f, s)) = f[x] + Cardinality(Units(f, s \ {x}))
  <2> DEFINE x == CHOOSE x \in s : TRUE
  <2>1. x \in s
    BY <1>2
  <2> HIDE DEF x
  <2>2. IsFiniteSet(Units(f, s \ {x})) /\ x \notin s \ {x} /\ f[x] \in Nat
    BY <2>1, UnitsFinite
  <2>3. (s \ {x}) \union {x} = s
    BY <2>1
  <2>4. /\ Cardinality(Units(f, (s \ {x}) \union {x})) = Cardinality(Units(f, s \ {x})) + f[x]
        /\ Cardinality(Units(f, s \ {x})) \in Nat
    BY <2>2, UnitsGrow, FS_CardinalityType
  <2>5. Cardinality(Units(f, s)) = f[x] + Cardinality(Units(f, s \ {x}))
    <3>1. Cardinality(Units(f, s)) = Cardinality(Units(f, s \ {x})) + f[x]
      BY <2>3, <2>4, Zenon
    <3> QED
      BY <2>2, <2>4, <3>1
  <2> QED
    BY <2>1, <2>5 DEF x
<1>3. Cardinality(Units(f, {})) = 0
  <2>1. Units(f, {}) = {}
    BY DEF Units
  <2> QED
    BY <2>1, FS_EmptySet
<1>4. IsSum(c, f, S)
  <2>1. ASSUME NEW s \in SUBSET S
        PROVE  c[s] = IF s = {} THEN 0
                      ELSE f[CHOOSE x \in s : TRUE] + c[s \ {CHOOSE x \in s : TRUE}]
    BY <1>2, <1>3
  <2>2. c = [s \in SUBSET S |-> c[s]]
    OBVIOUS
  <2> HIDE DEF c
  <2> QED
    BY <2>1, <2>2 DEF IsSum
<1>5. IsSum(h, f, S)
  <2> HIDE DEF c
  <2> QED
    BY <1>4
<1> HIDE DEF h, c
<1> DEFINE bad == {s \in SUBSET S : h[s] # Cardinality(Units(f, s))}
<1>6. bad = {}
  <2> SUFFICES ASSUME bad # {} PROVE FALSE
    OBVIOUS
  <2>1. \A s \in bad : IsFiniteSet(s)
    BY FS_Subset
  <2>2. PICK s \in bad : \A x \in s : s \ {x} \notin bad
    <3> HIDE DEF bad
    <3> QED
      BY <2>1, Smallest
  <2>3. h[s] = IF s = {} THEN 0
               ELSE f[CHOOSE x \in s : TRUE] + h[s \ {CHOOSE x \in s : TRUE}]
    BY <1>5, <2>2 DEF IsSum
  <2> QED
    BY <1>2, <1>3, <2>2, <2>3
<1> QED
  BY <1>1, <1>6

\* A sum is a natural number, nothing over nothing, no less than a part of it,
\* and one more element adds its own.
LEMMA SumFacts ==
    ASSUME NEW S, IsFiniteSet(S), NEW f, \A x \in S : f[x] \in Nat
    PROVE  /\ Total(f, S) \in Nat
           /\ S = {} => Total(f, S) = 0
           /\ \A T \in SUBSET S :
               Total(f, T) <= Total(f, S)
           /\ \A y : y \notin S /\ f[y] \in Nat =>
               Total(f, S \union {y})
                 = Total(f, S) + f[y]
<1>1. /\ IsFiniteSet(Units(f, S)) /\ Cardinality(Units(f, S)) \in Nat
      /\ Total(f, S) = Cardinality(Units(f, S))
  BY UnitsFinite, FS_CardinalityType, SumIsUnits
<1>2. ASSUME S = {} PROVE Cardinality(Units(f, S)) = 0
  <2>1. Units(f, S) = {}
    BY <1>2 DEF Units
  <2> QED
    BY <2>1, FS_EmptySet
<1>3. ASSUME NEW T \in SUBSET S
      PROVE  /\ Total(f, T) = Cardinality(Units(f, T))
             /\ Cardinality(Units(f, T)) <= Cardinality(Units(f, S))
  <2>1. IsFiniteSet(T) /\ Units(f, T) \in SUBSET Units(f, S)
    BY FS_Subset DEF Units
  <2> QED
    BY <1>1, <2>1, SumIsUnits, FS_Subset
<1>4. ASSUME NEW y, y \notin S, f[y] \in Nat
      PROVE  Total(f, S \union {y}) = Cardinality(Units(f, S)) + f[y]
  <2>1. IsFiniteSet(S \union {y}) /\ \A x \in S \union {y} : f[x] \in Nat
    BY <1>4, FS_AddElement
  <2>2. Total(f, S \union {y}) = Cardinality(Units(f, S \union {y}))
    BY <2>1, SumIsUnits
  <2> QED
    BY <1>1, <1>4, <2>2, UnitsGrow
<1> QED
  BY <1>1, <1>2, <1>3, <1>4

--------------------------------------------------------------------------------
(* The ledger: what its operators do to any ledger. *)

\* A ledger nobody has burned beyond what it holds.
Sound(l) == l \in Ledger /\ \A p \in Burnable : l.spent[p] <= l.secs[p]

USE DayLenAssumption, OffsetAssumption, AmountAssumption

--------------------------------------------------------------------------------
(* Days. *)

\* An instant has a day (day_key).
LEMMA DayIsNat ==
    ASSUME NEW tz \in Tzs, NEW t \in Nat
    PROVE  Day(tz, t) \in Nat
BY DEF Day

\* A day has an end, and it is ahead of every instant in it.
LEMMA EndIsAhead ==
    ASSUME NEW tz \in Tzs, NEW t \in Nat
    PROVE  t < EndOfDay(tz, t)
<1> DEFINE n == t + Offset[tz]
<1>1. n \in Nat /\ n < (n \div DayLen + 1) * DayLen
  OBVIOUS
<1> QED
  BY <1>1 DEF EndOfDay, Day

\* The ledger the day roll starts from is sound (roll clears every pool).
LEMMA EmptyDaySound ==
    ASSUME NEW tz \in Tzs, NEW d \in Nat, NEW c \in [Ids -> Nat]
    PROVE  Sound(EmptyDay(tz, d, c))
BY DEF Sound, Ledger, EmptyDay, Pools, Dims, Burnable

\* Rolling keeps a ledger sound, in its timezone, and makes it of today (roll).
LEMMA RolledSound ==
    ASSUME NEW l, Sound(l), NEW t \in Nat
    PROVE  Sound(Rolled(l, t)) /\ Rolled(l, t).tz = l.tz
             /\ Rolled(l, t).day = Day(l.tz, t)
<1>1. l.tz \in Tzs /\ l.credits \in [Ids -> Nat]
  BY DEF Sound, Ledger
<1>2. Day(l.tz, t) \in Nat
  BY <1>1, DayIsNat
<1>3. Sound(EmptyDay(l.tz, Day(l.tz, t), l.credits))
  BY <1>1, <1>2, EmptyDaySound
<1> QED
  BY <1>3 DEF Rolled, EmptyDay

--------------------------------------------------------------------------------
(* Every operation keeps a ledger sound. *)

\* Granting minutes to a pool keeps the ledger sound (grant_schedule and its
\* siblings): they raise what a pool holds, never what is spent.
THEOREM CreditSound ==
    ASSUME NEW l, Sound(l), NEW t \in Nat, NEW id \in Ids, NEW pool \in Pools
    PROVE  Sound(Credit(l, t, id, pool))
<1> DEFINE r == Rolled(l, t)
<1>1. Sound(r)
  BY RolledSound
<1> HIDE DEF r
<1>2. CASE id \in r.applied
  BY <1>1, <1>2 DEF Credit, r
<1>3. CASE id \notin r.applied
  <2> DEFINE c == [r EXCEPT !.applied = @ \union {id},
                            !.secs[pool] = @ + Amount[id],
                            !.floored = @ \/ pool = "budget",
                            !.credits[id] = @ + 1]
  <2>1. c \in Ledger
    <3>1. r \in Ledger /\ Amount[id] \in Nat
      BY <1>1 DEF Sound
    <3>2. r.secs \in [Pools -> Nat] /\ r.credits \in [Ids -> Nat]
      BY <3>1 DEF Ledger
    <3>3. /\ [r.secs EXCEPT ![pool] = @ + Amount[id]] \in [Pools -> Nat]
          /\ [r.credits EXCEPT ![id] = @ + 1] \in [Ids -> Nat]
      BY <3>1, <3>2
    <3>4. (r.floored \/ pool = "budget") \in BOOLEAN
      OBVIOUS
    <3>5. r.applied \union {id} \in SUBSET Ids
      BY <3>1 DEF Ledger
    <3> QED
      BY <3>1, <3>3, <3>4, <3>5 DEF Ledger
  <2>2. \A p \in Burnable : c.spent[p] <= c.secs[p]
    BY <1>1 DEF Sound, Ledger, Burnable, Pools
  <2>3. Credit(l, t, id, pool) = c
    BY <1>3 DEF Credit, r
  <2> QED
    BY <2>1, <2>2, <2>3 DEF Sound
<1> QED
  BY <1>2, <1>3

\* Taking minutes back keeps it sound (deduct_schedule, deduct_budget): they are
\* kept apart from the pools.
THEOREM DeductSound ==
    ASSUME NEW l, Sound(l), NEW t \in Nat, NEW id \in Ids, NEW dim \in Dims
    PROVE  Sound(Deduct(l, t, id, dim))
<1> DEFINE r == Rolled(l, t)
<1>1. Sound(r)
  BY RolledSound
<1> HIDE DEF r
<1>2. CASE id \in r.applied
  BY <1>1, <1>2 DEF Deduct, r
<1>3. CASE id \notin r.applied
  <2> DEFINE c == [r EXCEPT !.applied = @ \union {id},
                            !.deducted[dim] = @ + Amount[id],
                            !.credits[id] = @ + 1]
  <2>1. c \in Ledger /\ c.spent = r.spent /\ c.secs = r.secs
    <3>1. r \in Ledger /\ Amount[id] \in Nat
      BY <1>1 DEF Sound
    <3>2. r.deducted \in [Dims -> Nat] /\ r.credits \in [Ids -> Nat]
      BY <3>1 DEF Ledger
    <3>3. /\ [r.deducted EXCEPT ![dim] = @ + Amount[id]] \in [Dims -> Nat]
          /\ [r.credits EXCEPT ![id] = @ + 1] \in [Ids -> Nat]
      BY <3>1, <3>2
    <3>4. r.applied \union {id} \in SUBSET Ids
      BY <3>1 DEF Ledger
    <3> QED
      BY <3>1, <3>3, <3>4 DEF Ledger
  <2>2. Deduct(l, t, id, dim) = c
    BY <1>3 DEF Deduct, r
  <2> QED
    BY <1>1, <2>1, <2>2 DEF Sound
<1> QED
  BY <1>2, <1>3

\* burn_schedule and burn_time saturate: no pool is ever overdrawn.
THEOREM BurnedSound ==
    ASSUME NEW l, Sound(l), NEW t \in Nat, NEW pool \in Burnable, NEW n \in Nat
    PROVE  Sound(Burned(l, t, pool, n))
<1> DEFINE r == Rolled(l, t)
           b == [r EXCEPT !.spent[pool] = Lesser(@ + n, r.secs[pool])]
<1>1. Sound(r)
  BY RolledSound
<1> HIDE DEF r
<1>2. r.spent \in [Burnable -> Nat] /\ r.secs \in [Pools -> Nat] /\ pool \in Pools
  BY <1>1 DEF Sound, Ledger, Burnable, Pools, Dims
<1>3. /\ Lesser(r.spent[pool] + n, r.secs[pool]) \in Nat
      /\ Lesser(r.spent[pool] + n, r.secs[pool]) <= r.secs[pool]
  BY <1>2 DEF Lesser
<1>4. b \in Ledger
  BY <1>1, <1>3 DEF Sound, Ledger
<1>5. \A p \in Burnable : b.spent[p] <= b.secs[p]
  BY <1>1, <1>2, <1>3 DEF Sound, Ledger
<1> QED
  BY <1>4, <1>5 DEF Sound, Burned, r

\* Re-keying to the clause's timezone keeps it sound (reconcile).
THEOREM ReconciledSound ==
    ASSUME NEW l, Sound(l), NEW tz \in Tzs, NEW t \in Nat
    PROVE  Sound(Reconciled(l, tz, t))
<1>1. Sound(Rolled(l, t))
  BY RolledSound
<1>2. Day(tz, t) \in Nat
  BY DayIsNat
<1> QED
  BY <1>1, <1>2 DEF Sound, Reconciled, Ledger

--------------------------------------------------------------------------------
(* What each operation promises. *)

\* A second credit of the same id within the ledger's day changes nothing,
\* whichever pool it is routed to (the applied list every grant consults).
THEOREM CreditLandsOnce ==
    ASSUME NEW l, Sound(l), NEW t \in Nat, NEW u \in Nat, SameDay(l, t, u),
           NEW id \in Ids, NEW pool \in Pools, NEW other \in Pools
    PROVE  Credit(Credit(l, t, id, pool), u, id, other) = Credit(l, t, id, pool)
<1> DEFINE c == Credit(l, t, id, pool)
<1>1. Sound(Rolled(l, t)) /\ Rolled(l, t).tz = l.tz
        /\ Rolled(l, t).day = Day(l.tz, t)
  BY RolledSound
<1>2. c.tz = l.tz /\ c.day = Day(l.tz, t) /\ id \in c.applied
  BY <1>1 DEF Credit, Sound, Ledger
<1> HIDE DEF c
<1>3. Rolled(c, u) = c
  BY <1>2 DEF Rolled, SameDay
<1> QED
  BY <1>2, <1>3 DEF Credit, c

\* A day that is over leaves nothing, in any pool and in any timezone the
\* ledger is re-keyed to (reconcile rolls in the old one first).
THEOREM ReKeyingRevivesNothing ==
    ASSUME NEW l, Sound(l), NEW t \in Nat, NEW tz \in Tzs, NEW pool \in Pools,
           Day(l.tz, t) # l.day
    PROVE  Extra(Reconciled(l, tz, t), t, pool) = 0
<1> DEFINE e == EmptyDay(l.tz, Day(l.tz, t), l.credits)
<1>1. CASE l.tz = tz
  BY <1>1 DEF Reconciled, Extra
<1>2. CASE l.tz # tz
  <2>1. Reconciled(l, tz, t) = [e EXCEPT !.tz = tz, !.day = Day(tz, t)]
    BY <1>2 DEF Reconciled, Rolled
  <2>2. /\ Reconciled(l, tz, t).secs[pool] = 0
        /\ pool \in Burnable => Reconciled(l, tz, t).spent[pool] = 0
    BY <2>1 DEF EmptyDay
  <2> QED
    BY <2>2 DEF Extra
<1> QED
  BY <1>1, <1>2

\* A credit adds its minutes to the pool it is routed to and to no other.
THEOREM CreditAddsItsMinutes ==
    ASSUME NEW l, Sound(l), NEW t \in Nat, NEW id \in Ids, NEW pool \in Pools,
           NEW other \in Pools
    PROVE  Extra(Credit(l, t, id, pool), t, other) - Extra(Rolled(l, t), t, other)
             = IF other = pool /\ id \notin Rolled(l, t).applied
               THEN Amount[id] ELSE 0
<1> DEFINE r == Rolled(l, t)
           c == Credit(l, t, id, pool)
<1>1. Sound(r) /\ r.tz = l.tz /\ r.day = Day(l.tz, t)
  BY RolledSound
<1>2. c.tz = l.tz /\ c.day = Day(l.tz, t) /\ c.spent = r.spent
  BY <1>1 DEF Credit, Sound, Ledger
<1>3. c.secs[other] = IF other = pool /\ id \notin r.applied
                      THEN r.secs[other] + Amount[id] ELSE r.secs[other]
  BY <1>1 DEF Credit, Sound, Ledger
<1>4. /\ r.secs[other] \in Nat /\ Amount[id] \in Nat
      /\ other \in Burnable => r.spent[other] \in Nat
  BY <1>1 DEF Sound, Ledger
<1> HIDE DEF r, c
<1> QED
  BY <1>1, <1>2, <1>3, <1>4 DEF Extra, r, c

--------------------------------------------------------------------------------
(* Folds. *)

\* The inbox, folded.
LEMMA DrainedIn ==
    ASSUME NEW l, NEW R, Len(inbox) \in Nat, l \in R[0],
           \A i \in 1..Len(inbox) : \A a \in R[i - 1] :
               Credit(a, inbox[i].at, inbox[i].id, inbox[i].pool) \in R[i]
    PROVE  Drained(l) \in R[Len(inbox)]
<1> DEFINE n == Len(inbox)
           T == R
           step(a, i) == Credit(a, inbox[i].at, inbox[i].id, inbox[i].pool)
           g == [i \in 1..n |-> [a \in T[i - 1] |-> step(a, i)]]
           Is(f) == f = [i \in 0..n |-> IF i = 0 THEN l ELSE Credit(f[i - 1], inbox[i].at, inbox[i].id, inbox[i].pool)]
           acc == CHOOSE f : Is(f)
<1>1. Drained(l) = acc[n] /\ n \in Nat
  BY DEF Drained
<1>2. \A i \in 1..n : \A a \in T[i - 1] : step(a, i) \in T[i] /\ g[i][a] = step(a, i)
  OBVIOUS
<1>3. l \in T[0]
  BY <1>1
<1>4. T[n] = R[Len(inbox)]
  OBVIOUS
<1> HIDE DEF g, T
<1>5. PICK f : Reaches(f, n, l, g, T)
  <2> HIDE DEF step
  <2>1. \A i \in 1..n : \A a \in T[i - 1] : g[i][a] \in T[i]
    BY <1>2
  <2> QED
    BY <1>1, <1>3, <2>1, FoldReaches
<1>6. ASSUME NEW i \in 0..n
      PROVE  f[i] = IF i = 0 THEN l ELSE Credit(f[i - 1], inbox[i].at, inbox[i].id, inbox[i].pool)
  <2>1. CASE i = 0
    BY <1>5, <2>1 DEF Reaches
  <2>2. CASE i # 0
    <3>1. i \in 1..n
      BY <1>1, <2>2
    <3>2. f[i] = step(f[i - 1], i)
      <4> HIDE DEF step
      <4> QED
        BY <1>2, <1>5, <3>1 DEF Reaches
    <3> QED
      BY <2>2, <3>2
  <2> QED
    BY <2>1, <2>2
<1>7. Is(f)
  BY <1>5, <1>6 DEF Reaches
<1>8. Is(acc)
  BY <1>7
<1> HIDE DEF acc
<1>9. acc[0] = l /\ \A i \in 1..n : acc[i] = step(acc[i - 1], i)
  <2>1. acc[0] = l
    BY <1>1, <1>8
  <2>2. ASSUME NEW i \in 1..n PROVE acc[i] = step(acc[i - 1], i)
    <3>1. i \in 0..n /\ i # 0
      BY <1>1
    <3> QED
      BY <1>8, <3>1
  <2> QED
    BY <2>1, <2>2
<1>10. \A i \in 1..n : acc[i - 1] \in T[i - 1] => acc[i] \in T[i]
  <2> HIDE DEF step
  <2> QED
    BY <1>2, <1>9
<1>11. \A i \in 0..n : acc[i] \in T[i]
  <2>1. acc[0] \in T[0]
    BY <1>3, <1>9
  <2> HIDE DEF step
  <2> QED
    BY <1>1, <1>10, <2>1, FoldStays
<1> QED
  BY <1>1, <1>4, <1>11

\* The adjustment file, folded.
LEMMA AdjustedIn ==
    ASSUME NEW l, NEW dims, NEW S, Len(adjust) \in Nat, l \in S,
           \A i \in 1..Len(adjust) : \A a \in S : AdjustedBy(a, adjust[i], dims) \in S
    PROVE  Adjusted(l, dims) \in S
<1> DEFINE n == Len(adjust)
           T == [i \in 0..Len(adjust) |-> S]
           step(a, i) == AdjustedBy(a, adjust[i], dims)
           g == [i \in 1..n |-> [a \in T[i - 1] |-> step(a, i)]]
           Is(f) == f = [i \in 0..n |-> IF i = 0 THEN l ELSE AdjustedBy(f[i - 1], adjust[i], dims)]
           acc == CHOOSE f : Is(f)
<1>1. Adjusted(l, dims) = acc[n] /\ n \in Nat
  BY DEF Adjusted
<1>2. \A i \in 1..n : \A a \in T[i - 1] : step(a, i) \in T[i] /\ g[i][a] = step(a, i)
  BY <1>1
<1>3. l \in T[0]
  BY <1>1
<1>4. T[n] = S
  BY <1>1
<1> HIDE DEF g, T
<1>5. PICK f : Reaches(f, n, l, g, T)
  <2> HIDE DEF step
  <2>1. \A i \in 1..n : \A a \in T[i - 1] : g[i][a] \in T[i]
    BY <1>2
  <2> QED
    BY <1>1, <1>3, <2>1, FoldReaches
<1>6. ASSUME NEW i \in 0..n
      PROVE  f[i] = IF i = 0 THEN l ELSE AdjustedBy(f[i - 1], adjust[i], dims)
  <2>1. CASE i = 0
    BY <1>5, <2>1 DEF Reaches
  <2>2. CASE i # 0
    <3>1. i \in 1..n
      BY <1>1, <2>2
    <3>2. f[i] = step(f[i - 1], i)
      <4> HIDE DEF step
      <4> QED
        BY <1>2, <1>5, <3>1 DEF Reaches
    <3> QED
      BY <2>2, <3>2
  <2> QED
    BY <2>1, <2>2
<1>7. Is(f)
  BY <1>5, <1>6 DEF Reaches
<1>8. Is(acc)
  BY <1>7
<1> HIDE DEF acc
<1>9. acc[0] = l /\ \A i \in 1..n : acc[i] = step(acc[i - 1], i)
  <2>1. acc[0] = l
    BY <1>1, <1>8
  <2>2. ASSUME NEW i \in 1..n PROVE acc[i] = step(acc[i - 1], i)
    <3>1. i \in 0..n /\ i # 0
      BY <1>1
    <3> QED
      BY <1>8, <3>1
  <2> QED
    BY <2>1, <2>2
<1>10. \A i \in 1..n : acc[i - 1] \in T[i - 1] => acc[i] \in T[i]
  <2> HIDE DEF step
  <2> QED
    BY <1>2, <1>9
<1>11. \A i \in 0..n : acc[i] \in T[i]
  <2>1. acc[0] \in T[0]
    BY <1>3, <1>9
  <2> HIDE DEF step
  <2> QED
    BY <1>1, <1>10, <2>1, FoldStays
<1> QED
  BY <1>1, <1>4, <1>11

\* What the prune of the adjustment file keeps was in it.
LEMMA PrunedIn ==
    ASSUME NEW E, NEW entries \in Seq(E)
    PROVE  Pruned(entries) \in Seq(E)
<1> DEFINE n == Len(entries)
           T == [i \in 0..Len(entries) |-> Seq(E)]
           step(a, i) == IF now - entries[i].at < 2 * DayLen THEN Append(a, entries[i]) ELSE a
           g == [i \in 1..n |-> [a \in T[i - 1] |-> step(a, i)]]
           Is(f) == f = [i \in 0..n |-> IF i = 0 THEN <<>>
                          ELSE IF now - entries[i].at < 2 * DayLen
                               THEN Append(f[i - 1], entries[i]) ELSE f[i - 1]]
           acc == CHOOSE f : Is(f)
<1>1. Pruned(entries) = acc[n] /\ n \in Nat
  BY DEF Pruned
<1>2. \A i \in 1..n : \A a \in T[i - 1] : step(a, i) \in T[i] /\ g[i][a] = step(a, i)
  <2>1. ASSUME NEW i \in 1..n PROVE T[i - 1] = Seq(E) /\ T[i] = Seq(E) /\ entries[i] \in E
    BY <1>1
  <2>2. ASSUME NEW i \in 1..n, NEW a \in Seq(E) PROVE step(a, i) \in Seq(E)
    BY <2>1, <2>2
  <2> HIDE DEF T, step
  <2> QED
    BY <2>1, <2>2
<1>3. <<>> \in T[0]
  BY <1>1
<1>4. T[n] = Seq(E)
  BY <1>1
<1> HIDE DEF g, T
<1>5. PICK f : Reaches(f, n, <<>>, g, T)
  <2> HIDE DEF step
  <2>1. \A i \in 1..n : \A a \in T[i - 1] : g[i][a] \in T[i]
    BY <1>2
  <2> QED
    BY <1>1, <1>3, <2>1, FoldReaches
<1>6. ASSUME NEW i \in 0..n
      PROVE  f[i] = IF i = 0 THEN <<>>
                          ELSE IF now - entries[i].at < 2 * DayLen
                               THEN Append(f[i - 1], entries[i]) ELSE f[i - 1]
  <2>1. CASE i = 0
    BY <1>5, <2>1 DEF Reaches
  <2>2. CASE i # 0
    <3>1. i \in 1..n
      BY <1>1, <2>2
    <3>2. f[i] = step(f[i - 1], i)
      <4> HIDE DEF step
      <4> QED
        BY <1>2, <1>5, <3>1 DEF Reaches
    <3> QED
      BY <2>2, <3>2
  <2> QED
    BY <2>1, <2>2
<1>7. Is(f)
  BY <1>5, <1>6 DEF Reaches
<1>8. Is(acc)
  BY <1>7
<1> HIDE DEF acc
<1>9. acc[0] = <<>> /\ \A i \in 1..n : acc[i] = step(acc[i - 1], i)
  <2>1. acc[0] = <<>>
    BY <1>1, <1>8
  <2>2. ASSUME NEW i \in 1..n PROVE acc[i] = step(acc[i - 1], i)
    <3>1. i \in 0..n /\ i # 0
      BY <1>1
    <3> QED
      BY <1>8, <3>1
  <2> QED
    BY <2>1, <2>2
<1>10. \A i \in 1..n : acc[i - 1] \in T[i - 1] => acc[i] \in T[i]
  <2> HIDE DEF step
  <2> QED
    BY <1>2, <1>9
<1>11. \A i \in 0..n : acc[i] \in T[i]
  <2>1. acc[0] \in T[0]
    BY <1>3, <1>9
  <2> HIDE DEF step
  <2> QED
    BY <1>1, <1>10, <2>1, FoldStays
<1> QED
  BY <1>1, <1>4, <1>11

--------------------------------------------------------------------------------
(* Days and ledgers. *)

\* Euclidean division.
LEMMA Division ==
    ASSUME NEW n \in Nat, NEW k \in Nat \ {0}
    PROVE  n \div k \in Nat /\ (n \div k) * k <= n /\ n < (n \div k + 1) * k
OBVIOUS

LEMMA DivisionIs ==
    ASSUME NEW n \in Nat, NEW k \in Nat \ {0}, NEW d \in Nat, d * k <= n, n < (d + 1) * k
    PROVE  n \div k = d
OBVIOUS

LEMMA NextMultiple ==
    ASSUME NEW k \in Nat \ {0}, NEW d \in Nat
    PROVE  d * k \in Nat /\ (d + 1) * k = d * k + k
OBVIOUS

\* A day is as long as it is.
LEMMA DayWidth ==
    ASSUME NEW tz \in Tzs, NEW t \in Nat
    PROVE  /\ Day(tz, t) \in Nat /\ Day(tz, t) * DayLen \in Nat
           /\ Day(tz, t) * DayLen <= t + Offset[tz]
           /\ t + Offset[tz] < Day(tz, t) * DayLen + DayLen
<1>1. t + Offset[tz] \in Nat
  OBVIOUS
<1>2. /\ Day(tz, t) \in Nat /\ Day(tz, t) * DayLen <= t + Offset[tz]
      /\ t + Offset[tz] < (Day(tz, t) + 1) * DayLen
  BY <1>1, Division DEF Day
<1> QED
  BY <1>2, NextMultiple

\* Two instants of one day are less than a day apart.
LEMMA SameDayApart ==
    ASSUME NEW tz \in Tzs, NEW x \in Nat, NEW y \in Nat, Day(tz, x) = Day(tz, y)
    PROVE  x - y < DayLen
<1> DEFINE d == Day(tz, x) * DayLen
<1>1. d \in Nat /\ x + Offset[tz] < d + DayLen /\ d <= y + Offset[tz]
  BY DayWidth
<1>2. Offset[tz] \in Nat
  OBVIOUS
<1> HIDE DEF d
<1> QED
  BY <1>1, <1>2

\* Until the end of an instant's day it is the same day.
LEMMA BeforeEnd ==
    ASSUME NEW tz \in Tzs, NEW s \in Nat, NEW t \in Nat, s <= t, t < EndOfDay(tz, s)
    PROVE  Day(tz, t) = Day(tz, s)
<1> DEFINE n == t + Offset[tz]
           d == Day(tz, s)
<1>1. d \in Nat /\ d * DayLen <= s + Offset[tz] /\ Offset[tz] \in Nat /\ d * DayLen \in Nat
      /\ (d + 1) * DayLen \in Nat
  BY DayWidth, NextMultiple
<1>2. EndOfDay(tz, s) = (d + 1) * DayLen - Offset[tz]
  BY DEF EndOfDay
<1>3. n \in Nat /\ d * DayLen <= n /\ n < (d + 1) * DayLen
  <2> DEFINE a == d * DayLen
             b == (d + 1) * DayLen
  <2>1. a \in Nat /\ b \in Nat /\ a <= s + Offset[tz] /\ t < b - Offset[tz]
    BY <1>1, <1>2
  <2> HIDE DEF a, b
  <2>2. a <= n /\ n < b /\ n \in Nat
    BY <2>1, <1>1
  <2> QED
    BY <2>2 DEF a, b
<1> HIDE DEF d, n
<1>4. n \div DayLen = d
  BY <1>1, <1>3, DivisionIs
<1> QED
  BY <1>4 DEF Day, d, n

\* What a ledger still holds to at t: nothing, if that is another day.
Kept(l, t) == IF Day(l.tz, t) = l.day THEN l.applied ELSE {}

LEMMA RolledFacts ==
    ASSUME NEW l, Sound(l), NEW t \in Nat
    PROVE  /\ Sound(Rolled(l, t)) /\ Rolled(l, t).tz = l.tz
           /\ Rolled(l, t).day = Day(l.tz, t)
           /\ Rolled(l, t).applied = Kept(l, t)
           /\ Rolled(l, t).credits = l.credits
<1>1. Sound(Rolled(l, t)) /\ Rolled(l, t).tz = l.tz /\ Rolled(l, t).day = Day(l.tz, t)
  BY RolledSound
<1> QED
  BY <1>1 DEF Rolled, Kept, EmptyDay

\* c is l with id landed at t.
Took(l, c, t, id) ==
    /\ Sound(c) /\ c.tz = l.tz /\ c.day = Day(l.tz, t)
    /\ c.applied = Kept(l, t) \union {id}
    /\ c.credits = [l.credits EXCEPT ![id] = IF id \in Kept(l, t) THEN @ ELSE @ + 1]

LEMMA CreditTook ==
    ASSUME NEW l, Sound(l), NEW t \in Nat, NEW id \in Ids, NEW pool \in Pools
    PROVE  Took(l, Credit(l, t, id, pool), t, id)
<1> DEFINE r == Rolled(l, t)
           c == Credit(l, t, id, pool)
<1>1. /\ Sound(r) /\ r.tz = l.tz /\ r.day = Day(l.tz, t) /\ r.applied = Kept(l, t)
      /\ r.credits = l.credits
  BY RolledFacts
<1>2. Sound(c)
  BY CreditSound
<1>3. r \in Ledger /\ l.credits \in [Ids -> Nat]
  BY <1>1 DEF Sound, Ledger
<1>4. CASE id \in Kept(l, t)
  <2>1. c = r
    BY <1>1, <1>4 DEF Credit
  <2>2. l.credits = [l.credits EXCEPT ![id] = @]
    BY <1>3
  <2> HIDE DEF c, r
  <2> QED
    BY <1>1, <1>2, <1>4, <2>1, <2>2 DEF Took, c
<1>5. CASE id \notin Kept(l, t)
  <2>1. c = [r EXCEPT !.applied = @ \union {id},
                      !.secs[pool] = @ + Amount[id],
                      !.floored = @ \/ pool = "budget",
                      !.credits[id] = @ + 1]
    BY <1>1, <1>5 DEF Credit
  <2>2. /\ c.tz = r.tz /\ c.day = r.day /\ c.applied = r.applied \union {id}
        /\ c.credits = [r.credits EXCEPT ![id] = @ + 1]
    <3> HIDE DEF r, c
    <3> QED
      BY <1>3, <2>1 DEF Ledger
  <2> HIDE DEF c, r
  <2> QED
    BY <1>1, <1>2, <1>5, <2>2 DEF Took, c
<1> QED
  BY <1>4, <1>5

LEMMA DeductTook ==
    ASSUME NEW l, Sound(l), NEW t \in Nat, NEW id \in Ids, NEW dim \in Dims
    PROVE  Took(l, Deduct(l, t, id, dim), t, id)
<1> DEFINE r == Rolled(l, t)
           c == Deduct(l, t, id, dim)
<1>1. /\ Sound(r) /\ r.tz = l.tz /\ r.day = Day(l.tz, t) /\ r.applied = Kept(l, t)
      /\ r.credits = l.credits
  BY RolledFacts
<1>2. Sound(c)
  BY DeductSound
<1>3. r \in Ledger /\ l.credits \in [Ids -> Nat]
  BY <1>1 DEF Sound, Ledger
<1>4. CASE id \in Kept(l, t)
  <2>1. c = r
    BY <1>1, <1>4 DEF Deduct
  <2>2. l.credits = [l.credits EXCEPT ![id] = @]
    BY <1>3
  <2> HIDE DEF c, r
  <2> QED
    BY <1>1, <1>2, <1>4, <2>1, <2>2 DEF Took, c
<1>5. CASE id \notin Kept(l, t)
  <2>1. c = [r EXCEPT !.applied = @ \union {id},
                      !.deducted[dim] = @ + Amount[id],
                      !.credits[id] = @ + 1]
    BY <1>1, <1>5 DEF Deduct
  <2>2. /\ c.tz = r.tz /\ c.day = r.day /\ c.applied = r.applied \union {id}
        /\ c.credits = [r.credits EXCEPT ![id] = @ + 1]
    <3> HIDE DEF r, c
    <3> QED
      BY <1>3, <2>1 DEF Ledger
  <2> HIDE DEF c, r
  <2> QED
    BY <1>1, <1>2, <1>5, <2>2 DEF Took, c
<1> QED
  BY <1>4, <1>5

\* c is l of today: rolled, or burned, or left alone.
Moved(l, c, t) ==
    /\ Sound(c) /\ c.tz = l.tz /\ c.credits = l.credits
    /\ \/ c.day = l.day /\ c.applied = l.applied
       \/ c.day = Day(l.tz, t) /\ c.applied = Kept(l, t)

LEMMA BurnedMoved ==
    ASSUME NEW l, Sound(l), NEW t \in Nat, NEW pool \in Burnable, NEW n \in Nat
    PROVE  Moved(l, Burned(l, t, pool, n), t)
<1> DEFINE r == Rolled(l, t)
           b == Burned(l, t, pool, n)
<1>1. /\ Sound(r) /\ r.tz = l.tz /\ r.day = Day(l.tz, t) /\ r.applied = Kept(l, t)
      /\ r.credits = l.credits
  BY RolledFacts
<1>2. Sound(b)
  BY BurnedSound
<1>3. b = [r EXCEPT !.spent[pool] = Lesser(@ + n, r.secs[pool])]
  BY DEF Burned
<1>4. r \in Ledger
  BY <1>1 DEF Sound
<1> HIDE DEF r, b
<1>5. b.tz = r.tz /\ b.day = r.day /\ b.applied = r.applied /\ b.credits = r.credits
  BY <1>3, <1>4 DEF Ledger
<1> QED
  BY <1>1, <1>2, <1>5 DEF Moved, b

\* Re-keying to the clause's timezone drops what is not of today.
LEMMA ReconciledFacts ==
    ASSUME NEW l, Sound(l), NEW tz \in Tzs, NEW t \in Nat
    PROVE  /\ Sound(Reconciled(l, tz, t)) /\ Reconciled(l, tz, t).tz = tz
           /\ Reconciled(l, tz, t).credits = l.credits
           /\ l.tz = tz => Reconciled(l, tz, t) = l
           /\ l.tz # tz => /\ Reconciled(l, tz, t).day = Day(tz, t)
                           /\ Reconciled(l, tz, t).applied = Kept(l, t)
<1>1. Sound(Reconciled(l, tz, t))
  BY ReconciledSound
<1>2. CASE l.tz = tz
  BY <1>1, <1>2 DEF Reconciled
<1>3. CASE l.tz # tz
  <2> DEFINE r == Rolled(l, t)
  <2>1. Sound(r) /\ r.applied = Kept(l, t) /\ r.credits = l.credits
    BY RolledFacts
  <2>2. Reconciled(l, tz, t) = [r EXCEPT !.tz = tz, !.day = Day(tz, t)]
    BY <1>3 DEF Reconciled
  <2> HIDE DEF r
  <2> QED
    BY <1>1, <1>3, <2>1, <2>2 DEF Sound, Ledger
<1> QED
  BY <1>2, <1>3

\* A ledger nobody has used.
LEMMA NewLedgerFacts ==
    ASSUME NEW tz \in Tzs, NEW t \in Nat
    PROVE  /\ Sound(NewLedger(tz, t)) /\ NewLedger(tz, t).tz = tz
           /\ NewLedger(tz, t).day = Day(tz, t) /\ NewLedger(tz, t).applied = {}
           /\ NewLedger(tz, t).credits = [i \in Ids |-> 0]
<1>1. Sound(NewLedger(tz, t))
  BY DayIsNat, EmptyDaySound DEF NewLedger
<1> QED
  BY <1>1 DEF NewLedger, EmptyDay

--------------------------------------------------------------------------------
(* Yesterday's minutes.  The bound of an id is a day, and a day more for     *)
(* each move of the timezone; a ledger that has not been re-keyed since the  *)
(* last move has a day of it in hand, which the re-key will use.             *)

USE IdsAssumption, SetupsAssumption, RoutesAssumption, BoundsAssumption

\* The length of n days.
Days(n) == DayLen * n

LEMMA DaysFacts ==
    ASSUME NEW n \in Nat
    PROVE  /\ Days(n) \in Nat /\ Days(n + 1) \in Nat
           /\ Days(n + 1) = Days(n) + DayLen
           /\ n >= 1 => DayLen <= Days(n)
<1>1. DayLen * n \in Nat /\ DayLen * (n + 1) = DayLen * n + DayLen
  OBVIOUS
<1>2. n >= 1 => DayLen <= DayLen * n
  OBVIOUS
<1> QED
  BY <1>1, <1>2 DEF Days

\* id was given at some time, not before at and not in the future.
Since(id, at) == givenAt[id] \in Nat /\ at <= givenAt[id] /\ givenAt[id] <= now

\* The ledger's ids were given within the bound of any instant of its day.
Fresh(l) ==
    /\ Sound(l)
    /\ l.tz # clauseTz => tzEdits >= 1
    /\ \A id \in l.applied :
        /\ givenAt[id] \in Nat
        /\ \A x \in Nat :
            Day(l.tz, x) = l.day =>
                x - givenAt[id] < Days(IF l.tz = clauseTz THEN tzEdits + 1 ELSE tzEdits)

\* What is under way carries an instant its id was not given before.
Begun == {e \in [id : Asks, at : Nat] : Since(e.id, e.at)}
Enacted == {e \in [id : Asks, at : Nat, pool : Pools] : Since(e.id, e.at)}
Entries == {e \in [id : Gives \union Takes, at : Nat] : Since(e.id, e.at)}

\* A gift dies with the day it was given in, in the timezone of that time.
GiftInv ==
    gift # None =>
        /\ gift.id \in Gifts
        /\ \E tz \in Tzs, s \in Nat :
            /\ Since(gift.id, s) /\ gift.exp = EndOfDay(tz, s)
            /\ tz # clauseTz => tzEdits >= 1

DoorsInv ==
    /\ now \in Nat /\ clauseTz \in Tzs /\ tzEdits \in Nat /\ last \in Nat \union {None}
    /\ givenAt \in [Ids -> Nat \union {None}]
    /\ \A id \in Ids : givenAt[id] \in Nat => givenAt[id] <= now
    /\ asking # None => asking \in Begun
    /\ inbox \in Seq(Enacted) /\ adjust \in Seq(Entries)
    /\ GiftInv

FreshInv ==
    /\ led # None => Fresh(led)
    /\ disk # None => Fresh(disk)

\* Inside an iteration a ledger may be of another day than today, which the
\* re-key drops; of today, it keeps what the re-key needs.
Mid(l) ==
    /\ Sound(l)
    /\ l.tz # clauseTz => tzEdits >= 1
    /\ \A id \in l.applied :
        /\ givenAt[id] \in Nat
        /\ l.tz = clauseTz =>
            \A x \in Nat : Day(l.tz, x) = l.day => x - givenAt[id] < Days(tzEdits + 1)
        /\ l.tz # clauseTz =>
            (Day(l.tz, now) = l.day => now - givenAt[id] < Days(tzEdits))

\* id may land at u in a ledger of timezone tz.
Ripe(tz, u, id) ==
    /\ givenAt[id] \in Nat
    /\ tz = clauseTz =>
        \A x \in Nat : Day(tz, x) = Day(tz, u) => x - givenAt[id] < Days(tzEdits + 1)
    /\ tz # clauseTz => (Day(tz, now) = Day(tz, u) => now - givenAt[id] < Days(tzEdits))

LEMMA FreshIsMid ==
    ASSUME DoorsInv, NEW l, Fresh(l)
    PROVE  Mid(l)
BY DEF DoorsInv, Fresh, Mid

\* An id given since u may land at u.
LEMMA SinceIsRipe ==
    ASSUME DoorsInv, NEW tz \in Tzs, tz # clauseTz => tzEdits >= 1,
           NEW u \in Nat, NEW id \in Ids, Since(id, u)
    PROVE  Ripe(tz, u, id)
<1>1. givenAt[id] \in Nat /\ u <= givenAt[id] /\ now \in Nat
  BY DEF Since, DoorsInv
<1>2. ASSUME NEW x \in Nat, Day(tz, x) = Day(tz, u) PROVE x - givenAt[id] < DayLen
  <2>1. x - u < DayLen
    BY <1>2, SameDayApart
  <2> QED
    BY <1>1, <2>1
<1>3. /\ Days(tzEdits) \in Nat /\ Days(tzEdits + 1) \in Nat
      /\ DayLen <= Days(tzEdits + 1)
      /\ tzEdits >= 1 => DayLen <= Days(tzEdits)
  <2>1. tzEdits \in Nat
    BY DEF DoorsInv
  <2>2. /\ Days(tzEdits) \in Nat /\ Days(tzEdits + 1) = Days(tzEdits) + DayLen
        /\ tzEdits >= 1 => DayLen <= Days(tzEdits)
    BY <2>1, DaysFacts
  <2> QED
    BY <2>2
<1>4. ASSUME NEW x \in Nat, Day(tz, x) = Day(tz, u)
      PROVE  /\ x - givenAt[id] < Days(tzEdits + 1)
             /\ tzEdits >= 1 => x - givenAt[id] < Days(tzEdits)
  BY <1>1, <1>2, <1>3, <1>4
<1> QED
  BY <1>1, <1>4 DEF Ripe

\* A gift that is alive may land now: it was given within a day, and within the
\* day if the timezone has not moved since.
LEMMA GiftIsRipe ==
    ASSUME DoorsInv, NEW tz \in Tzs, tz # clauseTz => tzEdits >= 1,
           gift # None, ~(gift.exp <= now)
    PROVE  Ripe(tz, now, gift.id)
<1>1. PICK z \in Tzs, s \in Nat :
        /\ Since(gift.id, s) /\ gift.exp = EndOfDay(z, s)
        /\ z # clauseTz => tzEdits >= 1
  BY DEF DoorsInv, GiftInv
<1>2. /\ givenAt[gift.id] \in Nat /\ now \in Nat
      /\ s <= givenAt[gift.id] /\ givenAt[gift.id] <= now
  BY <1>1 DEF Since, DoorsInv
<1>3. now < EndOfDay(z, s)
  <2>1. EndOfDay(z, s) \in Int
    BY DayIsNat DEF EndOfDay
  <2> QED
    BY <1>1, <1>2, <2>1
<1>4. Day(z, now) = Day(z, s)
  BY <1>2, <1>3, BeforeEnd
<1>5. now - givenAt[gift.id] < DayLen
  <2>1. now - s < DayLen
    BY <1>2, <1>4, SameDayApart
  <2> QED
    BY <1>2, <2>1
<1>6. /\ tzEdits \in Nat /\ Days(tzEdits) \in Nat /\ Days(tzEdits + 1) = Days(tzEdits) + DayLen
      /\ tzEdits >= 1 => DayLen <= Days(tzEdits)
  <2>1. tzEdits \in Nat
    BY DEF DoorsInv
  <2> QED
    BY <2>1, DaysFacts
<1>7. ASSUME tz = clauseTz, NEW x \in Nat, Day(tz, x) = Day(tz, now)
      PROVE  x - givenAt[gift.id] < Days(tzEdits + 1)
  <2>1. x - now < DayLen
    BY <1>2, <1>7, SameDayApart
  <2>2. CASE tzEdits >= 1
    BY <1>2, <1>5, <1>6, <2>1, <2>2
  <2>3. CASE ~(tzEdits >= 1)
    <3>1. Day(tz, x) = Day(tz, s)
      BY <1>1, <1>4, <1>7, <2>3
    <3>2. x - s < DayLen
      BY <3>1, SameDayApart
    <3> QED
      BY <1>2, <1>6, <3>2
  <2> QED
    BY <2>2, <2>3
<1>8. ASSUME tz # clauseTz PROVE now - givenAt[gift.id] < Days(tzEdits)
  BY <1>2, <1>5, <1>6, <1>8
<1> QED
  BY <1>2, <1>7, <1>8 DEF Ripe

\* Landing what may land.
LEMMA TookMid ==
    ASSUME NEW l, Mid(l), NEW c, NEW u \in Nat, NEW id \in Ids, Ripe(l.tz, u, id),
           Took(l, c, u, id)
    PROVE  Mid(c)
BY DEF Mid, Took, Kept, Ripe

LEMMA MovedMid ==
    ASSUME NEW l, Mid(l), NEW c, Moved(l, c, now)
    PROVE  Mid(c)
BY DEF Mid, Moved, Kept

\* The inbox, each grant at its own instant.
LEMMA DrainedMid ==
    ASSUME DoorsInv, NEW l, Mid(l)
    PROVE  Mid(Drained(l))
<1> DEFINE R == [i \in 0..Len(inbox) |-> {a \in Ledger : Mid(a)}]
<1>1. Len(inbox) \in Nat
  BY DEF DoorsInv
<1>2. \A i \in 0..Len(inbox) : R[i] = {a \in Ledger : Mid(a)}
  OBVIOUS
<1>3. l \in R[0]
  BY <1>1, <1>2 DEF Mid, Sound
<1>4. ASSUME NEW i \in 1..Len(inbox), NEW a, Mid(a)
      PROVE  LET c == Credit(a, inbox[i].at, inbox[i].id, inbox[i].pool)
             IN  Mid(c) /\ c \in Ledger
  <2> DEFINE p == inbox[i]
  <2>1. p.id \in Ids /\ p.at \in Nat /\ p.pool \in Pools /\ Since(p.id, p.at)
    BY DEF DoorsInv, Enacted
  <2> HIDE DEF p
  <2>2. Sound(a) /\ a.tz \in Tzs /\ (a.tz # clauseTz => tzEdits >= 1)
    BY <1>4 DEF Mid, Sound, Ledger
  <2>3. Ripe(a.tz, p.at, p.id)
    BY <2>1, <2>2, SinceIsRipe
  <2>4. Took(a, Credit(a, p.at, p.id, p.pool), p.at, p.id)
    BY <2>1, <2>2, CreditTook
  <2>5. Mid(Credit(a, p.at, p.id, p.pool))
    BY <1>4, <2>1, <2>3, <2>4, TookMid
  <2> QED
    BY <2>5 DEF Mid, Sound, p
<1> HIDE DEF R
<1>5. \A i \in 1..Len(inbox) : i - 1 \in 0..Len(inbox) /\ i \in 0..Len(inbox)
  BY <1>1
<1>6. \A i \in 1..Len(inbox) : \A a \in R[i - 1] :
        Credit(a, inbox[i].at, inbox[i].id, inbox[i].pool) \in R[i]
  BY <1>2, <1>4, <1>5
<1>7. Drained(l) \in R[Len(inbox)]
  BY <1>1, <1>3, <1>6, DrainedIn
<1> QED
  BY <1>1, <1>2, <1>7

\* The gift in the slot.
LEMMA GiftedMid ==
    ASSUME DoorsInv, NEW l, Mid(l), NEW pool \in Pools
    PROVE  Mid(Gifted(l, pool))
<1>1. CASE gift = None \/ gift.exp <= now
  BY <1>1 DEF Gifted
<1>2. CASE gift # None /\ ~(gift.exp <= now)
  <2>1. /\ Sound(l) /\ l.tz \in Tzs /\ (l.tz # clauseTz => tzEdits >= 1)
        /\ gift.id \in Ids /\ now \in Nat
    BY <1>2 DEF Mid, Sound, Ledger, DoorsInv, GiftInv
  <2>2. Ripe(l.tz, now, gift.id)
    BY <1>2, <2>1, GiftIsRipe
  <2>3. Took(l, Credit(l, now, gift.id, pool), now, gift.id)
    BY <2>1, CreditTook
  <2>4. Mid(Credit(l, now, gift.id, pool))
    BY <2>1, <2>2, <2>3, TookMid
  <2> QED
    BY <1>2, <2>4 DEF Gifted
<1> QED
  BY <1>1, <1>2

\* An entry of the adjustment file lands now, on the day it was made.
LEMMA AdjustedByMid ==
    ASSUME DoorsInv, NEW l, Mid(l), NEW dims \in [Gives \union Takes -> Dims],
           NEW e \in Entries
    PROVE  Mid(AdjustedBy(l, e, dims))
<1>1. /\ e.id \in Gives \union Takes /\ e.at \in Nat /\ Since(e.id, e.at)
      /\ dims[e.id] \in Dims /\ e.id \in Ids /\ dims[e.id] \in Pools
  BY DEF Pools, Entries
<1>2. Sound(l) /\ l.tz \in Tzs /\ (l.tz # clauseTz => tzEdits >= 1) /\ now \in Nat
  BY DEF Mid, Sound, Ledger, DoorsInv
<1>3. CASE ~SameDay(l, e.at, now)
  BY <1>3 DEF AdjustedBy
<1>4. CASE SameDay(l, e.at, now)
  <2>1. Ripe(l.tz, e.at, e.id)
    BY <1>1, <1>2, SinceIsRipe
  <2>2. Ripe(l.tz, now, e.id)
    BY <1>4, <2>1 DEF Ripe, SameDay
  <2>3. /\ Took(l, Credit(l, now, e.id, dims[e.id]), now, e.id)
        /\ Took(l, Deduct(l, now, e.id, dims[e.id]), now, e.id)
    BY <1>1, <1>2, CreditTook, DeductTook
  <2>4. Mid(Credit(l, now, e.id, dims[e.id])) /\ Mid(Deduct(l, now, e.id, dims[e.id]))
    BY <1>1, <1>2, <2>2, <2>3, TookMid
  <2> QED
    BY <1>4, <2>4 DEF AdjustedBy
<1> QED
  BY <1>3, <1>4

LEMMA AdjustedMid ==
    ASSUME DoorsInv, NEW l, Mid(l), NEW dims \in [Gives \union Takes -> Dims]
    PROVE  Mid(Adjusted(l, dims))
<1> DEFINE S == {a \in Ledger : Mid(a)}
<1>1. Len(adjust) \in Nat /\ l \in S
  BY DEF DoorsInv, Mid, Sound
<1>2. ASSUME NEW i \in 1..Len(adjust), NEW a \in S
      PROVE  AdjustedBy(a, adjust[i], dims) \in S
  <2>1. adjust[i] \in Entries
    BY DEF DoorsInv
  <2>2. Mid(AdjustedBy(a, adjust[i], dims))
    BY <2>1, AdjustedByMid
  <2> QED
    BY <2>2 DEF Mid, Sound
<1> HIDE DEF S
<1>3. Adjusted(l, dims) \in S
  BY <1>1, <1>2, AdjustedIn
<1> QED
  BY <1>3 DEF S

LEMMA TakenMid ==
    ASSUME DoorsInv, NEW l, Mid(l), NEW bound \in BOOLEAN, NEW pool \in Pools,
           NEW dims \in [Gives \union Takes -> Dims]
    PROVE  Mid(Taken(l, bound, pool, dims))
BY DrainedMid, GiftedMid, AdjustedMid DEF Taken

\* The tick re-keys the ledger to the clause's timezone.
LEMMA TickedFresh ==
    ASSUME DoorsInv, NEW l, Mid(l), NEW burning \in SUBSET Burnable, NEW elapsed \in Nat
    PROVE  Fresh(Ticked(l, burning, elapsed))
<1> DEFINE r == Reconciled(l, clauseTz, now)
           s == IF elapsed > 0 /\ "schedule" \in burning
                THEN Burned(r, now, "schedule", elapsed) ELSE r
           b == IF "time" \in burning THEN Burned(s, now, "time", elapsed) ELSE s
<1>1. now \in Nat /\ clauseTz \in Tzs /\ tzEdits \in Nat /\ Sound(l) /\ l.tz \in Tzs
  BY DEF DoorsInv, Mid, Sound, Ledger
<1>2. Mid(r) /\ r.tz = clauseTz
  <2>1. CASE l.tz = clauseTz
    BY <1>1, <2>1, ReconciledFacts
  <2>2. CASE l.tz # clauseTz
    <3>1. /\ Sound(r) /\ r.tz = clauseTz /\ r.day = Day(clauseTz, now)
          /\ r.applied = Kept(l, now)
      BY <1>1, <2>2, ReconciledFacts
    <3>2. Days(tzEdits) \in Nat /\ Days(tzEdits + 1) = Days(tzEdits) + DayLen
      BY <1>1, DaysFacts
    <3>3. ASSUME NEW id \in r.applied
          PROVE  /\ givenAt[id] \in Nat
                 /\ \A x \in Nat : Day(r.tz, x) = r.day => x - givenAt[id] < Days(tzEdits + 1)
      <4>1. givenAt[id] \in Nat /\ now - givenAt[id] < Days(tzEdits)
        BY <2>2, <3>1, <3>3 DEF Kept, Mid
      <4>2. ASSUME NEW x \in Nat, Day(r.tz, x) = r.day PROVE x - givenAt[id] < Days(tzEdits + 1)
        <5>1. x - now < DayLen
          BY <1>1, <3>1, <4>2, SameDayApart
        <5> QED
          BY <1>1, <3>2, <4>1, <5>1
      <4> QED
        BY <4>1, <4>2
    <3> HIDE DEF r
    <3> QED
      BY <3>1, <3>3 DEF Mid
  <2> QED
    BY <2>1, <2>2
<1> HIDE DEF r
<1>3. Mid(s) /\ s.tz = clauseTz
  <2>1. Sound(r) /\ "schedule" \in Burnable
    BY <1>2 DEF Mid, Burnable
  <2>2. Moved(r, Burned(r, now, "schedule", elapsed), now)
    BY <1>1, <2>1, BurnedMoved
  <2>3. /\ Mid(Burned(r, now, "schedule", elapsed))
        /\ Burned(r, now, "schedule", elapsed).tz = clauseTz
    BY <1>2, <2>2, MovedMid DEF Moved
  <2> QED
    BY <1>2, <2>3
<1> HIDE DEF s
<1>4. Mid(b) /\ b.tz = clauseTz
  <2>1. Sound(s) /\ "time" \in Burnable
    BY <1>3 DEF Mid, Burnable
  <2>2. Moved(s, Burned(s, now, "time", elapsed), now)
    BY <1>1, <2>1, BurnedMoved
  <2>3. Mid(Burned(s, now, "time", elapsed)) /\ Burned(s, now, "time", elapsed).tz = clauseTz
    BY <1>3, <2>2, MovedMid DEF Moved
  <2> QED
    BY <1>3, <2>3
<1>5. Ticked(l, burning, elapsed) = b
  BY DEF Ticked, r, s
<1> HIDE DEF b
<1> QED
  BY <1>4, <1>5 DEF Mid, Fresh

\* The ledger an iteration begins with.
LEMMA SyncedMid ==
    ASSUME DoorsInv, FreshInv
    PROVE  Mid(Synced(TRUE))
<1>1. CASE led # None
  BY <1>1, FreshIsMid DEF Synced, FreshInv
<1>2. CASE led = None /\ disk # None
  BY <1>2, FreshIsMid DEF Synced, Restored, FreshInv
<1>3. CASE led = None /\ disk = None
  <2>1. /\ Sound(NewLedger(clauseTz, now)) /\ NewLedger(clauseTz, now).tz = clauseTz
        /\ NewLedger(clauseTz, now).applied = {}
    BY NewLedgerFacts DEF DoorsInv
  <2>2. Mid(NewLedger(clauseTz, now))
    BY <2>1 DEF Mid
  <2> QED
    BY <1>3, <2>2 DEF Synced, Restored
<1> QED
  BY <1>1, <1>2, <1>3

\* What an iteration finds, taken apart.
Finds(bound, tracked, pool, dims, burning, elapsed, saved) ==
    /\ <<bound, tracked>> \in Setups
    /\ Iterate(bound, tracked, pool, dims, burning, elapsed, saved)

LEMMA IterationIs ==
    ASSUME DoorsInv, Iteration
    PROVE  \E bound \in BOOLEAN, tracked \in BOOLEAN, pool \in Pools,
              dims \in [Gives \union Takes -> Dims], burning \in SUBSET Burnable,
              elapsed \in Nat, saved \in BOOLEAN :
             Finds(bound, tracked, pool, dims, burning, elapsed, saved)
<1>1. PICK setup \in Setups, pool \in Routes,
           dims \in [Gives \union Takes -> Dims \intersect Routes],
           burning \in SUBSET Burnable, elapsed \in 0..Chargeable, saved \in BOOLEAN :
        Iterate(setup[1], setup[2], pool, dims, burning, elapsed, saved)
  BY DEF Iteration, IterationFor
<1>2. setup[1] \in BOOLEAN /\ setup[2] \in BOOLEAN /\ <<setup[1], setup[2]>> \in Setups
  OBVIOUS
<1>3. pool \in Pools /\ dims \in [Gives \union Takes -> Dims]
  OBVIOUS
<1>4. elapsed \in Nat
  <2>1. now \in Nat /\ last \in Nat \union {None} /\ MaxCharge \in Nat
    BY SlowAssumption DEF DoorsInv
  <2>2. Chargeable \in Int
    BY <2>1 DEF Chargeable, Lesser
  <2> QED
    BY <2>2
<1>5. Finds(setup[1], setup[2], pool, dims, burning, elapsed, saved)
  BY <1>1, <1>2 DEF Finds
<1> QED
  BY <1>2, <1>3, <1>4, <1>5

\* An iteration leaves ledgers of the clause's timezone, or none.
LEMMA IterationFresh ==
    ASSUME DoorsInv, FreshInv, Iteration
    PROVE  FreshInv'
<1>1. PICK bound \in BOOLEAN, tracked \in BOOLEAN, pool \in Pools,
           dims \in [Gives \union Takes -> Dims], burning \in SUBSET Burnable,
           elapsed \in Nat, saved \in BOOLEAN :
        Finds(bound, tracked, pool, dims, burning, elapsed, saved)
  BY IterationIs
<1>2. PICK t : t = Ticked(Taken(Synced(TRUE), bound, pool, dims), burning, elapsed)
  OBVIOUS
<1>3. Fresh(t)
  BY <1>2, SyncedMid, TakenMid, TickedFresh
<1>4. /\ led' = IF tracked THEN t ELSE None
      /\ disk' = t \/ disk' = disk
      /\ UNCHANGED <<clauseTz, tzEdits, givenAt>>
  <2>1. /\ led' = IF tracked THEN t ELSE None
        /\ disk' = IF (SaveDue /\ tracked) /\ saved
                   THEN (IF tracked THEN t ELSE None) ELSE disk
        /\ UNCHANGED <<clauseTz, tzEdits, givenAt>>
    BY <1>1, <1>2 DEF Finds, Iterate, guardian
  <2> QED
    BY <2>1
<1>5. ASSUME NEW l, Fresh(l) PROVE Fresh(l)'
  BY <1>4, <1>5 DEF Fresh
<1>6. PICK d : d = disk
  OBVIOUS
<1>7. Fresh(t)' /\ (d # None => Fresh(d)')
  BY <1>3, <1>5, <1>6 DEF FreshInv
<1> QED
  BY <1>4, <1>6, <1>7 DEF FreshInv, Fresh

\* Time only adds to what was given.
GivenGrows ==
    /\ now' \in Nat /\ givenAt' \in [Ids -> Nat \union {None}]
    /\ \A id \in Ids : givenAt'[id] \in Nat => givenAt'[id] <= now'
    /\ \A id \in Ids : givenAt[id] \in Nat => givenAt'[id] \in Nat /\ givenAt[id] <= givenAt'[id]

LEMMA SinceStays ==
    ASSUME GivenGrows, NEW id \in Ids, NEW at \in Nat, Since(id, at)
    PROVE  Since(id, at)'
BY DEF GivenGrows, Since

\* Nothing but what is given now, or the passing of time.
LEMMA GivenOrNot ==
    ASSUME DoorsInv,
           \/ now' = now + 1 /\ givenAt' = givenAt
           \/ now' = now /\ givenAt' = givenAt
           \/ now' = now /\ \E id \in Ids : givenAt' = [givenAt EXCEPT ![id] = now]
    PROVE  GivenGrows
<1>1. now \in Nat /\ givenAt \in [Ids -> Nat \union {None}]
  BY DEF DoorsInv
<1>2. CASE givenAt' = givenAt /\ now' \in {now, now + 1}
  BY <1>1, <1>2 DEF DoorsInv, GivenGrows
<1>3. ASSUME now' = now, NEW id \in Ids, givenAt' = [givenAt EXCEPT ![id] = now]
      PROVE  GivenGrows
  <2>1. givenAt' \in [Ids -> Nat \union {None}]
    BY <1>1, <1>3
  <2>2. \A i \in Ids : givenAt'[i] = IF i = id THEN now ELSE givenAt[i]
    BY <1>1, <1>3
  <2> QED
    BY <1>1, <1>3, <2>1, <2>2 DEF DoorsInv, GivenGrows
<1> QED
  BY <1>2, <1>3

\* A clause's timezone that moves uses the day a ledger has in hand.
LEMMA FreshStays ==
    ASSUME DoorsInv, GivenGrows, NEW l, Fresh(l),
           \/ clauseTz' = clauseTz /\ tzEdits' = tzEdits
           \/ clauseTz' # clauseTz /\ tzEdits' = tzEdits + 1
    PROVE  Fresh(l)'
<1>1. /\ tzEdits \in Nat /\ Days(tzEdits) \in Nat /\ Days(tzEdits + 1) = Days(tzEdits) + DayLen
      /\ Days((tzEdits + 1) + 1) = Days(tzEdits + 1) + DayLen /\ Days(tzEdits + 1) \in Nat
  <2>1. tzEdits \in Nat /\ tzEdits + 1 \in Nat
    BY DEF DoorsInv
  <2> QED
    BY <2>1, DaysFacts
<1>2. Sound(l) /\ l.applied \subseteq Ids
  BY DEF Fresh, Sound, Ledger
<1>3. PICK k \in Nat, m \in Nat :
        /\ k = IF l.tz = clauseTz THEN tzEdits + 1 ELSE tzEdits
        /\ m = IF l.tz = clauseTz' THEN tzEdits' + 1 ELSE tzEdits'
  BY <1>1
<1>4. Days(k) <= Days(m) /\ Days(k) \in Nat /\ Days(m) \in Nat
  BY <1>1, <1>3
<1>5. ASSUME NEW id \in l.applied
      PROVE  /\ givenAt'[id] \in Nat
             /\ \A x \in Nat : Day(l.tz, x) = l.day => x - givenAt'[id] < Days(m)
  <2>1. /\ givenAt[id] \in Nat /\ givenAt'[id] \in Nat /\ givenAt[id] <= givenAt'[id]
        /\ \A x \in Nat : Day(l.tz, x) = l.day => x - givenAt[id] < Days(k)
    BY <1>2, <1>3, <1>5 DEF Fresh, GivenGrows
  <2> QED
    BY <1>4, <2>1
<1>6. l.tz # clauseTz' => tzEdits' >= 1
  BY <1>1 DEF Fresh
<1> QED
  BY <1>2, <1>3, <1>5, <1>6 DEF Fresh

LEMMA LedgersStay ==
    ASSUME DoorsInv, FreshInv, GivenGrows, led' \in {led, None}, disk' = disk,
           \/ clauseTz' = clauseTz /\ tzEdits' = tzEdits
           \/ clauseTz' # clauseTz /\ tzEdits' = tzEdits + 1
    PROVE  FreshInv'
<1>1. PICK l, d : l = led /\ d = disk
  OBVIOUS
<1>2. (l # None => Fresh(l)') /\ (d # None => Fresh(d)')
  BY <1>1, FreshStays DEF FreshInv
<1> QED
  BY <1>1, <1>2 DEF FreshInv, Fresh

\* What was under way still is.
LEMMA DoorsStay ==
    ASSUME DoorsInv, GivenGrows
    PROVE  /\ asking # None => asking \in Begun'
           /\ inbox \in Seq(Enacted') /\ adjust \in Seq(Entries')
<1>1. Begun \subseteq Begun' /\ Enacted \subseteq Enacted' /\ Entries \subseteq Entries'
  <2>1. \A id \in Ids, at \in Nat : Since(id, at) => Since(id, at)'
    BY SinceStays
  <2> QED
    BY <2>1 DEF Begun, Enacted, Entries
<1>2. inbox \in Seq(Enacted) /\ adjust \in Seq(Entries) /\ (asking # None => asking \in Begun)
  BY DEF DoorsInv
<1>3. ASSUME NEW A, NEW B, A \subseteq B, NEW s \in Seq(A) PROVE s \in Seq(B)
  BY <1>3
<1> QED
  BY <1>1, <1>2, <1>3

LEMMA GiftStays ==
    ASSUME DoorsInv, GivenGrows, gift' = gift,
           \/ clauseTz' = clauseTz /\ tzEdits' = tzEdits
           \/ clauseTz' # clauseTz /\ tzEdits' = tzEdits + 1
    PROVE  GiftInv'
<1> SUFFICES ASSUME gift # None
             PROVE  /\ gift.id \in Gifts
                    /\ \E tz \in Tzs, s \in Nat :
                        /\ Since(gift.id, s)' /\ gift.exp = EndOfDay(tz, s)
                        /\ tz # clauseTz' => tzEdits' >= 1
  BY DEF GiftInv, Since
<1>1. PICK tz \in Tzs, s \in Nat :
        /\ Since(gift.id, s) /\ gift.exp = EndOfDay(tz, s)
        /\ tz # clauseTz => tzEdits >= 1
  BY DEF DoorsInv, GiftInv
<1>2. gift.id \in Gifts /\ gift.id \in Ids /\ tzEdits \in Nat
  BY DEF DoorsInv, GiftInv
<1>3. PICK i \in Ids : i = gift.id
  BY <1>2
<1>4. Since(i, s)'
  BY <1>1, <1>3, SinceStays
<1>5. Since(gift.id, s)'
  BY <1>3, <1>4 DEF Since
<1>6. tz # clauseTz' => tzEdits' >= 1
  BY <1>1, <1>2
<1> QED
  BY <1>1, <1>2, <1>5, <1>6

DayInv == DoorsInv /\ FreshInv

LEMMA DayInit == Init => DayInv
<1> SUFFICES ASSUME Init PROVE DayInv
  OBVIOUS
<1>1. inbox \in Seq(Enacted) /\ adjust \in Seq(Entries)
  BY DEF Init
<1>2. givenAt \in [Ids -> Nat \union {None}]
  BY DEF Init
<1>3. \A id \in Ids : givenAt[id] \in Nat => givenAt[id] <= now
  BY NoneAssumption DEF Init
<1> QED
  BY <1>1, <1>2, <1>3 DEF Init, DayInv, DoorsInv, GiftInv, FreshInv

LEMMA DayStep == DayInv /\ [Next]_vars => DayInv'
<1> SUFFICES ASSUME DoorsInv, FreshInv, [Next]_vars
             PROVE  DayInv'
  BY DEF DayInv
<1> DEFINE SameTz == clauseTz' = clauseTz /\ tzEdits' = tzEdits
<1>0. now \in Nat /\ tzEdits \in Nat /\ last \in Nat \union {None} /\ clauseTz \in Tzs
  BY DEF DoorsInv
\* The doors, when nothing new goes in.
<1>1. ASSUME GivenGrows, SameTz, UNCHANGED <<inbox, adjust, gift>>, asking' \in {asking, None},
             last' \in {last, now, None}
      PROVE  DoorsInv'
  <2>1. GiftInv'
    BY <1>1, GiftStays
  <2>2. /\ asking' # None => asking' \in Begun'
        /\ inbox' \in Seq(Enacted') /\ adjust' \in Seq(Entries')
    BY <1>1, DoorsStay
  <2> QED
    BY <1>0, <1>1, <2>1, <2>2 DEF DoorsInv, GivenGrows
<1>2. ASSUME Advance PROVE DayInv'
  <2>1. now' = now + 1 /\ givenAt' = givenAt
    BY <1>2 DEF Advance
  <2>2. GivenGrows
    BY <2>1, GivenOrNot
  <2> QED
    BY <1>1, <1>2, <2>2, LedgersStay DEF Advance, DayInv, guardian, broker, loop
<1>3. ASSUME NEW tz \in Tzs, EditTz(tz) PROVE DayInv'
  <2>1. GivenGrows
    BY <1>3, GivenOrNot DEF EditTz
  <2>2. clauseTz' # clauseTz /\ tzEdits' = tzEdits + 1 /\ clauseTz' \in Tzs
    BY <1>3 DEF EditTz
  <2>3. UNCHANGED <<now, gift, inbox, adjust, asking, last, led, disk>>
    BY <1>3 DEF EditTz, broker, loop
  <2>4. GiftInv' /\ FreshInv'
    BY <2>1, <2>2, <2>3, GiftStays, LedgersStay
  <2>5. /\ asking' # None => asking' \in Begun'
        /\ inbox' \in Seq(Enacted') /\ adjust' \in Seq(Entries')
    BY <2>1, <2>3, DoorsStay
  <2> QED
    BY <1>0, <2>1, <2>2, <2>3, <2>4, <2>5 DEF DoorsInv, GivenGrows, DayInv
<1>4. ASSUME NEW id \in Asks, GrantBegin(id) PROVE DayInv'
  <2>1. /\ givenAt' = [givenAt EXCEPT ![id] = now] /\ asking' = [id |-> id, at |-> now]
        /\ SameTz /\ UNCHANGED <<now, gift, inbox, adjust, last, led, disk>>
    BY <1>4 DEF GrantBegin, guardian, loop
  <2>2. id \in Ids /\ GivenGrows
    BY <2>1, GivenOrNot
  <2>3. GiftInv' /\ FreshInv'
    BY <2>1, <2>2, GiftStays, LedgersStay
  <2>4. inbox' \in Seq(Enacted') /\ adjust' \in Seq(Entries')
    BY <2>1, <2>2, DoorsStay
  <2>5. asking' \in Begun'
    BY <1>0, <2>1, <2>2 DEF Begun, Since, DoorsInv
  <2> QED
    BY <1>0, <2>1, <2>2, <2>3, <2>4, <2>5 DEF DoorsInv, GivenGrows, DayInv
<1>5. ASSUME NEW pool \in Routes, GrantEnact(pool) PROVE DayInv'
  <2>1. /\ asking # None /\ asking' = None
        /\ inbox' = Append(inbox, [id |-> asking.id, at |-> asking.at, pool |-> pool])
        /\ SameTz /\ UNCHANGED <<now, givenAt, gift, adjust, last, led, disk>>
    BY <1>5 DEF GrantEnact, guardian, loop
  <2>2. GivenGrows
    BY <2>1, GivenOrNot
  <2>3. GiftInv' /\ FreshInv'
    BY <2>1, <2>2, GiftStays, LedgersStay
  <2>4. [id |-> asking.id, at |-> asking.at, pool |-> pool] \in Enacted'
    <3>1. asking.id \in Asks /\ asking.at \in Nat /\ pool \in Pools /\ Since(asking.id, asking.at)
      BY <2>1 DEF DoorsInv, Begun
    <3> QED
      BY <2>1, <3>1 DEF Enacted, Since
  <2>5. inbox' \in Seq(Enacted') /\ adjust' \in Seq(Entries')
    BY <2>1, <2>2, <2>4, DoorsStay
  <2> QED
    BY <1>0, <2>1, <2>2, <2>3, <2>5 DEF DoorsInv, GivenGrows, DayInv
<1>6. ASSUME NEW id \in Gifts, GuardianGives(id) PROVE DayInv'
  <2>1. /\ givenAt' = [givenAt EXCEPT ![id] = now]
        /\ gift' = [id |-> id, exp |-> EndOfDay(clauseTz, now)]
        /\ SameTz /\ UNCHANGED <<now, asking, inbox, adjust, last, led, disk>>
    BY <1>6 DEF GuardianGives, broker, loop
  <2>2. id \in Ids /\ GivenGrows
    BY <2>1, GivenOrNot
  <2>3. FreshInv'
    BY <2>1, <2>2, LedgersStay
  <2>4. /\ asking' # None => asking' \in Begun'
        /\ inbox' \in Seq(Enacted') /\ adjust' \in Seq(Entries')
    BY <2>1, <2>2, DoorsStay
  <2>5. Since(id, now)' /\ now' = now
    BY <1>0, <2>1, <2>2 DEF DoorsInv, Since
  <2>6. GiftInv'
    BY <1>0, <2>1, <2>5 DEF GiftInv, Since
  <2> QED
    BY <1>0, <2>1, <2>2, <2>3, <2>4, <2>6 DEF DoorsInv, GivenGrows, DayInv
<1>7. ASSUME NEW id \in Gives \union Takes, AdminAdjusts(id) PROVE DayInv'
  <2>1. /\ givenAt' = [givenAt EXCEPT ![id] = now]
        /\ adjust' = Append(Pruned(adjust), [id |-> id, at |-> now])
        /\ SameTz /\ UNCHANGED <<now, asking, inbox, gift, last, led, disk>>
    BY <1>7 DEF AdminAdjusts, guardian, broker, loop
  <2>2. id \in Ids /\ GivenGrows
    BY <2>1, GivenOrNot
  <2>3. GiftInv' /\ FreshInv'
    BY <2>1, <2>2, GiftStays, LedgersStay
  <2>4. /\ asking' # None => asking' \in Begun'
        /\ inbox' \in Seq(Enacted') /\ adjust \in Seq(Entries')
    BY <2>1, <2>2, DoorsStay
  <2>5. [id |-> id, at |-> now] \in Entries'
    BY <1>0, <2>1, <2>2 DEF Entries, Since, DoorsInv
  <2>6. adjust' \in Seq(Entries')
    <3>1. PICK E : E = Entries'
      OBVIOUS
    <3>2. Pruned(adjust) \in Seq(E)
      BY <2>4, <3>1, PrunedIn
    <3> QED
      BY <2>1, <2>5, <3>1, <3>2
  <2> QED
    BY <1>0, <2>1, <2>2, <2>3, <2>4, <2>6 DEF DoorsInv, GivenGrows, DayInv
<1>8. ASSUME Iteration PROVE DayInv'
  <2>1. /\ SameTz /\ UNCHANGED <<now, givenAt, asking, adjust, gift>> /\ last' = now
        /\ inbox' \in {inbox, <<>>}
    <3>1. PICK bound \in BOOLEAN, tracked \in BOOLEAN, pool \in Pools,
               dims \in [Gives \union Takes -> Dims], burning \in SUBSET Burnable,
               elapsed \in Nat, saved \in BOOLEAN :
            Finds(bound, tracked, pool, dims, burning, elapsed, saved)
      BY <1>8, IterationIs
    <3> QED
      BY <3>1 DEF Finds, Iterate, guardian, broker
  <2>2. GivenGrows
    BY <2>1, GivenOrNot
  <2>3. GiftInv' /\ FreshInv'
    BY <1>8, <2>1, <2>2, GiftStays, IterationFresh
  <2>4. /\ asking' # None => asking' \in Begun'
        /\ inbox \in Seq(Enacted') /\ adjust' \in Seq(Entries')
    BY <2>1, <2>2, DoorsStay
  <2>5. inbox' \in Seq(Enacted')
    <3>1. PICK E : E = Enacted'
      OBVIOUS
    <3>2. inbox \in Seq(E) /\ << >> \in Seq(E)
      BY <2>4, <3>1
    <3>3. CASE inbox' = inbox
      BY <3>1, <3>2, <3>3
    <3>4. CASE inbox' = << >>
      BY <3>1, <3>2, <3>4
    <3> QED
      BY <2>1, <3>3, <3>4
  <2> QED
    BY <1>0, <2>1, <2>2, <2>3, <2>4, <2>5 DEF DoorsInv, GivenGrows, DayInv
<1>9. ASSUME Skip \/ Boot \/ UNCHANGED vars PROVE DayInv'
  <2>1. /\ SameTz /\ UNCHANGED <<now, givenAt, asking, inbox, adjust, gift, led, disk>>
        /\ last' \in {last, now, None}
    BY <1>9 DEF Skip, Boot, vars, guardian, broker, loop
  <2>2. GivenGrows
    BY <2>1, GivenOrNot
  <2> QED
    BY <1>1, <2>1, <2>2, LedgersStay DEF DayInv
<1>10. ASSUME Crash PROVE DayInv'
  <2>1. /\ SameTz /\ UNCHANGED <<now, givenAt, adjust, gift, disk, last>>
        /\ led' = None /\ inbox' = <<>> /\ asking' = None
    BY <1>10 DEF Crash, guardian
  <2>2. GivenGrows
    BY <2>1, GivenOrNot
  <2>3. GiftInv' /\ FreshInv'
    BY <2>1, <2>2, GiftStays, LedgersStay
  <2>4. inbox' \in Seq(Enacted') /\ adjust' \in Seq(Entries')
    BY <2>1, <2>2, DoorsStay
  <2> QED
    BY <1>0, <2>1, <2>2, <2>3, <2>4 DEF DoorsInv, GivenGrows, DayInv
<1> QED
  BY <1>2, <1>3, <1>4, <1>5, <1>6, <1>7, <1>8, <1>9, <1>10 DEF Next

\* Time that is still there to spend was given within the day, or within one day
\* more for each time the timezone of the clause has moved: whatever asks are drained
\* late, whatever is restored after a crash, and whichever timezone the ledger is
\* re-keyed from (ExtensionLedger.reconcile, credit_drained).
THEOREM OnlyTodaysTime == Spec => []YesterdaysTimeIsGone
<1>1. DayInv => YesterdaysTimeIsGone
  <2> SUFFICES ASSUME DoorsInv, FreshInv, led # None, Day(led.tz, now) = led.day,
                      NEW id \in led.applied
               PROVE  now - givenAt[id] < DayLen * (1 + tzEdits)
    BY DEF DayInv, YesterdaysTimeIsGone
  <2>1. now \in Nat /\ tzEdits \in Nat
    BY DEF DoorsInv
  <2>2. /\ givenAt[id] \in Nat
        /\ now - givenAt[id] < Days(IF led.tz = clauseTz THEN tzEdits + 1 ELSE tzEdits)
    BY <2>1 DEF FreshInv, Fresh
  <2>3. /\ Days(tzEdits) \in Nat /\ Days(tzEdits + 1) = Days(tzEdits) + DayLen
        /\ Days(tzEdits + 1) = DayLen * (1 + tzEdits)
    <3>1. tzEdits + 1 = 1 + tzEdits
      BY <2>1
    <3> QED
      BY <2>1, <3>1, DaysFacts DEF Days
  <2> HIDE DEF Days
  <2> QED
    BY <2>1, <2>2, <2>3
<1> QED
  BY <1>1, DayInit, DayStep, PTL DEF Spec


--------------------------------------------------------------------------------
(* Given once, applied once.  As long as every ask is drained on the day its *)
(* handler began and the timezone stands still, an iteration never rolls a   *)
(* ledger back to an earlier day, so an id it forgets is of a day that is    *)
(* over, and none of the three doors lets that id in again.                  *)

\* No timezone has moved, and no ask has waited in the inbox over midnight.
Prompt ==
    /\ tzEdits = 0
    /\ \A i \in DOMAIN inbox : Day(clauseTz, inbox[i].at) = Day(clauseTz, now)

LEMMA DayOrder ==
    ASSUME NEW tz \in Tzs, NEW x \in Nat, NEW y \in Nat, x <= y
    PROVE  Day(tz, x) <= Day(tz, y)
<1> DEFINE a == Day(tz, x)
           b == Day(tz, y)
<1>1. /\ a \in Nat /\ a * DayLen <= x + Offset[tz] /\ a * DayLen \in Nat
      /\ b \in Nat /\ y + Offset[tz] < b * DayLen + DayLen /\ b * DayLen \in Nat
      /\ Offset[tz] \in Nat
  BY DayWidth
<1> HIDE DEF a, b
<1>2. ASSUME ~(a <= b) PROVE FALSE
  <2>1. PICK k \in Nat : a = (b + 1) + k
    <3>1. a - (b + 1) \in Nat /\ a = (b + 1) + (a - (b + 1))
      BY <1>1, <1>2
    <3> QED
      BY <3>1
  <2>2. ((b + 1) + k) * DayLen = b * DayLen + DayLen + k * DayLen /\ k * DayLen \in Nat
    BY <1>1
  <2>3. a * DayLen >= b * DayLen + DayLen
    BY <1>1, <2>1, <2>2
  <2> QED
    BY <1>1, <2>3
<1> QED
  BY <1>1, <1>2 DEF a, b

\* Between two instants of one day it is that day.
LEMMA DayBetween ==
    ASSUME NEW tz \in Tzs, NEW x \in Nat, NEW y \in Nat, NEW z \in Nat, x <= y, y <= z,
           Day(tz, x) = Day(tz, z)
    PROVE  Day(tz, y) = Day(tz, z)
<1>1. Day(tz, x) <= Day(tz, y) /\ Day(tz, y) <= Day(tz, z)
  BY DayOrder
<1>2. Day(tz, x) \in Nat /\ Day(tz, y) \in Nat /\ Day(tz, z) \in Nat
  BY DayIsNat
<1> QED
  BY <1>1, <1>2

\* Each id is credited at most once, and one that is not applied any more was
\* given on a day before the ledger's.
Single(l) ==
    /\ Sound(l)
    /\ l.day <= Day(l.tz, now)
    /\ \A id \in l.applied : l.credits[id] >= 1
    /\ \A id \in Ids :
        /\ l.credits[id] <= 1
        /\ l.credits[id] >= 1 =>
            /\ givenAt[id] \in Nat
            /\ Day(l.tz, givenAt[id]) <= l.day
            /\ id \in l.applied \/ Day(l.tz, givenAt[id]) < l.day

\* The ledger is not behind the saved one.
Follows(l) ==
    disk # None =>
        /\ disk.day <= l.day
        /\ disk.day = l.day => disk.applied \subseteq l.applied

\* What holds of the ledger throughout an iteration.
Steady(l) == Single(l) /\ Follows(l) /\ l.tz = clauseTz

\* id was given today.
OfToday(id) == givenAt[id] \in Nat /\ Day(clauseTz, givenAt[id]) = Day(clauseTz, now)

Grew(l, c) == \A id \in Ids : l.credits[id] <= c.credits[id]

\* Landing what was given today, today.
LEMMA TookSteady ==
    ASSUME DayInv, NEW l, Steady(l), NEW c, NEW u \in Nat,
           Day(clauseTz, u) = Day(clauseTz, now),
           NEW id \in Ids, OfToday(id), Took(l, c, u, id)
    PROVE  Steady(c) /\ Grew(l, c) /\ c.credits[id] >= 1
<1>1. /\ l.tz = clauseTz /\ c.tz = clauseTz /\ c.day = Day(clauseTz, now)
      /\ l.day <= c.day /\ l.day \in Nat /\ c.day \in Nat
      /\ l.credits \in [Ids -> Nat] /\ l.applied \subseteq Ids
      /\ c.applied = Kept(l, u) \union {id}
  BY DEF Steady, Single, Took, Sound, Ledger
<1>2. Kept(l, u) = IF l.day = c.day THEN l.applied ELSE {}
  BY <1>1 DEF Kept
<1>3. \A k \in Ids : c.credits[k] = IF k = id /\ id \notin Kept(l, u) THEN l.credits[k] + 1
                                    ELSE l.credits[k]
  BY <1>1 DEF Took
<1>4. id \notin Kept(l, u) => l.credits[id] = 0
  <2>1. ASSUME id \notin Kept(l, u), l.credits[id] >= 1 PROVE FALSE
    <3>1. /\ Day(clauseTz, givenAt[id]) <= l.day
          /\ id \in l.applied \/ Day(clauseTz, givenAt[id]) < l.day
          /\ Day(clauseTz, givenAt[id]) = c.day
      BY <1>1, <2>1 DEF Steady, Single, OfToday
    <3> QED
      BY <1>1, <1>2, <2>1, <3>1
  <2> QED
    BY <1>1, <2>1
<1>5. id \in Kept(l, u) => l.credits[id] >= 1
  BY <1>2 DEF Steady, Single
<1>6. Single(c)
  <2>1. ASSUME NEW k \in c.applied PROVE c.credits[k] >= 1
    BY <1>1, <1>2, <1>3, <1>4, <1>5, <2>1 DEF Steady, Single
  <2>2. ASSUME NEW k \in Ids PROVE c.credits[k] <= 1
    BY <1>1, <1>3, <1>4, <2>2 DEF Steady, Single
  <2>3. ASSUME NEW k \in Ids, c.credits[k] >= 1
        PROVE  /\ givenAt[k] \in Nat
               /\ Day(clauseTz, givenAt[k]) <= c.day
               /\ k \in c.applied \/ Day(clauseTz, givenAt[k]) < c.day
    <3>1. CASE k = id
      BY <1>1, <3>1 DEF OfToday
    <3>2. CASE k # id
      <4>1. l.credits[k] >= 1
        BY <1>3, <2>3, <3>2
      <4>2. /\ givenAt[k] \in Nat
            /\ Day(clauseTz, givenAt[k]) <= l.day
            /\ k \in l.applied \/ Day(clauseTz, givenAt[k]) < l.day
        BY <1>1, <4>1 DEF Steady, Single
      <4>3. Day(clauseTz, givenAt[k]) \in Nat
        BY <4>2, DayIsNat DEF DayInv, DoorsInv
      <4> QED
        BY <1>1, <1>2, <4>2, <4>3
    <3> QED
      BY <3>1, <3>2
  <2> QED
    BY <1>1, <2>1, <2>2, <2>3 DEF Single, Took
<1>7. Follows(c)
  <2> SUFFICES ASSUME disk # None
               PROVE  /\ disk.day <= c.day
                      /\ disk.day = c.day => disk.applied \subseteq c.applied
    BY DEF Follows
  <2>1. disk.day \in Nat
    BY DEF DayInv, FreshInv, Fresh, Sound, Ledger
  <2> QED
    BY <1>1, <1>2, <2>1 DEF Steady, Follows
<1> QED
  BY <1>1, <1>3, <1>4, <1>5, <1>6, <1>7 DEF Steady, Grew

\* Rolling to today, or burning.
LEMMA MovedSteady ==
    ASSUME DayInv, NEW l, Steady(l), NEW c, Moved(l, c, now)
    PROVE  Steady(c) /\ Grew(l, c)
<1>1. /\ l.tz = clauseTz /\ c.tz = clauseTz /\ c.credits = l.credits
      /\ l.day <= Day(clauseTz, now) /\ l.day \in Nat /\ Day(clauseTz, now) \in Nat
      /\ l.credits \in [Ids -> Nat] /\ l.applied \subseteq Ids
  BY DayIsNat DEF Steady, Single, Moved, Sound, Ledger, DayInv, DoorsInv
<1>2. CASE c.day = l.day /\ c.applied = l.applied
  BY <1>1, <1>2 DEF Steady, Single, Follows, Moved, Grew
<1>3. CASE c.day # l.day /\ c.day = Day(clauseTz, now) /\ c.applied = {}
  <2>1. l.day < c.day
    BY <1>1, <1>3
  <2>2. ASSUME NEW k \in Ids, c.credits[k] >= 1
        PROVE  givenAt[k] \in Nat /\ Day(clauseTz, givenAt[k]) < c.day
    <3>1. givenAt[k] \in Nat /\ Day(clauseTz, givenAt[k]) <= l.day
      BY <1>1, <2>2 DEF Steady, Single
    <3>2. Day(clauseTz, givenAt[k]) \in Nat
      BY <3>1, DayIsNat DEF DayInv, DoorsInv
    <3> QED
      BY <1>1, <1>3, <2>1, <3>1, <3>2
  <2>3. Single(c)
    <3>1. \A k \in Ids : c.credits[k] <= 1
      BY <1>1 DEF Steady, Single
    <3>2. ASSUME NEW k \in Ids, c.credits[k] >= 1 PROVE Day(clauseTz, givenAt[k]) <= c.day
      <4>1. givenAt[k] \in Nat /\ Day(clauseTz, givenAt[k]) < c.day
        BY <2>2, <3>2
      <4>2. Day(clauseTz, givenAt[k]) \in Nat
        BY <4>1, DayIsNat DEF DayInv, DoorsInv
      <4> QED
        BY <1>1, <1>3, <4>1, <4>2
    <3> QED
      BY <1>1, <1>3, <2>2, <3>1, <3>2 DEF Single, Moved
  <2>4. Follows(c)
    <3> SUFFICES ASSUME disk # None PROVE disk.day < c.day
      BY <1>1, <1>3 DEF Follows, DayInv, FreshInv, Fresh, Sound, Ledger
    <3>1. disk.day \in Nat /\ disk.day <= l.day
      BY DEF DayInv, FreshInv, Fresh, Sound, Ledger, Steady, Follows
    <3> QED
      BY <1>1, <1>3, <2>1, <3>1
  <2> QED
    BY <1>1, <2>3, <2>4 DEF Steady, Grew
<1> QED
  BY <1>1, <1>2, <1>3 DEF Moved, Kept

\* The ledgers of a child nothing is credited twice to.
OnceInv ==
    /\ led # None => Single(led) /\ Follows(led)
    /\ disk # None => Single(disk)
    /\ \A id \in Asks : givenAt[id] # None => id \in consumed

\* What was begun today was given today.
LEMMA SinceIsOfToday ==
    ASSUME DayInv, NEW id \in Ids, NEW u \in Nat, Since(id, u),
           Day(clauseTz, u) = Day(clauseTz, now)
    PROVE  OfToday(id)
BY DayBetween DEF OfToday, Since, DayInv, DoorsInv

\* A gift that is alive was given today, if no timezone has moved.
LEMMA GiftIsOfToday ==
    ASSUME DayInv, tzEdits = 0, gift # None, ~(gift.exp <= now)
    PROVE  OfToday(gift.id) /\ gift.id \in Ids
<1>1. PICK z \in Tzs, s \in Nat :
        /\ Since(gift.id, s) /\ gift.exp = EndOfDay(z, s)
        /\ z # clauseTz => tzEdits >= 1
  BY DEF DayInv, DoorsInv, GiftInv
<1>2. /\ z = clauseTz /\ now \in Nat /\ s <= givenAt[gift.id] /\ givenAt[gift.id] <= now
      /\ givenAt[gift.id] \in Nat /\ gift.id \in Ids
  BY <1>1 DEF Since, DayInv, DoorsInv, GiftInv
<1>3. s <= now /\ now < EndOfDay(z, s)
  <2>1. EndOfDay(z, s) \in Int
    BY DayIsNat DEF EndOfDay
  <2> QED
    BY <1>1, <1>2, <2>1
<1>4. Day(z, now) = Day(z, s)
  BY <1>2, <1>3, BeforeEnd
<1> QED
  BY <1>1, <1>2, <1>4, SinceIsOfToday

\* The inbox: every ask in it is credited.
LEMMA DrainedSteady ==
    ASSUME DayInv, Prompt, NEW l, Steady(l)
    PROVE  /\ Steady(Drained(l))
           /\ \A j \in 1..Len(inbox) : Drained(l).credits[inbox[j].id] >= 1
<1> DEFINE Good(a, i) == Steady(a) /\ \A j \in 1..i : a.credits[inbox[j].id] >= 1
           R == [i \in 0..Len(inbox) |-> {a \in Ledger : Good(a, i)}]
<1>1. Len(inbox) \in Nat /\ DOMAIN inbox = 1..Len(inbox)
  BY DEF DayInv, DoorsInv
<1>2. \A i \in 0..Len(inbox) : R[i] = {a \in Ledger : Good(a, i)}
  OBVIOUS
<1>3. l \in R[0]
  BY <1>1, <1>2 DEF Steady, Single, Sound
<1>4. ASSUME NEW i \in 1..Len(inbox), NEW a \in Ledger, Good(a, i - 1)
      PROVE  LET c == Credit(a, inbox[i].at, inbox[i].id, inbox[i].pool)
             IN  Good(c, i) /\ c \in Ledger
  <2> DEFINE p == inbox[i]
             c == Credit(a, p.at, p.id, p.pool)
  <2>1. /\ p.id \in Ids /\ p.at \in Nat /\ p.pool \in Pools /\ Since(p.id, p.at)
        /\ Day(clauseTz, p.at) = Day(clauseTz, now)
    <3>1. inbox[i] \in Enacted
      BY <1>1 DEF DayInv, DoorsInv
    <3>2. i \in DOMAIN inbox
      BY <1>1
    <3>3. Day(clauseTz, inbox[i].at) = Day(clauseTz, now)
      BY <3>2 DEF Prompt
    <3> QED
      BY <3>1, <3>3 DEF Enacted
  <2>2. \A j \in 1..Len(inbox) : inbox[j].id \in Ids
    BY DEF DayInv, DoorsInv, Enacted
  <2>3. Steady(a) /\ Sound(a) /\ a.credits \in [Ids -> Nat]
    BY <1>4 DEF Steady, Single, Sound, Ledger
  <2> HIDE DEF p
  <2>4. OfToday(p.id)
    BY <2>1, SinceIsOfToday
  <2>5. Took(a, c, p.at, p.id)
    BY <2>1, <2>3, CreditTook
  <2> HIDE DEF c
  <2>6. Steady(c) /\ Grew(a, c) /\ c.credits[p.id] >= 1
    BY <2>1, <2>3, <2>4, <2>5, TookSteady
  <2>7. c.credits \in [Ids -> Nat] /\ c \in Ledger
    BY <2>6 DEF Steady, Single, Sound, Ledger
  <2>8. ASSUME NEW j \in 1..i PROVE c.credits[inbox[j].id] >= 1
    <3>1. CASE j = i
      BY <2>6, <3>1 DEF p
    <3>2. CASE j # i
      <4>1. j \in 1..(i - 1) /\ inbox[j].id \in Ids
        BY <1>1, <2>2, <3>2
      <4>2. a.credits[inbox[j].id] >= 1 /\ a.credits[inbox[j].id] <= c.credits[inbox[j].id]
        BY <1>4, <2>6, <4>1 DEF Grew
      <4> QED
        BY <2>3, <2>7, <4>1, <4>2
    <3> QED
      BY <3>1, <3>2
  <2> QED
    BY <2>6, <2>7, <2>8 DEF c, p
<1> HIDE DEF R, Good
<1>5. \A i \in 1..Len(inbox) : i - 1 \in 0..Len(inbox) /\ i \in 0..Len(inbox)
  BY <1>1
<1>6. \A i \in 1..Len(inbox) : \A a \in R[i - 1] :
        Credit(a, inbox[i].at, inbox[i].id, inbox[i].pool) \in R[i]
  BY <1>2, <1>4, <1>5
<1>7. Drained(l) \in R[Len(inbox)]
  BY <1>1, <1>3, <1>6, DrainedIn
<1>8. Good(Drained(l), Len(inbox))
  BY <1>1, <1>2, <1>7
<1> QED
  BY <1>8 DEF Good

LEMMA GrewOn ==
    ASSUME NEW l, NEW c, NEW d, Sound(l), Sound(c), Sound(d), Grew(l, c), Grew(c, d)
    PROVE  Grew(l, d)
<1>1. l.credits \in [Ids -> Nat] /\ c.credits \in [Ids -> Nat] /\ d.credits \in [Ids -> Nat]
  BY DEF Sound, Ledger
<1>2. ASSUME NEW id \in Ids PROVE l.credits[id] <= d.credits[id]
  BY <1>1 DEF Grew
<1> QED
  BY <1>2 DEF Grew

LEMMA GrewSelf ==
    ASSUME NEW l, Sound(l)
    PROVE  Grew(l, l)
BY DEF Grew, Sound, Ledger

LEMMA GiftedSteady ==
    ASSUME DayInv, Prompt, NEW l, Steady(l), NEW pool \in Pools
    PROVE  Steady(Gifted(l, pool)) /\ Grew(l, Gifted(l, pool))
<1>1. Sound(l) /\ now \in Nat
  BY DEF Steady, Single, DayInv, DoorsInv
<1>2. CASE gift = None \/ gift.exp <= now
  BY <1>1, <1>2, GrewSelf DEF Gifted
<1>3. CASE gift # None /\ ~(gift.exp <= now)
  <2>1. OfToday(gift.id) /\ gift.id \in Ids
    BY <1>3, GiftIsOfToday DEF Prompt
  <2>2. Took(l, Credit(l, now, gift.id, pool), now, gift.id)
    BY <1>1, <2>1, CreditTook
  <2>3. /\ Steady(Credit(l, now, gift.id, pool))
        /\ Grew(l, Credit(l, now, gift.id, pool))
    BY <1>1, <2>1, <2>2, TookSteady
  <2> QED
    BY <1>3, <2>3 DEF Gifted
<1> QED
  BY <1>2, <1>3

LEMMA AdjustedBySteady ==
    ASSUME DayInv, NEW l, Steady(l), NEW dims \in [Gives \union Takes -> Dims],
           NEW e \in Entries
    PROVE  Steady(AdjustedBy(l, e, dims)) /\ Grew(l, AdjustedBy(l, e, dims))
<1>1. /\ e.id \in Gives \union Takes /\ e.at \in Nat /\ Since(e.id, e.at)
      /\ dims[e.id] \in Dims /\ e.id \in Ids /\ dims[e.id] \in Pools
  BY DEF Pools, Entries
<1>2. Sound(l) /\ now \in Nat /\ l.tz = clauseTz
  BY DEF Steady, Single, DayInv, DoorsInv
<1>3. CASE ~SameDay(l, e.at, now)
  BY <1>2, <1>3, GrewSelf DEF AdjustedBy
<1>4. CASE SameDay(l, e.at, now)
  <2>1. OfToday(e.id)
    BY <1>1, <1>2, <1>4, SinceIsOfToday DEF SameDay
  <2>2. /\ Took(l, Credit(l, now, e.id, dims[e.id]), now, e.id)
        /\ Took(l, Deduct(l, now, e.id, dims[e.id]), now, e.id)
    BY <1>1, <1>2, CreditTook, DeductTook
  <2>3. /\ Steady(Credit(l, now, e.id, dims[e.id])) /\ Grew(l, Credit(l, now, e.id, dims[e.id]))
        /\ Steady(Deduct(l, now, e.id, dims[e.id])) /\ Grew(l, Deduct(l, now, e.id, dims[e.id]))
    BY <1>1, <1>2, <2>1, <2>2, TookSteady
  <2> QED
    BY <1>4, <2>3 DEF AdjustedBy
<1> QED
  BY <1>3, <1>4

LEMMA AdjustedSteady ==
    ASSUME DayInv, NEW l, Steady(l), NEW dims \in [Gives \union Takes -> Dims]
    PROVE  Steady(Adjusted(l, dims)) /\ Grew(l, Adjusted(l, dims))
<1> DEFINE S == {a \in Ledger : Steady(a) /\ Grew(l, a)}
<1>1. Sound(l) /\ Len(adjust) \in Nat /\ l \in S
  BY GrewSelf DEF DayInv, DoorsInv, Steady, Single, Sound
<1>2. ASSUME NEW i \in 1..Len(adjust), NEW a \in S
      PROVE  AdjustedBy(a, adjust[i], dims) \in S
  <2>1. adjust[i] \in Entries
    BY DEF DayInv, DoorsInv
  <2>2. PICK c : c = AdjustedBy(a, adjust[i], dims)
    OBVIOUS
  <2>3. Steady(c) /\ Grew(a, c)
    BY <2>1, <2>2, AdjustedBySteady
  <2>4. Sound(a) /\ Sound(c) /\ c \in Ledger
    BY <2>3 DEF Steady, Single, Sound
  <2>5. Grew(l, c)
    BY <1>1, <2>3, <2>4, GrewOn
  <2> QED
    BY <2>2, <2>3, <2>4, <2>5
<1> HIDE DEF S
<1>3. Adjusted(l, dims) \in S
  BY <1>1, <1>2, AdjustedIn
<1> QED
  BY <1>3 DEF S

\* Every door, in the order of the iteration.
LEMMA TakenSteady ==
    ASSUME DayInv, Prompt, NEW l, Steady(l), NEW bound \in BOOLEAN, NEW pool \in Pools,
           NEW dims \in [Gives \union Takes -> Dims]
    PROVE  /\ Steady(Taken(l, bound, pool, dims))
           /\ bound => \A j \in 1..Len(inbox) :
                         Taken(l, bound, pool, dims).credits[inbox[j].id] >= 1
<1>1. PICK d : d = IF bound THEN Drained(l) ELSE l
  OBVIOUS
<1>2. PICK g : g = IF bound THEN Gifted(d, pool) ELSE d
  OBVIOUS
<1>3. PICK t : t = Adjusted(g, dims)
  OBVIOUS
<1>4. Taken(l, bound, pool, dims) = t
  BY <1>1, <1>2, <1>3 DEF Taken
<1>5. Steady(d) /\ (bound => \A j \in 1..Len(inbox) : d.credits[inbox[j].id] >= 1)
  BY <1>1, DrainedSteady
<1>6. Sound(d)
  BY <1>5 DEF Steady, Single
<1>7. Steady(g) /\ Grew(d, g)
  BY <1>2, <1>5, <1>6, GiftedSteady, GrewSelf
<1>8. Steady(t) /\ Grew(g, t)
  BY <1>3, <1>7, AdjustedSteady
<1>9. Sound(g) /\ Sound(t)
  BY <1>7, <1>8 DEF Steady, Single
<1>10. Grew(d, t)
  BY <1>6, <1>7, <1>8, <1>9, GrewOn
<1>11. d.credits \in [Ids -> Nat] /\ t.credits \in [Ids -> Nat]
  BY <1>6, <1>9 DEF Sound, Ledger
<1>12. ASSUME bound, NEW j \in 1..Len(inbox) PROVE t.credits[inbox[j].id] >= 1
  <2>1. inbox[j].id \in Ids
    BY DEF DayInv, DoorsInv, Enacted
  <2>2. d.credits[inbox[j].id] >= 1 /\ d.credits[inbox[j].id] <= t.credits[inbox[j].id]
    BY <1>5, <1>10, <1>12, <2>1 DEF Grew
  <2> QED
    BY <1>11, <2>1, <2>2
<1> QED
  BY <1>4, <1>8, <1>12

LEMMA TickedSteady ==
    ASSUME DayInv, NEW l, Steady(l), NEW burning \in SUBSET Burnable, NEW elapsed \in Nat
    PROVE  Steady(Ticked(l, burning, elapsed)) /\ Grew(l, Ticked(l, burning, elapsed))
<1>1. now \in Nat /\ Sound(l) /\ Reconciled(l, clauseTz, now) = l
  BY DEF DayInv, DoorsInv, Steady, Single, Reconciled
<1>2. PICK s : s = IF elapsed > 0 /\ "schedule" \in burning
                   THEN Burned(l, now, "schedule", elapsed) ELSE l
  OBVIOUS
<1>3. Steady(s) /\ Grew(l, s)
  <2>1. Moved(l, Burned(l, now, "schedule", elapsed), now)
    BY <1>1, BurnedMoved DEF Burnable
  <2> QED
    BY <1>1, <1>2, <2>1, MovedSteady, GrewSelf
<1>4. Sound(s)
  BY <1>3 DEF Steady, Single
<1>5. PICK b : b = IF "time" \in burning THEN Burned(s, now, "time", elapsed) ELSE s
  OBVIOUS
<1>6. Steady(b) /\ Grew(s, b)
  <2>1. Moved(s, Burned(s, now, "time", elapsed), now)
    BY <1>1, <1>4, BurnedMoved DEF Burnable
  <2> QED
    BY <1>3, <1>4, <1>5, <2>1, MovedSteady, GrewSelf
<1>7. Sound(b)
  BY <1>6 DEF Steady, Single
<1>8. Ticked(l, burning, elapsed) = b
  BY <1>1, <1>2, <1>5 DEF Ticked
<1> QED
  BY <1>1, <1>3, <1>4, <1>6, <1>7, <1>8, GrewOn

LEMMA SyncedSteady ==
    ASSUME DayInv, Prompt, OnceInv
    PROVE  Steady(Synced(TRUE))
<1>1. CASE led # None
  BY <1>1 DEF Synced, OnceInv, Prompt, DayInv, FreshInv, Fresh, DoorsInv, Steady
<1>2. CASE led = None /\ disk # None
  BY <1>2 DEF Synced, Restored, OnceInv, Prompt, DayInv, FreshInv, Fresh, DoorsInv, Steady, Follows, Sound, Ledger
<1>3. CASE led = None /\ disk = None
  <2>1. PICK n : n = NewLedger(clauseTz, now)
    OBVIOUS
  <2>2. /\ Sound(n) /\ n.tz = clauseTz /\ n.day = Day(clauseTz, now) /\ n.applied = {}
        /\ n.credits = [i \in Ids |-> 0] /\ n.day \in Nat
    <3>1. clauseTz \in Tzs /\ now \in Nat
      BY DEF DayInv, DoorsInv
    <3>2. Day(clauseTz, now) \in Nat
      BY <3>1, DayIsNat
    <3> QED
      BY <2>1, <3>1, <3>2, NewLedgerFacts
  <2>3. Single(n)
    BY <2>2 DEF Single
  <2>4. Synced(TRUE) = n
    BY <1>3, <2>1 DEF Synced, Restored
  <2> QED
    BY <1>3, <2>2, <2>3, <2>4 DEF Steady, Follows
<1> QED
  BY <1>1, <1>2, <1>3

\* The child who is bound is tracked.
BoundIsTracked == \A setup \in Setups : setup[1] => setup[2]

\* An ask leaves the inbox into the ledger.
Delivers ==
    up' /\ inbox # <<>> /\ inbox' = <<>> =>
        led' # None /\ \A i \in DOMAIN inbox : led'.credits[inbox[i].id] >= 1

LEMMA IterationOnce ==
    ASSUME DayInv, Prompt, OnceInv, Iteration
    PROVE  OnceInv' /\ (BoundIsTracked => Delivers)
<1>1. PICK bound \in BOOLEAN, tracked \in BOOLEAN, pool \in Pools,
           dims \in [Gives \union Takes -> Dims], burning \in SUBSET Burnable,
           elapsed \in Nat, saved \in BOOLEAN :
        Finds(bound, tracked, pool, dims, burning, elapsed, saved)
  BY IterationIs DEF DayInv
<1>2. PICK s : s = Synced(TRUE)
  OBVIOUS
<1>3. PICK k : k = Taken(s, bound, pool, dims)
  OBVIOUS
<1>4. PICK t : t = Ticked(k, burning, elapsed)
  OBVIOUS
<1>5. Steady(s)
  BY <1>2, SyncedSteady
<1>6. Steady(k) /\ (bound => \A j \in 1..Len(inbox) : k.credits[inbox[j].id] >= 1)
  BY <1>3, <1>5, TakenSteady
<1>7. Steady(t) /\ Grew(k, t)
  BY <1>4, <1>6, TickedSteady
<1>8. /\ led' = IF tracked THEN t ELSE None
      /\ disk' = t \/ disk' = disk
      /\ inbox' = IF bound THEN <<>> ELSE inbox
      /\ UNCHANGED <<now, givenAt, consumed>>
      /\ <<bound, tracked>> \in Setups
  <2>1. /\ led' = IF tracked THEN t ELSE None
        /\ disk' = IF (SaveDue /\ tracked) /\ saved
                   THEN (IF tracked THEN t ELSE None) ELSE disk
        /\ inbox' = IF bound THEN <<>> ELSE inbox
        /\ UNCHANGED <<now, givenAt, consumed>>
        /\ <<bound, tracked>> \in Setups
    BY <1>1, <1>2, <1>3, <1>4 DEF Finds, Iterate, broker
  <2> QED
    BY <2>1
<1>9. t \in Ledger /\ t # None
  BY <1>7, NoneAssumption DEF Steady, Single, Sound
<1>10. OnceInv'
  <2>1. PICK d : d = disk
    OBVIOUS
  <2>2. Single(t)' /\ (d # None => Single(d)')
    BY <1>7, <1>8, <2>1 DEF Steady, Single, OnceInv
  <2>3. Follows(t)'
    <3>1. Follows(t) /\ t.day \in Nat
      BY <1>7, <1>9 DEF Steady, Ledger
    <3>2. CASE disk' = t
      BY <3>1, <3>2 DEF Follows
    <3>3. CASE disk' = disk
      BY <3>1, <3>3 DEF Follows
    <3> QED
      BY <1>8, <3>2, <3>3
  <2>4. (disk # None => Single(disk))'
    BY <1>8, <2>1, <2>2 DEF Single
  <2>5. (led # None => Single(led) /\ Follows(led))'
    BY <1>8, <2>2, <2>3 DEF Single, Follows
  <2>6. (\A id \in Asks : givenAt[id] # None => id \in consumed)'
    BY <1>8 DEF OnceInv
  <2> QED
    BY <2>4, <2>5, <2>6 DEF OnceInv
<1>11. ASSUME BoundIsTracked, inbox # <<>>, inbox' = <<>>
       PROVE  led' # None /\ \A i \in DOMAIN inbox : led'.credits[inbox[i].id] >= 1
  <2>1. bound
    BY <1>8, <1>11
  <2>2. tracked
    <3>1. <<bound, tracked>>[1] => <<bound, tracked>>[2]
      BY <1>8, <1>11 DEF BoundIsTracked
    <3> QED
      BY <2>1, <3>1
  <2>3. k.credits \in [Ids -> Nat] /\ t.credits \in [Ids -> Nat]
    BY <1>6, <1>7 DEF Steady, Single, Sound, Ledger
  <2>4. DOMAIN inbox = 1..Len(inbox) /\ \A j \in 1..Len(inbox) : inbox[j].id \in Ids
    BY DEF DayInv, DoorsInv, Enacted
  <2>5. ASSUME NEW j \in 1..Len(inbox) PROVE t.credits[inbox[j].id] >= 1
    <3>1. k.credits[inbox[j].id] >= 1 /\ k.credits[inbox[j].id] <= t.credits[inbox[j].id]
      BY <1>6, <1>7, <2>1, <2>4 DEF Grew
    <3> QED
      BY <2>3, <2>4, <3>1
  <2> QED
    BY <1>8, <1>9, <2>2, <2>4, <2>5
<1> QED
  BY <1>10, <1>11 DEF Delivers

\* What is given now was not given before.
GivenOnce ==
    \/ givenAt' = givenAt
    \/ \E id \in Ids : /\ givenAt[id] = None
                       /\ id \in Asks => id \in consumed'
                       /\ givenAt' = [givenAt EXCEPT ![id] = now]

LEMMA OnceStays ==
    ASSUME DayInv, OnceInv, GivenOnce, now' \in {now, now + 1}, consumed \subseteq consumed',
           led' \in {led, None}, disk' = disk
    PROVE  OnceInv'
<1>1. now \in Nat /\ now' \in Nat /\ now <= now' /\ givenAt \in [Ids -> Nat \union {None}]
  BY DEF DayInv, DoorsInv
<1>2. \A id \in Ids : givenAt[id] \in Nat => givenAt'[id] = givenAt[id]
  BY <1>1, NoneAssumption DEF GivenOnce
<1>3. ASSUME NEW l, Single(l) PROVE Single(l)'
  <2>1. l.tz \in Tzs /\ l.day \in Nat
    BY <1>3 DEF Single, Sound, Ledger
  <2>2. Day(l.tz, now) <= Day(l.tz, now') /\ Day(l.tz, now) \in Nat /\ Day(l.tz, now') \in Nat
    BY <1>1, <2>1, DayOrder, DayIsNat
  <2>3. l.day <= Day(l.tz, now')
    BY <1>3, <2>1, <2>2 DEF Single
  <2>4. ASSUME NEW id \in Ids, l.credits[id] >= 1
        PROVE  /\ givenAt'[id] \in Nat
               /\ Day(l.tz, givenAt'[id]) <= l.day
               /\ id \in l.applied \/ Day(l.tz, givenAt'[id]) < l.day
    BY <1>2, <1>3, <2>4 DEF Single
  <2> QED
    BY <1>3, <2>3, <2>4 DEF Single
<1>4. PICK l, d : l = led /\ d = disk
  OBVIOUS
<1>5. (l # None => Single(l)') /\ (d # None => Single(d)')
  BY <1>3, <1>4 DEF OnceInv
<1>6. (disk # None => Single(disk))'
  BY <1>4, <1>5 DEF Single
<1>7. (led # None => Single(led) /\ Follows(led))'
  BY <1>4, <1>5 DEF Single, Follows, OnceInv
<1>8. (\A id \in Asks : givenAt[id] # None => id \in consumed)'
  <2>1. ASSUME NEW id \in Asks, givenAt'[id] # None PROVE id \in consumed'
    <3>1. CASE givenAt' = givenAt
      BY <2>1, <3>1 DEF OnceInv
    <3>2. CASE givenAt' # givenAt
      <4>1. PICK i \in Ids : /\ i \in Asks => i \in consumed'
                             /\ givenAt' = [givenAt EXCEPT ![i] = now]
        BY <3>2 DEF GivenOnce
      <4>2. CASE i = id
        BY <4>1, <4>2
      <4>3. CASE i # id
        BY <1>1, <2>1, <4>1, <4>3 DEF OnceInv
      <4> QED
        BY <4>2, <4>3
    <3> QED
      BY <3>1, <3>2
  <2> QED
    BY <2>1
<1> QED
  BY <1>6, <1>7, <1>8 DEF OnceInv

LEMMA OnceStep == DayInv /\ Prompt /\ OnceInv /\ [Next]_vars =>
                      OnceInv' /\ (BoundIsTracked => Delivers \/ UNCHANGED vars)
<1> SUFFICES ASSUME DayInv, Prompt, OnceInv, [Next]_vars
             PROVE  OnceInv' /\ (BoundIsTracked => Delivers \/ UNCHANGED vars)
  OBVIOUS
<1>1. CASE Advance
  <2>1. UNCHANGED <<givenAt, led, disk, consumed, inbox>> /\ now' = now + 1
    BY <1>1 DEF Advance, broker, loop
  <2> QED
    BY <2>1, OnceStays DEF GivenOnce, Delivers
<1>2. ASSUME NEW tz \in Tzs, EditTz(tz)
      PROVE  OnceInv' /\ Delivers
  <2>1. UNCHANGED <<now, givenAt, led, disk, consumed, inbox>>
    BY <1>2 DEF EditTz, broker, loop
  <2> QED
    BY <2>1, OnceStays DEF GivenOnce, Delivers
<1>3. ASSUME NEW id \in Asks, GrantBegin(id)
      PROVE  OnceInv' /\ Delivers
  <2>1. /\ UNCHANGED <<now, led, disk, inbox>> /\ id \notin consumed
        /\ consumed' = consumed \union {id} /\ givenAt' = [givenAt EXCEPT ![id] = now]
    BY <1>3 DEF GrantBegin, loop
  <2>2. GivenOnce
    BY <2>1, IdsAssumption DEF GivenOnce, OnceInv
  <2> QED
    BY <2>1, <2>2, OnceStays DEF Delivers
<1>4. ASSUME NEW pool \in Routes, GrantEnact(pool)
      PROVE  OnceInv' /\ Delivers
  <2>1. /\ UNCHANGED <<now, givenAt, led, disk, consumed>>
        /\ inbox' = Append(inbox, [id |-> asking.id, at |-> asking.at, pool |-> pool])
    BY <1>4 DEF GrantEnact, loop
  <2>2. inbox' # <<>>
    BY <2>1 DEF DayInv, DoorsInv
  <2> QED
    BY <2>1, <2>2, OnceStays DEF GivenOnce, Delivers
<1>5. ASSUME NEW id \in Gifts, GuardianGives(id)
      PROVE  OnceInv' /\ Delivers
  <2>1. /\ UNCHANGED <<now, led, disk, consumed, inbox>>
        /\ givenAt[id] = None /\ givenAt' = [givenAt EXCEPT ![id] = now]
    BY <1>5 DEF GuardianGives, broker, loop
  <2>2. GivenOnce
    BY <2>1, IdsAssumption, AsksAssumption DEF GivenOnce
  <2> QED
    BY <2>1, <2>2, OnceStays DEF Delivers
<1>6. ASSUME NEW id \in Gives \union Takes, AdminAdjusts(id)
      PROVE  OnceInv' /\ Delivers
  <2>1. /\ UNCHANGED <<now, led, disk, consumed, inbox>>
        /\ givenAt[id] = None /\ givenAt' = [givenAt EXCEPT ![id] = now]
    BY <1>6 DEF AdminAdjusts, broker, loop
  <2>2. GivenOnce
    BY <2>1, IdsAssumption, AsksAssumption DEF GivenOnce
  <2> QED
    BY <2>1, <2>2, OnceStays DEF Delivers
<1>7. CASE Iteration
  BY <1>7, IterationOnce
<1>8. CASE Skip \/ Boot
  <2>1. UNCHANGED <<now, givenAt, led, disk, consumed, inbox>>
    BY <1>8 DEF Skip, Boot, broker, loop
  <2> QED
    BY <2>1, OnceStays DEF GivenOnce, Delivers
<1>9. CASE Crash
  <2>1. UNCHANGED <<now, givenAt, disk, consumed>> /\ led' = None /\ up' = FALSE
    BY <1>9 DEF Crash
  <2> QED
    BY <2>1, OnceStays DEF GivenOnce, Delivers
<1>10. CASE UNCHANGED vars
  <2>1. UNCHANGED <<now, givenAt, led, disk, consumed>>
    BY <1>10 DEF vars, broker, loop
  <2> QED
    BY <1>10, <2>1, OnceStays DEF GivenOnce
<1> QED
  BY <1>1, <1>2, <1>3, <1>4, <1>5, <1>6, <1>7, <1>8, <1>9, <1>10 DEF Next

LEMMA OnceInit == Init => OnceInv
BY IdsAssumption DEF Init, OnceInv

\* Minutes given once are applied once, however often the loop re-reads the gift
\* and the adjustment file, over midnights, restarts and evictions, as long as no
\* ask is drained on another day than its handler began on and no timezone moves
\* (runtime.rs, the credits of one iteration; ExtensionLedger.credit_drained).
THEOREM OnceGivenOnceCredited == Spec /\ []Prompt => []CreditedOnce
<1>1. OnceInv => CreditedOnce
  BY DEF OnceInv, Single, CreditedOnce
<1> QED
  BY <1>1, OnceInit, OnceStep, DayInit, DayStep, PTL DEF Spec

\* Under the same premise, if a child who is bound is tracked, every ask that
\* leaves the inbox is in the child's ledger, and what a restart or a rebuilt
\* child restores today is all that was saved today (runtime.rs, the drain and
\* restore_extension).
THEOREM GrantsStay ==
    ASSUME BoundIsTracked
    PROVE  Spec /\ []Prompt => GrantsAreKept
<1>1. OnceInv => SavedGrantStands
  BY DEF OnceInv, Follows, SavedGrantStands
<1>2. DayInv /\ Prompt /\ OnceInv /\ [Next]_vars => [Delivers]_vars
  BY OnceStep
<1> QED
  BY <1>1, <1>2, OnceInit, OnceStep, DayInit, DayStep, PTL
     DEF Spec, GrantsAreKept, DrainedIsCredited, Delivers

--------------------------------------------------------------------------------
(* Spent within what was given.  A ledger's lineage may hold, and have spent, *)
(* no more than the ids it was credited with are worth; each of those counts  *)
(* once, since none is credited twice.  What the saved ledger does not show   *)
(* of the spending is what a crash or an eviction forgets.                    *)

\* What the ids of a set are worth.
Worth(S) == Total(Amount, S)

LEMMA WorthFacts ==
    ASSUME NEW S \in SUBSET Ids, IsFiniteSet(S)
    PROVE  /\ Worth(S) \in Nat
           /\ S = {} => Worth(S) = 0
           /\ \A T \in SUBSET S : Worth(T) <= Worth(S)
           /\ \A y \in Ids : y \notin S => Worth(S \union {y}) = Worth(S) + Amount[y]
<1>1. \A x \in Ids : Amount[x] \in Nat
  OBVIOUS
<1> QED
  BY <1>1, SumFacts DEF Worth

\* What is left in the pools a window burns.
Left(l) == (l.secs["schedule"] - l.spent["schedule"]) + (l.secs["time"] - l.spent["time"])

LEMMA LeftIsNat ==
    ASSUME NEW l, Sound(l)
    PROVE  Left(l) \in Nat
<1>1. /\ l.secs["schedule"] \in Nat /\ l.spent["schedule"] \in Nat
      /\ l.secs["time"] \in Nat /\ l.spent["time"] \in Nat
      /\ l.spent["schedule"] <= l.secs["schedule"] /\ l.spent["time"] <= l.secs["time"]
  BY DEF Sound, Ledger, Pools, Dims, Burnable
<1> QED
  BY <1>1 DEF Left

\* A day that is over leaves nothing; rolling adds nothing.
LEMMA RolledLeft ==
    ASSUME NEW l, Sound(l), NEW t \in Nat
    PROVE  Left(Rolled(l, t)) \in Nat /\ Left(Rolled(l, t)) <= Left(l)
<1>1. Left(l) \in Nat
  BY LeftIsNat
<1>2. CASE Rolled(l, t) = l
  BY <1>1, <1>2
<1>3. CASE Rolled(l, t) = EmptyDay(l.tz, Day(l.tz, t), l.credits)
  <2>1. Left(Rolled(l, t)) = 0
    BY <1>3 DEF Left, EmptyDay, Pools, Dims, Burnable
  <2> QED
    BY <1>1, <2>1
<1> QED
  BY <1>2, <1>3 DEF Rolled

\* What the burning took, pool by pool.
LEMMA EnjoyedIs ==
    ASSUME NEW from, NEW to, Sound(from), Sound(to), from.day = to.day
    PROVE  Enjoyed(from, to) = (to.spent["schedule"] - from.spent["schedule"])
                                 + (to.spent["time"] - from.spent["time"])
<1> DEFINE d(p) == to.spent[p] - from.spent[p]
           Is(h) == h = [s \in SUBSET Burnable |->
                          IF s = {} THEN 0
                          ELSE to.spent[CHOOSE x \in s : TRUE] - from.spent[CHOOSE x \in s : TRUE]
                                 + h[s \ {CHOOSE x \in s : TRUE}]]
           sum == CHOOSE h : Is(h)
           both == [s \in SUBSET Burnable |->
                     (IF "schedule" \in s THEN d("schedule") ELSE 0)
                       + (IF "time" \in s THEN d("time") ELSE 0)]
<1>1. Enjoyed(from, to) = sum[Burnable]
  BY DEF Enjoyed, MapThenSumSet, MapThenFoldSet
<1>2. d("schedule") \in Int /\ d("time") \in Int
  BY DEF Sound, Ledger, Burnable
<1> HIDE DEF d
<1>3. ASSUME NEW s \in SUBSET Burnable, s # {}, NEW x \in s
      PROVE  both[s] = d(x) + both[s \ {x}]
  <2>1. /\ both[s] = (IF "schedule" \in s THEN d("schedule") ELSE 0)
                       + (IF "time" \in s THEN d("time") ELSE 0)
        /\ both[s \ {x}] = (IF "schedule" \in s \ {x} THEN d("schedule") ELSE 0)
                             + (IF "time" \in s \ {x} THEN d("time") ELSE 0)
    OBVIOUS
  <2>2. x = "schedule" \/ x = "time"
    BY DEF Burnable
  <2> HIDE DEF both
  <2> QED
    BY <1>2, <2>1, <2>2
<1>4. both[{}] = 0
  OBVIOUS
<1>5. Is(both)
  <2>1. ASSUME NEW s \in SUBSET Burnable
        PROVE  both[s] = IF s = {} THEN 0
                         ELSE to.spent[CHOOSE x \in s : TRUE] - from.spent[CHOOSE x \in s : TRUE]
                                + both[s \ {CHOOSE x \in s : TRUE}]
    <3>1. CASE s # {}
      <4>1. (CHOOSE x \in s : TRUE) \in s
        BY <3>1
      <4> HIDE DEF both
      <4> QED
        BY <1>3, <3>1, <4>1 DEF d
    <3> QED
      BY <1>4, <3>1
  <2>2. both = [s \in SUBSET Burnable |-> both[s]]
    OBVIOUS
  <2> HIDE DEF both
  <2> QED
    BY <2>1, <2>2
<1>6. Is(sum)
  <2> HIDE DEF both
  <2> QED
    BY <1>5
<1> HIDE DEF sum, both
<1>7. /\ sum[{}] = 0
      /\ \A s \in SUBSET Burnable : s # {} =>
          \E x \in s : sum[s] = d(x) + sum[s \ {x}]
  <2>1. \A s \in SUBSET Burnable :
          sum[s] = IF s = {} THEN 0
                   ELSE to.spent[CHOOSE x \in s : TRUE] - from.spent[CHOOSE x \in s : TRUE]
                          + sum[s \ {CHOOSE x \in s : TRUE}]
    BY <1>6
  <2>2. ASSUME NEW s \in SUBSET Burnable, s # {}
        PROVE  \E x \in s : sum[s] = d(x) + sum[s \ {x}]
    <3>1. (CHOOSE x \in s : TRUE) \in s
      BY <2>2
    <3> QED
      BY <2>1, <2>2, <3>1 DEF d
  <2> QED
    BY <2>1, <2>2
<1>8. sum[{"schedule"}] = d("schedule") /\ sum[{"time"}] = d("time")
  <2>1. ASSUME NEW p \in Burnable PROVE sum[{p}] = d(p)
    <3>1. sum[{p}] = d(p) + sum[{p} \ {p}] /\ {p} \ {p} = {}
      BY <1>7
    <3> QED
      BY <1>2, <1>7, <3>1 DEF Burnable
  <2> QED
    BY <2>1 DEF Burnable
<1>9. sum[Burnable] = d("schedule") + d("time")
  <2>1. PICK x \in Burnable : sum[Burnable] = d(x) + sum[Burnable \ {x}]
    BY <1>7 DEF Burnable
  <2>2. CASE x = "schedule"
    <3>1. Burnable \ {x} = {"time"}
      BY <2>2 DEF Burnable
    <3> QED
      BY <1>8, <2>1, <2>2, <3>1
  <2>3. CASE x = "time"
    <3>1. Burnable \ {x} = {"schedule"}
      BY <2>3 DEF Burnable
    <3> QED
      BY <1>2, <1>8, <2>1, <2>3, <3>1
  <2> QED
    BY <2>2, <2>3 DEF Burnable
<1> QED
  BY <1>1, <1>9 DEF d

\* The ids whose minutes are in a ledger's lineage, but for those that take back.
Credited(l) == {id \in Ids \ Takes : l.credits[id] >= 1}

\* b has been spent, and what is left is within what was credited.
Paid(l, b) == b + Left(l) <= Worth(Credited(l))

\* Only what was given is credited.
LEMMA CreditedIsGiven ==
    ASSUME NEW l, Single(l), IsFiniteSet(Given)
    PROVE  /\ Credited(l) \in SUBSET Given /\ Credited(l) \in SUBSET Ids
           /\ IsFiniteSet(Credited(l)) /\ Worth(Credited(l)) \in Nat
           /\ Worth(Credited(l)) <= Worth(Given) /\ Worth(Given) \in Nat
<1>1. Credited(l) \in SUBSET Given
  BY NoneAssumption DEF Credited, Single, Given
<1>2. Given \in SUBSET Ids
  BY DEF Given
<1>3. IsFiniteSet(Credited(l)) /\ Credited(l) \in SUBSET Ids
  BY <1>1, <1>2, FS_Subset
<1> QED
  BY <1>1, <1>2, <1>3, WorthFacts

\* Landing minutes that were given today: they are counted as they are added.
LEMMA CreditPaid ==
    ASSUME DayInv, IsFiniteSet(Given), NEW b \in Int, NEW l, Steady(l), Paid(l, b),
           NEW u \in Nat, Day(clauseTz, u) = Day(clauseTz, now),
           NEW id \in Ids \ Takes, OfToday(id), NEW pool \in Pools
    PROVE  Steady(Credit(l, u, id, pool)) /\ Paid(Credit(l, u, id, pool), b)
<1> DEFINE r == Rolled(l, u)
           c == Credit(l, u, id, pool)
<1>1. /\ Sound(l) /\ Sound(r) /\ r.applied = Kept(l, u) /\ r.credits = l.credits
      /\ Left(r) \in Nat /\ Left(r) <= Left(l) /\ Left(l) \in Nat
      /\ l.credits \in [Ids -> Nat]
  BY RolledFacts, RolledLeft, LeftIsNat DEF Steady, Single, Sound, Ledger
<1>2. Took(l, c, u, id)
  BY <1>1, CreditTook
<1>3. Steady(c)
  <2> HIDE DEF c
  <2> QED
    BY <1>2, TookSteady
<1>4. /\ Credited(l) \in SUBSET Ids /\ IsFiniteSet(Credited(l))
      /\ Worth(Credited(l)) \in Nat
  BY CreditedIsGiven DEF Steady
<1>5. CASE id \in r.applied
  <2>1. c = r
    BY <1>5 DEF Credit
  <2>2. Credited(c) = Credited(l)
    <3> HIDE DEF r, c
    <3> QED
      BY <1>1, <2>1 DEF Credited
  <2> HIDE DEF r, c
  <2> QED
    BY <1>1, <1>3, <1>4, <2>1, <2>2 DEF Paid, c
<1>6. CASE id \notin r.applied
  <2>1. c = [r EXCEPT !.applied = @ \union {id},
                      !.secs[pool] = @ + Amount[id],
                      !.floored = @ \/ pool = "budget",
                      !.credits[id] = @ + 1]
    BY <1>6 DEF Credit
  <2> HIDE DEF r, c
  <2>2. r \in Ledger /\ Amount[id] \in Nat
    BY <1>1 DEF Sound
  <2>3. Left(c) \in Int /\ Left(c) <= Left(r) + Amount[id]
    <3>1. /\ c.spent = r.spent /\ c.secs = [r.secs EXCEPT ![pool] = @ + Amount[id]]
          /\ r.secs \in [Pools -> Nat] /\ r.spent \in [Burnable -> Nat]
      BY <2>1, <2>2 DEF Ledger
    <3>2. \A p \in Pools : c.secs[p] = IF p = pool THEN r.secs[p] + Amount[id] ELSE r.secs[p]
      BY <3>1
    <3>3. /\ "schedule" \in Pools /\ "time" \in Pools
          /\ "schedule" \in Burnable /\ "time" \in Burnable
      BY DEF Pools, Dims, Burnable
    <3>4. /\ r.secs["schedule"] \in Nat /\ r.secs["time"] \in Nat
          /\ r.spent["schedule"] \in Nat /\ r.spent["time"] \in Nat
      BY <3>1, <3>3
    <3> QED
      BY <2>2, <3>1, <3>2, <3>3, <3>4 DEF Left
  <2>4. \A k \in Ids : c.credits[k] = IF k = id THEN l.credits[k] + 1 ELSE l.credits[k]
    BY <1>1, <1>2, <1>6 DEF Took
  <2>5. l.credits[id] = 0
    <3>1. c.credits[id] <= 1 /\ c.credits[id] = l.credits[id] + 1 /\ l.credits[id] \in Nat
      BY <1>1, <1>3, <2>4 DEF Steady, Single
    <3> QED
      BY <3>1
  <2>6. Credited(c) = Credited(l) \union {id} /\ id \notin Credited(l)
    BY <1>1, <2>4, <2>5 DEF Credited
  <2>7. Worth(Credited(c)) = Worth(Credited(l)) + Amount[id]
    BY <1>4, <2>6, WorthFacts
  <2>8. b + Left(l) <= Worth(Credited(l))
    BY DEF Paid
  <2> QED
    BY <1>1, <1>3, <1>4, <2>2, <2>3, <2>7, <2>8 DEF Paid, c
<1> QED
  BY <1>5, <1>6

\* Taking minutes back touches no pool a window burns.
LEMMA DeductPaid ==
    ASSUME DayInv, IsFiniteSet(Given), NEW b \in Int, NEW l, Steady(l), Paid(l, b),
           NEW u \in Nat, Day(clauseTz, u) = Day(clauseTz, now),
           NEW id \in Takes, OfToday(id), NEW dim \in Dims
    PROVE  Steady(Deduct(l, u, id, dim)) /\ Paid(Deduct(l, u, id, dim), b)
<1> DEFINE r == Rolled(l, u)
           c == Deduct(l, u, id, dim)
<1>1. /\ Sound(l) /\ Sound(r) /\ r \in Ledger /\ id \in Ids
      /\ Left(r) \in Nat /\ Left(r) <= Left(l) /\ Left(l) \in Nat
      /\ l.credits \in [Ids -> Nat]
  BY RolledFacts, RolledLeft, LeftIsNat DEF Steady, Single, Sound, Ledger
<1>2. Took(l, c, u, id)
  BY <1>1, DeductTook
<1>3. Steady(c)
  <2> HIDE DEF c
  <2> QED
    BY <1>1, <1>2, TookSteady
<1>4. Worth(Credited(l)) \in Nat
  BY CreditedIsGiven DEF Steady
<1>5. c.secs = r.secs /\ c.spent = r.spent
  <2>1. c = r \/ c = [r EXCEPT !.applied = @ \union {id},
                               !.deducted[dim] = @ + Amount[id],
                               !.credits[id] = @ + 1]
    BY DEF Deduct
  <2> HIDE DEF r, c
  <2> QED
    BY <1>1, <2>1 DEF Ledger
<1> HIDE DEF r, c
<1>6. Left(c) = Left(r)
  BY <1>5 DEF Left
<1>7. Credited(c) = Credited(l)
  BY <1>1, <1>2 DEF Credited, Took
<1> QED
  BY <1>1, <1>3, <1>4, <1>6, <1>7 DEF Paid, c

\* The inbox.
LEMMA DrainedPaid ==
    ASSUME DayInv, Prompt, IsFiniteSet(Given), NEW b \in Int, NEW l, Steady(l), Paid(l, b)
    PROVE  Steady(Drained(l)) /\ Paid(Drained(l), b)
<1> DEFINE Good(a) == Steady(a) /\ Paid(a, b)
           R == [i \in 0..Len(inbox) |-> {a \in Ledger : Good(a)}]
<1>1. Len(inbox) \in Nat /\ DOMAIN inbox = 1..Len(inbox)
  BY DEF DayInv, DoorsInv
<1>2. \A i \in 0..Len(inbox) : R[i] = {a \in Ledger : Good(a)}
  OBVIOUS
<1>3. l \in R[0]
  BY <1>1, <1>2 DEF Steady, Single, Sound
<1>4. ASSUME NEW i \in 1..Len(inbox), NEW a \in Ledger, Good(a)
      PROVE  LET c == Credit(a, inbox[i].at, inbox[i].id, inbox[i].pool)
             IN  Good(c) /\ c \in Ledger
  <2>1. PICK p : p = inbox[i]
    OBVIOUS
  <2>2. /\ p.id \in Asks /\ p.at \in Nat /\ p.pool \in Pools /\ Since(p.id, p.at)
        /\ Day(clauseTz, p.at) = Day(clauseTz, now)
    <3>1. inbox[i] \in Enacted
      BY <1>1 DEF DayInv, DoorsInv
    <3>2. i \in DOMAIN inbox
      BY <1>1
    <3>3. Day(clauseTz, inbox[i].at) = Day(clauseTz, now)
      BY <3>2 DEF Prompt
    <3> QED
      BY <2>1, <3>1, <3>3 DEF Enacted
  <2>3. p.id \in Ids \ Takes
    BY <2>2, AsksAssumption
  <2>4. OfToday(p.id)
    BY <2>2, <2>3, SinceIsOfToday
  <2>5. PICK c : c = Credit(a, p.at, p.id, p.pool)
    OBVIOUS
  <2>6. Steady(c) /\ Paid(c, b)
    BY <1>4, <2>2, <2>3, <2>4, <2>5, CreditPaid
  <2>7. c \in Ledger
    BY <2>6 DEF Steady, Single, Sound
  <2> QED
    BY <2>1, <2>5, <2>6, <2>7
<1> HIDE DEF R, Good
<1>5. \A i \in 1..Len(inbox) : i - 1 \in 0..Len(inbox) /\ i \in 0..Len(inbox)
  BY <1>1
<1>6. \A i \in 1..Len(inbox) : \A a \in R[i - 1] :
        Credit(a, inbox[i].at, inbox[i].id, inbox[i].pool) \in R[i]
  BY <1>2, <1>4, <1>5
<1>7. Drained(l) \in R[Len(inbox)]
  BY <1>1, <1>3, <1>6, DrainedIn
<1> QED
  BY <1>1, <1>2, <1>7 DEF Good

\* The gift.
LEMMA GiftedPaid ==
    ASSUME DayInv, Prompt, IsFiniteSet(Given), NEW b \in Int, NEW l, Steady(l), Paid(l, b),
           NEW pool \in Pools
    PROVE  Steady(Gifted(l, pool)) /\ Paid(Gifted(l, pool), b)
<1>1. CASE gift = None \/ gift.exp <= now
  BY <1>1 DEF Gifted
<1>2. CASE gift # None /\ ~(gift.exp <= now)
  <2>1. OfToday(gift.id) /\ gift.id \in Ids \ Takes /\ now \in Nat
    BY <1>2, GiftIsOfToday, GiftsAssumption DEF Prompt, DayInv, DoorsInv, GiftInv
  <2>2. Steady(Credit(l, now, gift.id, pool)) /\ Paid(Credit(l, now, gift.id, pool), b)
    BY <2>1, CreditPaid
  <2> QED
    BY <1>2, <2>2 DEF Gifted
<1> QED
  BY <1>1, <1>2

\* The adjustment file.
LEMMA AdjustedByPaid ==
    ASSUME DayInv, IsFiniteSet(Given), NEW b \in Int, NEW l, Steady(l), Paid(l, b),
           NEW dims \in [Gives \union Takes -> Dims], NEW e \in Entries
    PROVE  Steady(AdjustedBy(l, e, dims)) /\ Paid(AdjustedBy(l, e, dims), b)
<1>1. /\ e.id \in Gives \union Takes /\ e.at \in Nat /\ Since(e.id, e.at)
      /\ dims[e.id] \in Dims /\ e.id \in Ids /\ dims[e.id] \in Pools
  BY DEF Pools, Entries
<1>2. now \in Nat /\ l.tz = clauseTz
  BY DEF Steady, DayInv, DoorsInv
<1>3. CASE ~SameDay(l, e.at, now)
  BY <1>3 DEF AdjustedBy
<1>4. CASE SameDay(l, e.at, now)
  <2>1. OfToday(e.id)
    BY <1>1, <1>2, <1>4, SinceIsOfToday DEF SameDay
  <2>2. CASE e.id \in Takes
    <3>1. Steady(Deduct(l, now, e.id, dims[e.id])) /\ Paid(Deduct(l, now, e.id, dims[e.id]), b)
      BY <1>1, <1>2, <2>1, <2>2, DeductPaid
    <3> QED
      BY <1>4, <2>2, <3>1 DEF AdjustedBy
  <2>3. CASE e.id \notin Takes
    <3>1. Steady(Credit(l, now, e.id, dims[e.id])) /\ Paid(Credit(l, now, e.id, dims[e.id]), b)
      BY <1>1, <1>2, <2>1, <2>3, CreditPaid
    <3> QED
      BY <1>4, <2>3, <3>1 DEF AdjustedBy
  <2> QED
    BY <2>2, <2>3
<1> QED
  BY <1>3, <1>4

LEMMA AdjustedPaid ==
    ASSUME DayInv, IsFiniteSet(Given), NEW b \in Int, NEW l, Steady(l), Paid(l, b),
           NEW dims \in [Gives \union Takes -> Dims]
    PROVE  Steady(Adjusted(l, dims)) /\ Paid(Adjusted(l, dims), b)
<1> DEFINE S == {a \in Ledger : Steady(a) /\ Paid(a, b)}
<1>1. Len(adjust) \in Nat /\ l \in S
  BY DEF DayInv, DoorsInv, Steady, Single, Sound
<1>2. ASSUME NEW i \in 1..Len(adjust), NEW a \in S
      PROVE  AdjustedBy(a, adjust[i], dims) \in S
  <2>1. adjust[i] \in Entries
    BY DEF DayInv, DoorsInv
  <2>2. PICK c : c = AdjustedBy(a, adjust[i], dims)
    OBVIOUS
  <2>3. Steady(c) /\ Paid(c, b)
    BY <2>1, <2>2, AdjustedByPaid
  <2> QED
    BY <2>2, <2>3 DEF Steady, Single, Sound
<1> HIDE DEF S
<1>3. Adjusted(l, dims) \in S
  BY <1>1, <1>2, AdjustedIn
<1> QED
  BY <1>3 DEF S

LEMMA TakenPaid ==
    ASSUME DayInv, Prompt, IsFiniteSet(Given), NEW b \in Int, NEW l, Steady(l), Paid(l, b),
           NEW bound \in BOOLEAN, NEW pool \in Pools, NEW dims \in [Gives \union Takes -> Dims]
    PROVE  Steady(Taken(l, bound, pool, dims)) /\ Paid(Taken(l, bound, pool, dims), b)
<1>1. PICK d : d = IF bound THEN Drained(l) ELSE l
  OBVIOUS
<1>2. PICK g : g = IF bound THEN Gifted(d, pool) ELSE d
  OBVIOUS
<1>3. Steady(d) /\ Paid(d, b)
  BY <1>1, DrainedPaid
<1>4. Steady(g) /\ Paid(g, b)
  BY <1>2, <1>3, GiftedPaid
<1>5. Taken(l, bound, pool, dims) = Adjusted(g, dims)
  BY <1>1, <1>2 DEF Taken
<1>6. Steady(Adjusted(g, dims)) /\ Paid(Adjusted(g, dims), b)
  BY <1>4, AdjustedPaid
<1> QED
  BY <1>5, <1>6

\* c is l with time burned: on its day the pools only give; on another they
\* were rolled first, and hold nothing.
Burns(l, c) ==
    /\ Sound(c) /\ c.tz = l.tz /\ c.credits = l.credits
    /\ \/ c.day = l.day /\ c.secs = l.secs
            /\ l.spent["schedule"] <= c.spent["schedule"] /\ l.spent["time"] <= c.spent["time"]
       \/ c.day # l.day /\ c.day = Day(l.tz, now) /\ Left(c) = 0

LEMMA BurnedBurns ==
    ASSUME now \in Nat, NEW l, Sound(l), NEW pool \in Burnable, NEW n \in Nat
    PROVE  Burns(l, Burned(l, now, pool, n))
<1> DEFINE r == Rolled(l, now)
           b == Burned(l, now, pool, n)
<1>1. /\ Sound(r) /\ r \in Ledger /\ r.tz = l.tz /\ r.day = Day(l.tz, now)
      /\ r.credits = l.credits
  BY RolledFacts DEF Sound
<1>2. Sound(b) /\ Left(b) \in Nat
  BY BurnedSound, LeftIsNat
<1>3. b = [r EXCEPT !.spent[pool] = Lesser(@ + n, r.secs[pool])]
  BY DEF Burned
<1>4. CASE Day(l.tz, now) = l.day
  <2>1. r = l
    BY <1>4 DEF Rolled
  <2> HIDE DEF r, b
  <2>2. /\ b.day = l.day /\ b.secs = l.secs /\ b.tz = l.tz /\ b.credits = l.credits
        /\ b.spent = [l.spent EXCEPT ![pool] = Lesser(@ + n, l.secs[pool])]
    BY <1>1, <1>3, <2>1 DEF Ledger
  <2>3. ASSUME NEW p \in Burnable PROVE l.spent[p] <= b.spent[p]
    <3>1. /\ l.spent \in [Burnable -> Nat] /\ l.secs[p] \in Nat
          /\ l.spent[p] <= l.secs[p] /\ l.spent[p] \in Nat
      <4>1. p \in Pools
        BY DEF Burnable, Pools, Dims
      <4> QED
        BY <4>1 DEF Sound, Ledger
    <3>2. b.spent[p] = IF p = pool THEN Lesser(l.spent[p] + n, l.secs[p]) ELSE l.spent[p]
      BY <2>2, <3>1
    <3> QED
      BY <3>1, <3>2 DEF Lesser
  <2>4. "schedule" \in Burnable /\ "time" \in Burnable
    BY DEF Burnable
  <2> QED
    BY <1>2, <2>2, <2>3, <2>4 DEF Burns, b
<1>5. CASE Day(l.tz, now) # l.day
  <2>1. r = EmptyDay(l.tz, Day(l.tz, now), l.credits)
    BY <1>5 DEF Rolled
  <2>2. r.secs = [p \in Pools |-> 0]
    BY <2>1 DEF EmptyDay
  <2> HIDE DEF r, b
  <2>3. b.day = r.day /\ b.secs = r.secs /\ b.tz = r.tz /\ b.credits = r.credits
    BY <1>1, <1>3 DEF Ledger
  <2>4. /\ b.spent["schedule"] \in Nat /\ b.spent["schedule"] <= 0
        /\ b.spent["time"] \in Nat /\ b.spent["time"] <= 0
        /\ b.secs["schedule"] = 0 /\ b.secs["time"] = 0
    BY <1>2, <2>2, <2>3 DEF Sound, Ledger, Burnable, Pools, Dims
  <2>5. Left(b) = 0
    BY <2>4 DEF Left
  <2> QED
    BY <1>1, <1>2, <1>5, <2>3, <2>5 DEF Burns, b
<1> QED
  BY <1>4, <1>5

LEMMA BurnsSelf ==
    ASSUME NEW l, Sound(l)
    PROVE  Burns(l, l)
BY DEF Burns, Sound, Ledger, Burnable

LEMMA BurnsOn ==
    ASSUME NEW l, NEW c, NEW d, Sound(l), Burns(l, c), Burns(c, d)
    PROVE  Burns(l, d)
<1>1. Sound(c) /\ Sound(d) /\ Left(d) \in Nat
  BY LeftIsNat DEF Burns
<1>2. ASSUME NEW k, Sound(k)
      PROVE  /\ k.spent["schedule"] \in Nat /\ k.spent["time"] \in Nat
             /\ k.secs["schedule"] \in Nat /\ k.secs["time"] \in Nat
  BY <1>2 DEF Sound, Ledger, Burnable, Pools, Dims
<1>3. /\ l.spent["schedule"] \in Nat /\ l.spent["time"] \in Nat
      /\ c.spent["schedule"] \in Nat /\ c.spent["time"] \in Nat
      /\ d.spent["schedule"] \in Nat /\ d.spent["time"] \in Nat
      /\ c.secs["schedule"] \in Nat /\ c.secs["time"] \in Nat
  BY <1>1, <1>2
<1>4. CASE c.day = l.day
  BY <1>1, <1>3, <1>4 DEF Burns
<1>5. CASE c.day # l.day
  <2>1. c.day = Day(l.tz, now) /\ Left(c) = 0 /\ c.tz = l.tz
    BY <1>5 DEF Burns
  <2>2. d.day = c.day /\ d.secs = c.secs /\ d.tz = c.tz
    BY <2>1 DEF Burns
  <2>3. c.spent["schedule"] <= d.spent["schedule"] /\ c.spent["time"] <= d.spent["time"]
    BY <2>1 DEF Burns
  <2>4. Left(d) = 0
    BY <1>1, <1>3, <2>1, <2>2, <2>3 DEF Left
  <2> QED
    BY <1>1, <1>5, <2>1, <2>2, <2>4 DEF Burns
<1> QED
  BY <1>4, <1>5

\* The tick: what the child enjoys is what the pools lose.
LEMMA TickedPaid ==
    ASSUME DayInv, IsFiniteSet(Given), NEW b \in Int, NEW l, Steady(l), Paid(l, b),
           NEW burning \in SUBSET Burnable, NEW elapsed \in Nat, NEW t,
           t = Ticked(l, burning, elapsed), NEW e, e = Enjoyed(Ticked(l, {}, 0), t)
    PROVE  e \in Nat /\ Steady(t) /\ Paid(t, b + e)
<1>1. now \in Nat /\ Sound(l) /\ Reconciled(l, clauseTz, now) = l
  BY DEF DayInv, DoorsInv, Steady, Single, Reconciled
<1>2. Ticked(l, {}, 0) = l
  BY <1>1 DEF Ticked
<1>3. PICK s : s = IF elapsed > 0 /\ "schedule" \in burning
                   THEN Burned(l, now, "schedule", elapsed) ELSE l
  OBVIOUS
<1>4. t = IF "time" \in burning THEN Burned(s, now, "time", elapsed) ELSE s
  BY <1>1, <1>3 DEF Ticked
<1>5. "schedule" \in Burnable /\ "time" \in Burnable
  BY DEF Burnable
<1>6. Burns(l, s) /\ Sound(s)
  <2>1. Burns(l, s)
    BY <1>1, <1>3, <1>5, BurnedBurns, BurnsSelf
  <2> QED
    BY <2>1 DEF Burns
<1>7. Burns(s, t)
  BY <1>1, <1>4, <1>5, <1>6, BurnedBurns, BurnsSelf
<1>8. Burns(l, t)
  BY <1>1, <1>6, <1>7, BurnsOn
<1>9. Steady(t)
  BY TickedSteady
<1>10. Sound(t) /\ Left(l) \in Nat /\ Left(t) \in Nat /\ t.credits = l.credits
  BY <1>1, <1>8, LeftIsNat DEF Burns
<1>11. Credited(t) = Credited(l) /\ Worth(Credited(l)) \in Nat
  BY <1>10, CreditedIsGiven DEF Credited, Steady
<1>12. e \in Nat /\ e + Left(t) <= Left(l)
  <2>1. CASE t.day # l.day
    <3>1. Left(t) = 0
      BY <1>8, <2>1 DEF Burns
    <3>2. e = 0
      <4>1. Enjoyed(l, t) = 0
        BY <2>1, Zenon DEF Enjoyed
      <4> QED
        BY <1>2, <4>1
    <3> QED
      BY <1>10, <3>1, <3>2
  <2>2. CASE t.day = l.day
    <3>1. e = (t.spent["schedule"] - l.spent["schedule"]) + (t.spent["time"] - l.spent["time"])
      BY <1>1, <1>2, <1>10, <2>2, EnjoyedIs
    <3>2. /\ t.secs = l.secs /\ l.spent["schedule"] <= t.spent["schedule"]
          /\ l.spent["time"] <= t.spent["time"]
      BY <1>8, <2>2 DEF Burns
    <3>3. /\ l.spent["schedule"] \in Nat /\ l.spent["time"] \in Nat
          /\ t.spent["schedule"] \in Nat /\ t.spent["time"] \in Nat
          /\ l.secs["schedule"] \in Nat /\ l.secs["time"] \in Nat
      BY <1>1, <1>10 DEF Sound, Ledger, Burnable, Pools, Dims
    <3> QED
      BY <3>1, <3>2, <3>3 DEF Left
  <2> QED
    BY <2>1, <2>2
<1>13. b + Left(l) <= Worth(Credited(l))
  BY DEF Paid
<1>14. (b + e) + Left(t) <= Worth(Credited(t))
  BY <1>10, <1>11, <1>12, <1>13
<1> QED
  BY <1>9, <1>12, <1>14 DEF Paid

\* What has been spent of the enforcing ledger's lineage, and of the saved one's.
SpentInv ==
    /\ burnt \in Nat /\ lost \in Nat /\ unsaved \in Nat
    /\ IsFiniteSet(Given)
    /\ led # None => Paid(led, burnt - lost)
    /\ led = None => unsaved = 0
    /\ disk # None => Paid(disk, burnt - lost - unsaved)
    /\ disk = None => burnt <= lost + unsaved

LEMMA SyncedPaid ==
    ASSUME DayInv, Prompt, OnceInv, SpentInv
    PROVE  Steady(Synced(TRUE)) /\ Paid(Synced(TRUE), burnt - lost)
<1>1. burnt \in Nat /\ lost \in Nat
  BY DEF SpentInv
<1>2. CASE led # None
  BY <1>2, SyncedSteady DEF Synced, SpentInv
<1>3. CASE led = None /\ disk # None
  <2>1. Paid(disk, burnt - lost - 0) /\ (burnt - lost) - 0 = burnt - lost
    BY <1>1, <1>3 DEF SpentInv
  <2> QED
    BY <1>3, <2>1, SyncedSteady DEF Synced, Restored
<1>4. CASE led = None /\ disk = None
  <2>1. PICK n : n = NewLedger(clauseTz, now)
    OBVIOUS
  <2>2. Synced(TRUE) = n
    BY <1>4, <2>1 DEF Synced, Restored
  <2>3. Left(n) = 0 /\ n.credits = [i \in Ids |-> 0]
    BY <2>1 DEF NewLedger, EmptyDay, Left, Pools, Dims, Burnable
  <2>4. Credited(n) = {}
    BY <2>3 DEF Credited
  <2>5. Worth({}) = 0
    BY WorthFacts, FS_EmptySet
  <2>6. burnt <= lost
    BY <1>1, <1>4 DEF SpentInv
  <2>7. Paid(n, burnt - lost)
    BY <1>1, <2>3, <2>4, <2>5, <2>6 DEF Paid
  <2> QED
    BY <2>2, <2>7, SyncedSteady
<1> QED
  BY <1>2, <1>3, <1>4

LEMMA IterationSpent ==
    ASSUME DayInv, Prompt, OnceInv, SpentInv, Iteration
    PROVE  SpentInv'
<1>1. PICK bound \in BOOLEAN, tracked \in BOOLEAN, pool \in Pools,
           dims \in [Gives \union Takes -> Dims], burning \in SUBSET Burnable,
           elapsed \in Nat, saved \in BOOLEAN :
        Finds(bound, tracked, pool, dims, burning, elapsed, saved)
  BY IterationIs DEF DayInv
<1>2. PICK s : s = Synced(TRUE)
  OBVIOUS
<1>3. PICK k : k = Taken(s, bound, pool, dims)
  OBVIOUS
<1>4. PICK t : t = Ticked(k, burning, elapsed)
  OBVIOUS
<1>5. PICK e : e = Enjoyed(Ticked(k, {}, 0), t)
  OBVIOUS
<1>6. burnt \in Nat /\ lost \in Nat /\ unsaved \in Nat /\ IsFiniteSet(Given)
  BY DEF SpentInv
<1>7. burnt - lost \in Int
  BY <1>6
<1>8. Steady(s) /\ Paid(s, burnt - lost)
  BY <1>2, SyncedPaid
<1>9. Steady(k) /\ Paid(k, burnt - lost)
  BY <1>3, <1>6, <1>7, <1>8, TakenPaid
<1>10. e \in Nat /\ Steady(t) /\ Paid(t, (burnt - lost) + e)
  BY <1>4, <1>5, <1>6, <1>7, <1>9, TickedPaid
<1>11. t # None
  BY <1>10, NoneAssumption DEF Steady, Single, Sound
<1>12. Given' = Given
  BY <1>1 DEF Finds, Iterate, Given
<1>13. CASE tracked
  <2>1. /\ led' = t /\ lost' = lost /\ burnt' = burnt + e
        /\ \/ disk' = t /\ unsaved' = 0
           \/ disk' = disk /\ unsaved' = unsaved + e
    BY <1>1, <1>2, <1>3, <1>4, <1>5, <1>13 DEF Finds, Iterate
  <2>2. Paid(t, burnt' - lost')
    <3>1. (burnt - lost) + e = burnt' - lost'
      BY <1>6, <1>10, <2>1
    <3> QED
      BY <1>10, <3>1
  <2>3. CASE disk' = t /\ unsaved' = 0
    <3>1. burnt' - lost' - unsaved' = burnt' - lost'
      BY <1>6, <1>10, <2>1, <2>3
    <3> QED
      BY <1>6, <1>10, <1>11, <1>12, <2>1, <2>2, <2>3, <3>1 DEF SpentInv
  <2>4. CASE disk' = disk /\ unsaved' = unsaved + e
    <3>1. /\ burnt' - lost' - unsaved' = burnt - lost - unsaved
          /\ burnt' \in Nat /\ unsaved' \in Nat
          /\ burnt <= lost + unsaved => burnt' <= lost' + unsaved'
      BY <1>6, <1>10, <2>1, <2>4
    <3>2. disk # None => Paid(disk, burnt - lost - unsaved)
      BY DEF SpentInv
    <3>3. disk = None => burnt <= lost + unsaved
      BY DEF SpentInv
    <3>4. disk' # None => Paid(disk', burnt' - lost' - unsaved')
      BY <2>4, <3>1, <3>2
    <3> QED
      BY <1>6, <1>11, <1>12, <2>1, <2>2, <2>4, <3>1, <3>3, <3>4 DEF SpentInv
  <2> QED
    BY <2>1, <2>3, <2>4
<1>14. CASE ~tracked
  <2>1. /\ led' = None /\ disk' = disk /\ unsaved' = 0 /\ lost' = lost + unsaved
        /\ burnt' = burnt + 0
    BY <1>1, <1>14 DEF Finds, Iterate
  <2>2. /\ burnt' - lost' - unsaved' = burnt - lost - unsaved /\ burnt' = burnt
        /\ lost' + unsaved' = lost + unsaved /\ lost' \in Nat
    BY <1>6, <2>1
  <2> QED
    BY <1>6, <1>12, <2>1, <2>2 DEF SpentInv
<1> QED
  BY <1>13, <1>14

\* Giving more, or forgetting what was not saved.
LEMMA SpentStays ==
    ASSUME SpentInv, \/ givenAt' = givenAt
                     \/ \E id \in Ids : givenAt' = [givenAt EXCEPT ![id] = now],
           givenAt \in [Ids -> Nat \union {None}],
           UNCHANGED <<burnt, disk>>,
           \/ UNCHANGED <<led, lost, unsaved>>
           \/ led' = None /\ lost' = lost + unsaved /\ unsaved' = 0
    PROVE  SpentInv'
<1>1. burnt \in Nat /\ lost \in Nat /\ unsaved \in Nat /\ IsFiniteSet(Given)
  BY DEF SpentInv
<1>2. IsFiniteSet(Given')
  <2>1. CASE givenAt' = givenAt
    <3>1. Given' = Given
      BY <2>1 DEF Given
    <3> QED
      BY <1>1, <3>1
  <2>2. ASSUME NEW id \in Ids, givenAt' = [givenAt EXCEPT ![id] = now]
        PROVE  IsFiniteSet(Given')
    <3>1. Given' \in SUBSET (Given \union {id})
      BY <2>2 DEF Given
    <3>2. IsFiniteSet(Given \union {id})
      BY <1>1, FS_AddElement
    <3> QED
      BY <3>1, <3>2, FS_Subset
  <2> QED
    BY <2>1, <2>2
<1>3. CASE UNCHANGED <<led, lost, unsaved>>
  BY <1>2, <1>3 DEF SpentInv
<1>4. CASE led' = None /\ lost' = lost + unsaved /\ unsaved' = 0
  <2>1. /\ burnt' - lost' - unsaved' = burnt - lost - unsaved
        /\ lost' + unsaved' = lost + unsaved /\ lost' \in Nat
    BY <1>1, <1>4
  <2> QED
    BY <1>1, <1>2, <1>4, <2>1 DEF SpentInv
<1> QED
  BY <1>3, <1>4

LEMMA SpentInit == Init => SpentInv
<1> SUFFICES ASSUME Init PROVE SpentInv
  OBVIOUS
<1>1. Given = {}
  BY DEF Init, Given
<1> QED
  BY <1>1, FS_EmptySet DEF Init, SpentInv

LEMMA SpentStep == DayInv /\ Prompt /\ OnceInv /\ SpentInv /\ [Next]_vars => SpentInv'
<1> SUFFICES ASSUME DayInv, Prompt, OnceInv, SpentInv, [Next]_vars
             PROVE  SpentInv'
  OBVIOUS
<1>1. givenAt \in [Ids -> Nat \union {None}]
  BY DEF DayInv, DoorsInv
<1>2. CASE Advance \/ Skip \/ Boot \/ UNCHANGED vars
  <2>1. UNCHANGED <<givenAt, burnt, disk, led, lost, unsaved>>
    BY <1>2 DEF Advance, Skip, Boot, vars, loop
  <2> QED
    BY <1>1, <2>1, SpentStays
<1>3. ASSUME NEW tz \in Tzs, EditTz(tz) PROVE SpentInv'
  <2>1. UNCHANGED <<givenAt, burnt, disk, led, lost, unsaved>>
    BY <1>3 DEF EditTz, loop
  <2> QED
    BY <1>1, <2>1, SpentStays
<1>4. ASSUME NEW pool \in Routes, GrantEnact(pool) PROVE SpentInv'
  <2>1. UNCHANGED <<givenAt, burnt, disk, led, lost, unsaved>>
    BY <1>4 DEF GrantEnact, loop
  <2> QED
    BY <1>1, <2>1, SpentStays
<1>5. ASSUME NEW id \in Ids, GrantBegin(id) \/ GuardianGives(id) \/ AdminAdjusts(id)
      PROVE  SpentInv'
  <2>1. /\ givenAt' = [givenAt EXCEPT ![id] = now]
        /\ UNCHANGED <<burnt, disk, led, lost, unsaved>>
    BY <1>5 DEF GrantBegin, GuardianGives, AdminAdjusts, loop
  <2> QED
    BY <1>1, <2>1, SpentStays
<1>6. CASE Iteration
  BY <1>6, IterationSpent
<1>7. CASE Crash
  <2>1. /\ UNCHANGED <<givenAt, burnt, disk>>
        /\ led' = None /\ lost' = lost + unsaved /\ unsaved' = 0
    BY <1>7 DEF Crash
  <2> QED
    BY <1>1, <2>1, SpentStays
<1> QED
  BY <1>2, <1>3, <1>4, <1>5, <1>6, <1>7, IdsAssumption DEF Next

\* The time a child enjoys from the pools is never more than what was given, but
\* for what was burned after the last save and then forgotten in a crash or an
\* eviction, as long as no ask is drained on another day than its handler began
\* on and no timezone moves (runtime.rs, the burns of one iteration and
\* restore_extension: a reboot must not refill a gift).
THEOREM SpentWithinGivenHolds == Spec /\ []Prompt => []SpentWithinGiven
<1>1. DayInv /\ OnceInv /\ SpentInv => SpentWithinGiven
  <2> SUFFICES ASSUME OnceInv, SpentInv
               PROVE  burnt <= Worth(Given) + lost
    BY DEF SpentWithinGiven, Worth, Total
  <2>1. /\ burnt \in Nat /\ lost \in Nat /\ unsaved \in Nat /\ IsFiniteSet(Given)
        /\ Given \in SUBSET Ids /\ Worth(Given) \in Nat
    BY WorthFacts DEF SpentInv, Given
  <2>2. ASSUME NEW l, Single(l), Paid(l, burnt - lost) PROVE burnt <= Worth(Given) + lost
    <3>1. /\ Left(l) \in Nat /\ Worth(Credited(l)) \in Nat
          /\ Worth(Credited(l)) <= Worth(Given)
      BY <2>1, <2>2, LeftIsNat, CreditedIsGiven DEF Single
    <3>2. (burnt - lost) + Left(l) <= Worth(Credited(l))
      BY <2>2 DEF Paid
    <3> QED
      BY <2>1, <3>1, <3>2
  <2>3. CASE led # None
    BY <2>2, <2>3 DEF OnceInv, SpentInv
  <2>4. CASE led = None /\ disk # None
    <3>1. Single(disk) /\ Paid(disk, burnt - lost - 0) /\ (burnt - lost) - 0 = burnt - lost
      BY <2>1, <2>4 DEF OnceInv, SpentInv
    <3> QED
      BY <2>2, <3>1
  <2>5. CASE led = None /\ disk = None
    BY <2>1, <2>5 DEF SpentInv
  <2> QED
    BY <2>3, <2>4, <2>5
<1> QED
  BY <1>1, DayInit, DayStep, OnceInit, OnceStep, SpentInit, SpentStep, PTL DEF Spec
================================================================================
