----------------------------- MODULE BrokerProofs -----------------------------
(***************************************************************************)
(* Theorems about Broker, for every finite set of requests and every value *)
(* of the bounds.  The inductive invariant is built in layers, each proved *)
(* from the ones before it:                                                *)
(*   TypeInv       types, and the states a handler can be carrying;        *)
(*   AuthorityInv  who may take effect, and how often;                     *)
(*   FreshInv      what a submit that is still under way implies;          *)
(*   TurnInv       what holding, or not holding, the turn implies;         *)
(*   OutcomeInv    what a recorded outcome says about the effect;          *)
(*   DurableInv    what is on disk about a published request;              *)
(*   LedgerInv     what disk and memory say of an effect, while no write   *)
(*                 has been lost;                                          *)
(*   HistoryInv    how far the history is past its cap, and why.           *)
(***************************************************************************)
EXTENDS Broker, FiniteSetTheorems, TLAPS

-----------------------------------------------------------------------------
(* Settle, in the form the proofs use. *)

\* Pruning takes a record out of memory only once it is terminal, out of the
\* store only with it, and leaves every other record as it was.
LEMMA SettleFacts ==
  ASSUME TypeOK,
         NEW m \in [Requests -> MemStates],
         NEW d \in [Requests -> DiskStates],
         NEW n \in Nat,
         Settle(m, d, n)
  PROVE  /\ mem' \in [Requests -> MemStates]
         /\ disk' \in [Requests -> DiskStates]
         /\ lost' \in 0..MaxLost
         /\ lost' >= lost + n
         /\ resolved' = resolved \cup Terminal(m)
         /\ \A r \in Requests :
              \/ mem'[r] = m[r]
              \/ m[r] \in TerminalStates /\ mem'[r] = "none"
         /\ \A r \in Requests :
              \/ disk'[r] = d[r]
              \/ m[r] \in TerminalStates /\ mem'[r] = "none" /\ disk'[r] = "none"
<1>1. PICK V \in Victims(m), kept \in SUBSET Requests :
        /\ kept \subseteq V
        /\ mem' = [r \in Requests |-> IF r \in V THEN "none" ELSE m[r]]
        /\ disk' = [r \in Requests |-> IF r \in V \ kept THEN "none" ELSE d[r]]
        /\ lost' = lost + n + Cardinality(kept)
        /\ lost' <= MaxLost
        /\ resolved' = resolved \cup Terminal(m)
  <2>1. \A V \in Victims(m) : V \subseteq Requests
    BY DEF Victims, Terminal
  <2> QED
    BY <2>1 DEF Settle
<1>2. V \subseteq Terminal(m) /\ V \subseteq Requests
  BY DEF Victims, Terminal
<1>3. Cardinality(kept) \in Nat
  BY RequestsAssumption, FS_Subset, FS_CardinalityType
<1>4. lost' \in 0..MaxLost /\ lost' >= lost + n
  BY <1>1, <1>3, NumbersAssumption DEF TypeOK
<1>5. /\ mem' \in [Requests -> MemStates]
      /\ disk' \in [Requests -> DiskStates]
  BY <1>1 DEF MemStates, DiskStates
<1>6. \A r \in Requests :
        \/ mem'[r] = m[r]
        \/ m[r] \in TerminalStates /\ mem'[r] = "none"
  BY <1>1, <1>2 DEF Terminal
<1>7. \A r \in Requests :
        \/ disk'[r] = d[r]
        \/ m[r] \in TerminalStates /\ mem'[r] = "none" /\ disk'[r] = "none"
  BY <1>1, <1>2 DEF Terminal
<1> QED
  BY <1>1, <1>4, <1>5, <1>6, <1>7

\* What a sweep, or a bare prune, does: it expires what is waiting and stale, in
\* memory and, but for lost writes, on disk; it touches nothing else.
SweepEffect ==
  /\ mem' \in [Requests -> MemStates]
  /\ disk' \in [Requests -> DiskStates]
  /\ lost' \in 0..MaxLost
  /\ lost' >= lost
  /\ resolved \subseteq resolved'
  /\ resolved' \subseteq Requests
  /\ \A r \in Requests :
       \/ mem'[r] = mem[r]
       \/ mem[r] = "Pending" /\ r \in Stale(mem) /\ mem'[r] = "Expired"
       \/ mem'[r] = "none" /\ r \in resolved'
  /\ \A r \in Requests : Swept(mem)[r] = "Pending" => mem'[r] = "Pending"
  /\ \A r \in Requests : mem[r] = "none" => mem'[r] = "none"
  /\ \A r \in Requests :
       mem[r] \in TerminalStates => mem'[r] \in {mem[r], "none"}
  /\ \A r \in Requests :
       \/ disk'[r] = disk[r]
       \/ mem[r] = "Pending" /\ disk'[r] = "Expired"
       \/ disk'[r] = "none" /\ r \in resolved' /\ mem[r] # "none"

\* A sweep that finds something stale.
LEMMA StaleFacts ==
  ASSUME TypeOK,
         \E failed \in SUBSET Stale(mem) :
           Settle(Swept(mem), SaveStates(disk, Swept(mem), Stale(mem) \ failed),
                  Cardinality(failed))
  PROVE  SweepEffect
<1>1. PICK failed \in SUBSET Stale(mem) :
        Settle(Swept(mem), SaveStates(disk, Swept(mem), Stale(mem) \ failed),
               Cardinality(failed))
  OBVIOUS
<1> DEFINE m == Swept(mem)
           d == SaveStates(disk, Swept(mem), Stale(mem) \ failed)
<1>2. Cardinality(failed) \in Nat
  <2>1. failed \subseteq Requests
    BY DEF Stale
  <2> QED
    BY <2>1, RequestsAssumption, FS_Subset, FS_CardinalityType
<1>3. m \in [Requests -> MemStates] /\ d \in [Requests -> DiskStates]
  BY DEF TypeOK, Swept, SaveStates, MemStates, DiskStates, TerminalStates
<1>4. \A r \in Requests :
        \/ m[r] = mem[r]
        \/ mem[r] = "Pending" /\ r \in Stale(mem) /\ m[r] = "Expired"
  BY DEF Swept, Stale
<1>5. \A r \in Requests :
        \/ d[r] = disk[r]
        \/ mem[r] = "Pending" /\ d[r] = "Expired"
  BY DEF Swept, Stale, SaveStates
<1> HIDE DEF m, d
<1>6. Settle(m, d, Cardinality(failed))
  BY <1>1 DEF m, d
<1>7. /\ mem' \in [Requests -> MemStates]
      /\ disk' \in [Requests -> DiskStates]
      /\ lost' \in 0..MaxLost
      /\ lost' >= lost + Cardinality(failed)
      /\ resolved' = resolved \cup Terminal(m)
      /\ \A r \in Requests :
           \/ mem'[r] = m[r]
           \/ m[r] \in TerminalStates /\ mem'[r] = "none"
      /\ \A r \in Requests :
           \/ disk'[r] = d[r]
           \/ m[r] \in TerminalStates /\ mem'[r] = "none" /\ disk'[r] = "none"
  BY <1>2, <1>3, <1>6, SettleFacts
<1>8. \A r \in Requests : m[r] \in TerminalStates => r \in resolved'
  BY <1>7 DEF Terminal
<1>9. lost' >= lost /\ resolved \subseteq resolved' /\ resolved' \subseteq Requests
  BY <1>2, <1>7 DEF TypeOK, Terminal
<1>10. \A r \in Requests : Swept(mem)[r] = "Pending" => mem'[r] = "Pending"
  BY <1>7 DEF m, TerminalStates
<1>11. \A r \in Requests :
         /\ mem[r] = "none" => mem'[r] = "none"
         /\ mem[r] \in TerminalStates => mem'[r] \in {mem[r], "none"}
  BY <1>4, <1>7 DEF TerminalStates
<1>12. \A r \in Requests :
         \/ mem'[r] = mem[r]
         \/ mem[r] = "Pending" /\ r \in Stale(mem) /\ mem'[r] = "Expired"
         \/ mem'[r] = "none" /\ r \in resolved'
  BY <1>4, <1>7, <1>8
<1>13. \A r \in Requests :
         \/ disk'[r] = disk[r]
         \/ mem[r] = "Pending" /\ disk'[r] = "Expired"
         \/ disk'[r] = "none" /\ r \in resolved' /\ mem[r] # "none"
  BY <1>4, <1>5, <1>7, <1>8 DEF TerminalStates
<1> QED
  BY <1>7, <1>9, <1>10, <1>11, <1>12, <1>13 DEF SweepEffect

LEMMA ExpireFacts == TypeOK /\ ExpireStale => SweepEffect
<1> SUFFICES ASSUME TypeOK, ExpireStale PROVE SweepEffect
  OBVIOUS
<1>1. CASE Stale(mem) = {}
  <2>1. UNCHANGED <<mem, disk, lost, resolved>>
    BY <1>1 DEF ExpireStale
  <2>2. \A r \in Requests : Swept(mem)[r] = mem[r]
    BY <1>1 DEF Swept
  <2> QED
    BY <2>1, <2>2, NumbersAssumption DEF SweepEffect, TypeOK
<1>2. CASE Stale(mem) # {}
  BY <1>2, StaleFacts DEF ExpireStale
<1> QED
  BY <1>1, <1>2

LEMMA PruneFacts == TypeOK /\ Settle(mem, disk, 0) => SweepEffect
<1> SUFFICES ASSUME TypeOK, Settle(mem, disk, 0) PROVE SweepEffect
  OBVIOUS
<1>1. /\ mem' \in [Requests -> MemStates]
      /\ disk' \in [Requests -> DiskStates]
      /\ lost' \in 0..MaxLost
      /\ lost' >= lost + 0
      /\ resolved' = resolved \cup Terminal(mem)
      /\ \A r \in Requests :
           \/ mem'[r] = mem[r]
           \/ mem[r] \in TerminalStates /\ mem'[r] = "none"
      /\ \A r \in Requests :
           \/ disk'[r] = disk[r]
           \/ mem[r] \in TerminalStates /\ mem'[r] = "none" /\ disk'[r] = "none"
  <2>1. mem \in [Requests -> MemStates] /\ disk \in [Requests -> DiskStates] /\ 0 \in Nat
    BY DEF TypeOK
  <2> QED
    BY <2>1, SettleFacts
<1>2. \A r \in Requests : mem[r] \in TerminalStates => r \in resolved' /\ mem[r] # "none"
  BY <1>1 DEF Terminal, TerminalStates
<1>3. \A r \in Requests : Swept(mem)[r] = "Pending" => mem[r] = "Pending"
  BY DEF Swept
<1>4. lost' >= lost /\ resolved \subseteq resolved' /\ resolved' \subseteq Requests
  BY <1>1 DEF TypeOK, Terminal
<1> QED
  BY <1>1, <1>2, <1>3, <1>4 DEF SweepEffect, TerminalStates

\* The steps that sweep or prune and do nothing else, and what they leave alone.
Sweeps == PollSweep \/ RejectGrant

LEMMA SweepFacts ==
  ASSUME TypeOK, Sweeps
  PROVE  /\ SweepEffect
         /\ up /\ turn = Free
         /\ polling' \in BOOLEAN
         /\ UNCHANGED <<up, turn, cancelling, released, spent, effects, paired, born, submit,
                        stamped, published, now, crashes>>
  BY ExpireFacts, PruneFacts
  DEF Sweeps, PollSweep, RejectGrant, asks, world, counts, TypeOK

-----------------------------------------------------------------------------
(* Layer 1: types. *)

\* What the handler can be carrying at each of its steps.
HandlerShape ==
  /\ turn.pc = "verified" => turn.state \in {"Enacting", "Denied"} /\ turn.try = 0
  /\ turn.pc = "enacting" => turn.state = "Enacting" /\ turn.try < MaxAttempts
  /\ turn.pc \in {"enacted", "resolved"} => turn.state \in {"Enacted", "Denied", "Failed"}

TypeInv == TypeOK /\ HandlerShape

Grants == [pc : GrantSteps, req : Requests, state : TerminalStates \cup {"Enacting"},
           try : 0..MaxAttempts]

\* A turn at a grant step is a grant's.
LEMMA GrantTurn ==
  ASSUME TypeOK, turn.pc \in GrantSteps
  PROVE  turn \in Grants /\ turn \notin {Free, Clearing}
  BY DEF TypeOK, Turns, Grants, GrantSteps, Free, Clearing

LEMMA DiskTyped == TypeOK => disk \in [Requests -> DiskStates]
  BY DEF TypeOK

LEMMA ConsumeTyped ==
  ASSUME TypeOK, NEW r \in Requests, NEW d \in Decisions, Consume(r, d)
  PROVE  /\ spent' \in [Requests -> Decisions \cup {"no"}]
         /\ turn' \in Turns
         /\ HandlerShape'
  BY NumbersAssumption
  DEF TypeOK, Consume, Handling, Turns, GrantSteps, TerminalStates, HandlerShape, Decisions

LEMMA HandlerPersistTyped ==
  ASSUME TypeOK, NEW r \in Requests, NEW state \in DiskStates, HandlerPersist(r, state)
  PROVE  /\ disk' \in [Requests -> DiskStates]
         /\ lost' \in 0..MaxLost
         /\ lost' >= lost
         /\ \A q \in Requests : disk'[q] = disk[q] \/ (q = r /\ disk'[q] = state)
         /\ lost' = lost => disk'[r] = state
  BY NumbersAssumption DEF TypeOK, HandlerPersist

LEMMA TypeInit == Init => TypeInv
<1> SUFFICES ASSUME Init PROVE TypeInv
  OBVIOUS
<1>1. turn \in Turns /\ HandlerShape
  BY DEF Init, HandlerShape, Free, Turns
<1>2. /\ mem \in [Requests -> MemStates]
      /\ disk \in [Requests -> DiskStates]
      /\ submit \in [Requests -> SubmitSteps]
  BY DEF Init, MemStates, DiskStates, SubmitSteps
<1>3. /\ now \in 0..MaxNow /\ crashes \in 0..MaxCrashes /\ lost \in 0..MaxLost
      /\ born \in [Requests -> 0..MaxNow]
      /\ effects \in [Requests -> Nat]
  BY NumbersAssumption DEF Init
<1> QED
  BY <1>1, <1>2, <1>3 DEF Init, TypeInv, TypeOK

LEMMA TypeStep == TypeInv /\ [Next]_vars => TypeInv'
<1> SUFFICES ASSUME TypeInv, [Next]_vars
             PROVE  TypeInv'
  OBVIOUS
<1> USE DEF TypeInv
<1>1. ASSUME Tick PROVE TypeInv'
  BY <1>1, NumbersAssumption DEF Tick, TypeOK, HandlerShape, asks, world
<1>2. ASSUME NEW r \in Requests, SubmitCheck(r) PROVE TypeInv'
  BY <1>2 DEF SubmitCheck, TypeOK, HandlerShape, world, counts, SubmitSteps
<1>3. ASSUME NEW r \in Requests, SubmitPersist(r) PROVE TypeInv'
  BY <1>3, NumbersAssumption
  DEF SubmitPersist, TypeOK, HandlerShape, world, counts, SubmitSteps, DiskStates, MemStates
<1>4. ASSUME NEW r \in Requests, SubmitInsert(r) PROVE TypeInv'
  BY <1>4 DEF SubmitInsert, TypeOK, HandlerShape, world, counts, SubmitSteps, MemStates
<1>5. ASSUME NEW r \in Requests, SubmitPublish(r) PROVE TypeInv'
  BY <1>5 DEF SubmitPublish, TypeOK, HandlerShape, world, counts, SubmitSteps
<1>6. ASSUME NEW r \in Requests, CancelMark(r) PROVE TypeInv'
  BY <1>6
  DEF CancelMark, TypeOK, HandlerShape, asks, world, counts, MemStates, TerminalStates
<1>7. ASSUME NEW r \in Requests, CancelPersist(r) PROVE TypeInv'
  <2>1. [disk EXCEPT ![r] = "Cancelled"] \in [Requests -> DiskStates]
    BY DEF TypeOK, DiskStates, MemStates, TerminalStates
  <2>2. /\ mem' \in [Requests -> MemStates]
        /\ disk' \in [Requests -> DiskStates]
        /\ lost' \in 0..MaxLost
        /\ resolved' = resolved \cup Terminal(mem)
    BY <1>7, <2>1, SettleFacts DEF CancelPersist, TypeOK
  <2> QED
    BY <1>7, <2>2 DEF CancelPersist, TypeOK, HandlerShape, asks, world, counts, Terminal
<1>8. ASSUME Sweeps PROVE TypeInv'
  BY <1>8, SweepFacts DEF SweepEffect, TypeOK, HandlerShape
<1>9. ASSUME PollEnd PROVE TypeInv'
  BY <1>9 DEF PollEnd, TypeOK, HandlerShape, asks, world, counts
<1>10. ASSUME NEW r \in Requests, NEW d \in Decisions, RelayGrant(r, d) PROVE TypeInv'
  <2>1. Consume(r, d)
    BY <1>10 DEF RelayGrant
  <2> QED
    BY <1>10, <2>1, ConsumeTyped DEF RelayGrant, TypeOK, asks, counts
<1>11. ASSUME NEW r \in Requests, NEW d \in Decisions, LocalGrant(r, d) PROVE TypeInv'
  <2>1. Consume(r, d) /\ ExpireStale
    BY <1>11 DEF LocalGrant
  <2> QED
    BY <1>11, <2>1, ConsumeTyped, ExpireFacts
    DEF LocalGrant, SweepEffect, TypeOK, asks, counts
<1>12. ASSUME GrantPersist PROVE TypeInv'
  <2>1. turn \in Grants /\ turn.pc = "verified"
    BY <1>12, GrantTurn DEF GrantPersist, GrantSteps
  <2>2. turn.req \in Requests /\ turn.state \in DiskStates
    BY <2>1 DEF Grants, DiskStates, MemStates
  <2>3. disk' \in [Requests -> DiskStates] /\ lost' \in 0..MaxLost
    BY <1>12, <2>2, HandlerPersistTyped DEF GrantPersist
  <2>4. turn' \in Turns /\ HandlerShape'
    BY <1>12, <2>1, NumbersAssumption
    DEF GrantPersist, HandlerShape, Grants, Turns, GrantSteps, TerminalStates
  <2> QED
    BY <1>12, <2>3, <2>4 DEF GrantPersist, TypeOK, asks, world, counts
<1>13. ASSUME EnactSucceeds PROVE TypeInv'
  <2>1. turn \in Grants /\ turn.pc = "enacting"
    BY <1>13, GrantTurn DEF EnactSucceeds, GrantSteps
  <2>2. turn.try + 1 \in 0..MaxAttempts
    BY <2>1, NumbersAssumption DEF HandlerShape, Grants
  <2>3. turn' = Handling("enacted", turn.req, "Enacted", turn.try + 1)
    BY <1>13, <2>1 DEF EnactSucceeds, Grants, Handling
  <2>4. turn' \in Turns /\ HandlerShape'
    BY <2>1, <2>2, <2>3
    DEF Handling, HandlerShape, Grants, Turns, GrantSteps, TerminalStates
  <2> QED
    BY <1>13, <2>1, <2>4 DEF EnactSucceeds, TypeOK, asks, counts, Grants
<1>14. ASSUME EnactRetries PROVE TypeInv'
  <2>1. turn \in Grants /\ turn.pc = "enacting"
    BY <1>14, GrantTurn DEF EnactRetries, GrantSteps
  <2>2. turn' \in Turns /\ HandlerShape'
    BY <1>14, <2>1, NumbersAssumption
    DEF EnactRetries, HandlerShape, Grants, Turns, GrantSteps, TerminalStates
  <2> QED
    BY <1>14, <2>2 DEF EnactRetries, TypeOK, asks, world, counts
<1>15. ASSUME EnactFails PROVE TypeInv'
  <2>1. turn \in Grants /\ turn.pc = "enacting"
    BY <1>15, GrantTurn DEF EnactFails, GrantSteps
  <2>2. turn.try + 1 \in 0..MaxAttempts
    BY <2>1, NumbersAssumption DEF HandlerShape, Grants
  <2>3. turn' = Handling("enacted", turn.req, "Failed", turn.try + 1)
    BY <1>15, <2>1 DEF EnactFails, Grants, Handling
  <2>4. turn' \in Turns /\ HandlerShape'
    BY <2>1, <2>2, <2>3
    DEF Handling, HandlerShape, Grants, Turns, GrantSteps, TerminalStates
  <2> QED
    BY <1>15, <2>4 DEF EnactFails, TypeOK, asks, world, counts
<1>16. ASSUME OutcomePersist PROVE TypeInv'
  <2>1. /\ turn \in Grants /\ turn.pc = "enacted"
        /\ turn.state \in {"Enacted", "Denied", "Failed"} /\ turn.state \in TerminalStates
    BY <1>16, GrantTurn DEF OutcomePersist, GrantSteps, HandlerShape, TerminalStates
  <2>2. turn.req \in Requests /\ turn.state \in DiskStates
    BY <2>1 DEF Grants, DiskStates, MemStates
  <2>3. disk' \in [Requests -> DiskStates] /\ lost' \in 0..MaxLost
    BY <1>16, <2>2, HandlerPersistTyped DEF OutcomePersist
  <2>4. turn' \in Turns /\ HandlerShape'
    BY <1>16, <2>1 DEF OutcomePersist, HandlerShape, Grants, Turns, GrantSteps
  <2> QED
    BY <1>16, <2>3, <2>4 DEF OutcomePersist, TypeOK, asks, world, counts
<1>17. ASSUME GrantFinish PROVE TypeInv'
  <2>1. turn \in Grants /\ turn.state \in TerminalStates
    BY <1>17, GrantTurn DEF GrantFinish, GrantSteps, HandlerShape, TerminalStates
  <2>2. WriteBack(turn.req, turn.state) \in [Requests -> MemStates]
    BY <2>1 DEF WriteBack, TypeOK, Grants, MemStates
  <2>3. /\ mem' \in [Requests -> MemStates]
        /\ disk' \in [Requests -> DiskStates]
        /\ lost' \in 0..MaxLost
        /\ resolved' = resolved \cup Terminal(WriteBack(turn.req, turn.state))
    BY <1>17, <2>2, SettleFacts, DiskTyped DEF GrantFinish
  <2>4. resolved' \subseteq Requests
    BY <2>3 DEF TypeOK, Terminal
  <2> QED
    BY <1>17, <2>3, <2>4
    DEF GrantFinish, TypeOK, HandlerShape, asks, world, counts, Turns, Free
<1>18. ASSUME ReleaseMark PROVE TypeInv'
  BY <1>18
  DEF ReleaseMark, TypeOK, HandlerShape, asks, world, counts, Turns, Clearing
<1>19. ASSUME ReleaseClear PROVE TypeInv'
  <2>1. paired' \in BOOLEAN
    BY <1>19 DEF ReleaseClear, TypeOK
  <2>2. lost' \in 0..MaxLost
    BY <1>19, NumbersAssumption DEF ReleaseClear, TypeOK
  <2>3. turn' \in Turns /\ HandlerShape'
    BY <1>19 DEF ReleaseClear, HandlerShape, Turns, Free
  <2> QED
    BY <1>19, <2>1, <2>2, <2>3 DEF ReleaseClear, TypeOK, asks, counts
<1>20. ASSUME Stopped, crashes' \in 0..MaxCrashes PROVE TypeInv'
  BY <1>20
  DEF Stopped, TypeOK, HandlerShape, world, Turns, Free, SubmitSteps, MemStates
<1>21. ASSUME Boot PROVE TypeInv'
  <2>1. PICK failed \in SUBSET {r \in Requests : Swept(Loaded)[r] # disk[r]} :
          Settle(Swept(Loaded),
                 SaveStates(disk, Swept(Loaded),
                            {r \in Requests : Swept(Loaded)[r] # disk[r]} \ failed),
                 Cardinality(failed))
    BY <1>21 DEF Boot
  <2>2. Cardinality(failed) \in Nat
    BY RequestsAssumption, FS_Subset, FS_CardinalityType
  <2>3. Swept(Loaded) \in [Requests -> MemStates]
    BY DEF Swept, Loaded, TypeOK, MemStates, DiskStates, TerminalStates
  <2>4. SaveStates(disk, Swept(Loaded),
                   {r \in Requests : Swept(Loaded)[r] # disk[r]} \ failed)
          \in [Requests -> DiskStates]
    BY <2>3 DEF SaveStates, TypeOK, DiskStates
  <2>5. /\ mem' \in [Requests -> MemStates]
        /\ disk' \in [Requests -> DiskStates]
        /\ lost' \in 0..MaxLost
        /\ resolved' \subseteq Requests
    BY <2>1, <2>2, <2>3, <2>4, SettleFacts DEF TypeOK, Terminal
  <2> QED
    BY <1>21, <2>5 DEF Boot, TypeOK, HandlerShape, asks, world, counts
<1>22. ASSUME Crash PROVE TypeInv'
  <2>1. crashes' \in 0..MaxCrashes /\ Stopped
    BY <1>22, NumbersAssumption DEF Crash, TypeOK
  <2> QED
    BY <1>20, <2>1
<1>23. ASSUME RestartAfterRelease PROVE TypeInv'
  <2>1. crashes' \in 0..MaxCrashes /\ Stopped
    BY <1>23 DEF RestartAfterRelease, TypeOK
  <2> QED
    BY <1>20, <2>1
<1>24. ASSUME UNCHANGED vars PROVE TypeInv'
  BY <1>24 DEF vars, TypeOK, HandlerShape
<1> QED
  BY <1>1, <1>2, <1>3, <1>4, <1>5, <1>6, <1>7, <1>8, <1>9, <1>10, <1>11, <1>12, <1>13,
     <1>14, <1>15, <1>16, <1>17, <1>18, <1>19, <1>21, <1>22, <1>23, <1>24
  DEF Next, Handler, Sweeps

\* Every reachable state has the shape the code gives it.
THEOREM TypeCorrect == Spec => []TypeOK
<1>1. TypeInv => TypeOK
  BY DEF TypeInv
<1> QED
  BY <1>1, TypeInit, TypeStep, PTL DEF Spec

-----------------------------------------------------------------------------
(* Boot, in the form the later layers use. *)

\* What a restart makes of a stored record: a stale Pending expires, a record
\* left Enacting is Failed, and a pruned terminal record is gone.
LEMMA BootFacts ==
  ASSUME TypeOK, Boot
  PROVE  /\ \A r \in Requests :
              \/ mem'[r] = disk[r] /\ disk[r] # "Enacting"
              \/ disk[r] = "Enacting" /\ mem'[r] = "Failed"
              \/ disk[r] = "Pending" /\ mem'[r] = "Expired"
              \/ disk[r] # "none" /\ mem'[r] = "none" /\ r \in resolved'
         /\ \A r \in Requests :
              \/ disk'[r] = disk[r]
              \/ disk[r] = "Enacting" /\ disk'[r] = "Failed"
              \/ disk[r] = "Pending" /\ disk'[r] = "Expired"
              \/ disk[r] # "none" /\ disk'[r] = "none" /\ r \in resolved'
         /\ resolved \subseteq resolved'
         /\ lost' >= lost
<1> DEFINE m == Swept(Loaded)
           changed == {r \in Requests : m[r] # disk[r]}
<1>1. PICK failed \in SUBSET changed :
        Settle(m, SaveStates(disk, m, changed \ failed), Cardinality(failed))
  BY DEF Boot
<1>2. Cardinality(failed) \in Nat
  BY RequestsAssumption, FS_Subset, FS_CardinalityType
<1> DEFINE d == SaveStates(disk, m, changed \ failed)
<1>3. m \in [Requests -> MemStates]
  BY DEF Swept, Loaded, TypeOK, MemStates, DiskStates, TerminalStates
<1>4. d \in [Requests -> DiskStates]
  BY <1>3 DEF SaveStates, TypeOK, DiskStates
<1>5. \A r \in Requests :
        \/ m[r] = disk[r] /\ disk[r] # "Enacting"
        \/ disk[r] = "Enacting" /\ m[r] = "Failed"
        \/ disk[r] = "Pending" /\ m[r] = "Expired"
  BY DEF Swept, Loaded, Stale
<1>6. \A r \in Requests : d[r] \in {disk[r], m[r]}
  BY DEF SaveStates
<1> HIDE DEF m
<1>7. Settle(m, d, Cardinality(failed))
  BY <1>1
<1> HIDE DEF d
<1>8. /\ lost' >= lost + Cardinality(failed) /\ lost' \in 0..MaxLost
      /\ resolved' = resolved \cup Terminal(m)
      /\ \A r \in Requests :
           \/ mem'[r] = m[r]
           \/ m[r] \in TerminalStates /\ mem'[r] = "none"
      /\ \A r \in Requests :
           \/ disk'[r] = d[r]
           \/ m[r] \in TerminalStates /\ mem'[r] = "none" /\ disk'[r] = "none"
  BY <1>2, <1>3, <1>4, <1>7, SettleFacts
<1>9. \A r \in Requests : m[r] \in TerminalStates => r \in resolved' /\ m[r] # "none"
  BY <1>8 DEF Terminal, TerminalStates
<1>10. lost' >= lost /\ resolved \subseteq resolved'
  BY <1>2, <1>8 DEF TypeOK
<1> QED
  BY <1>5, <1>6, <1>8, <1>9, <1>10

-----------------------------------------------------------------------------
(* Layer 2: authority. *)

\* Only an allow takes effect, at most once; and a handler that is about to
\* enact holds an allow nobody has enacted.
AuthorityInv ==
  /\ \A r \in Requests : effects[r] <= 1
  /\ \A r \in Requests : effects[r] # 0 => spent[r] = "allow"
  /\ (turn.pc \in {"verified", "enacting"} /\ turn.state = "Enacting") =>
       spent[turn.req] = "allow" /\ effects[turn.req] = 0

LEMMA AuthorityInit == Init => AuthorityInv
  BY DEF Init, AuthorityInv, Free

\* Consuming an unspent request keeps the layer.
LEMMA AuthorityConsume ==
  ASSUME TypeInv, AuthorityInv, turn = Free, effects' = effects,
         NEW r \in Requests, NEW d \in Decisions, Consume(r, d)
  PROVE  AuthorityInv'
<1>1. effects[r] = 0
  BY DEF Consume, AuthorityInv
<1>2. turn'.req = r /\ turn'.state = IF d = "allow" THEN "Enacting" ELSE "Denied"
  BY DEF Consume, Handling
<1>3. \A q \in Requests : spent'[q] = IF q = r THEN d ELSE spent[q]
  BY DEF Consume, TypeInv, TypeOK
<1> QED
  BY <1>1, <1>2, <1>3 DEF AuthorityInv

LEMMA AuthorityStep == TypeInv /\ AuthorityInv /\ [Next]_vars => AuthorityInv'
<1> SUFFICES ASSUME TypeInv, AuthorityInv, [Next]_vars
             PROVE  AuthorityInv'
  OBVIOUS
<1>1. ASSUME UNCHANGED <<turn, spent, effects>> PROVE AuthorityInv'
  BY <1>1 DEF AuthorityInv
<1>2. ASSUME turn' \in {Free, Clearing}, UNCHANGED <<spent, effects>> PROVE AuthorityInv'
  BY <1>2 DEF AuthorityInv, Free, Clearing
<1>3. ASSUME NEW r \in Requests, NEW d \in Decisions, RelayGrant(r, d) PROVE AuthorityInv'
  BY <1>3, AuthorityConsume DEF RelayGrant
<1>4. ASSUME NEW r \in Requests, NEW d \in Decisions, LocalGrant(r, d) PROVE AuthorityInv'
  BY <1>4, AuthorityConsume DEF LocalGrant
<1>5. ASSUME GrantPersist PROVE AuthorityInv'
  <2>1. turn \in Grants /\ turn.pc = "verified"
    BY <1>5, GrantTurn DEF GrantPersist, GrantSteps, TypeInv
  <2> QED
    BY <1>5, <2>1 DEF GrantPersist, AuthorityInv, Grants, world
<1>6. ASSUME EnactSucceeds PROVE AuthorityInv'
  <2>1. turn \in Grants /\ turn.pc = "enacting" /\ turn.state = "Enacting"
    BY <1>6, GrantTurn DEF EnactSucceeds, GrantSteps, TypeInv, HandlerShape
  <2>2. turn.req \in Requests /\ effects[turn.req] = 0 /\ spent[turn.req] = "allow"
    BY <2>1 DEF AuthorityInv, Grants
  <2>3. \A q \in Requests : effects'[q] = IF q = turn.req THEN 1 ELSE effects[q]
    BY <1>6, <2>2 DEF EnactSucceeds, TypeInv, TypeOK
  <2>4. turn'.pc = "enacted"
    BY <1>6, <2>1 DEF EnactSucceeds, Grants
  <2> QED
    BY <1>6, <2>2, <2>3, <2>4 DEF EnactSucceeds, AuthorityInv
<1>7. ASSUME EnactRetries PROVE AuthorityInv'
  <2>1. turn \in Grants
    BY <1>7, GrantTurn DEF EnactRetries, GrantSteps, TypeInv
  <2> QED
    BY <1>7, <2>1 DEF EnactRetries, AuthorityInv, Grants, world
<1>8. ASSUME EnactFails PROVE AuthorityInv'
  <2>1. turn \in Grants
    BY <1>8, GrantTurn DEF EnactFails, GrantSteps, TypeInv
  <2> QED
    BY <1>8, <2>1 DEF EnactFails, AuthorityInv, Grants, world
<1>9. ASSUME OutcomePersist PROVE AuthorityInv'
  <2>1. turn \in Grants
    BY <1>9, GrantTurn DEF OutcomePersist, GrantSteps, TypeInv
  <2> QED
    BY <1>9, <2>1 DEF OutcomePersist, AuthorityInv, Grants, world
<1>10. ASSUME NEW r \in Requests,
              \/ SubmitCheck(r) \/ SubmitPersist(r) \/ SubmitInsert(r) \/ SubmitPublish(r)
              \/ CancelMark(r) \/ CancelPersist(r)
       PROVE  UNCHANGED <<turn, spent, effects>>
  BY <1>10
  DEF SubmitCheck, SubmitPersist, SubmitInsert, SubmitPublish, CancelMark, CancelPersist, world
<1>11. ASSUME Tick \/ Sweeps \/ PollEnd \/ Boot \/ UNCHANGED vars
       PROVE  UNCHANGED <<turn, spent, effects>>
  BY <1>11, SweepFacts DEF TypeInv, Tick, PollEnd, Boot, world, vars
<1>12. ASSUME GrantFinish \/ ReleaseMark \/ ReleaseClear \/ Crash \/ RestartAfterRelease
       PROVE  turn' \in {Free, Clearing} /\ UNCHANGED <<spent, effects>>
  BY <1>12
  DEF GrantFinish, ReleaseMark, ReleaseClear, Crash, RestartAfterRelease, Stopped, world
<1> QED
  BY <1>1, <1>2, <1>3, <1>4, <1>5, <1>6, <1>7, <1>8, <1>9, <1>10, <1>11, <1>12
  DEF Next, Handler, Sweeps

\* The decision and the effect of a request: consumed before it is enacted, so
\* enacted at most once however often the grant is delivered.
THEOREM AtMostOnce == Spec => []EnactedAtMostOnce
<1>1. AuthorityInv => EnactedAtMostOnce
  BY DEF AuthorityInv, EnactedAtMostOnce
<1> QED
  BY <1>1, TypeInit, TypeStep, AuthorityInit, AuthorityStep, PTL DEF Spec

\* Nothing takes effect on a deny, or before a decision has been consumed.
THEOREM OnlyIfAllowed == Spec => []EnactedOnlyIfAllowed
<1>1. TypeInv /\ AuthorityInv => EnactedOnlyIfAllowed
  BY DEF AuthorityInv, EnactedOnlyIfAllowed, TypeInv, TypeOK
<1> QED
  BY <1>1, TypeInit, TypeStep, AuthorityInit, AuthorityStep, PTL DEF Spec

-----------------------------------------------------------------------------
(* Layer 3: submits under way. *)

\* A request whose submit has not finished was never seen by the guardian, so
\* nothing has touched its record.
FreshInv ==
  /\ \A r \in Requests :
       /\ submit[r] \in {"new", "checked"} => disk[r] = "none"
       /\ submit[r] \in {"new", "checked", "saved"} => mem[r] = "none" /\ r \notin cancelling
       /\ ~up => submit[r] \in {"new", "done"}
  /\ \A r \in published : submit[r] = "done"
  /\ turn.pc \in GrantSteps => turn.req \in published
  /\ \A r \in Requests : spent[r] # "no" => r \in published

LEMMA FreshInit == Init => FreshInv
  BY DEF Init, FreshInv, Free, GrantSteps

LEMMA FreshStep == TypeInv /\ FreshInv /\ [Next]_vars => FreshInv'
<1> SUFFICES ASSUME TypeInv, FreshInv, [Next]_vars
             PROVE  FreshInv'
  OBVIOUS
<1> USE DEF TypeInv
<1>1. ASSUME NEW r \in Requests, SubmitCheck(r) PROVE FreshInv'
  BY <1>1 DEF SubmitCheck, FreshInv, TypeOK, world, counts
<1>2. ASSUME NEW r \in Requests, SubmitPersist(r) PROVE FreshInv'
  BY <1>2 DEF SubmitPersist, FreshInv, TypeOK, world, counts
<1>3. ASSUME NEW r \in Requests, SubmitInsert(r) PROVE FreshInv'
  BY <1>3 DEF SubmitInsert, FreshInv, TypeOK, world, counts
<1>4. ASSUME NEW r \in Requests, SubmitPublish(r) PROVE FreshInv'
  BY <1>4 DEF SubmitPublish, FreshInv, TypeOK, world, counts
<1>5. ASSUME NEW r \in Requests, CancelMark(r) PROVE FreshInv'
  BY <1>5 DEF CancelMark, FreshInv, TypeOK, asks, world, counts
<1>6. ASSUME NEW r \in Requests, CancelPersist(r) PROVE FreshInv'
  <2>1. [disk EXCEPT ![r] = "Cancelled"] \in [Requests -> DiskStates]
    BY DEF TypeOK, DiskStates, MemStates, TerminalStates
  <2>2. mem \in [Requests -> MemStates] /\ disk \in [Requests -> DiskStates]
    BY DEF TypeOK
  <2>3. /\ \A q \in Requests : mem'[q] \in {mem[q], "none"}
        /\ \A q \in Requests \ {r} : disk'[q] \in {disk[q], "none"}
    BY <1>6, <2>1, <2>2, SettleFacts DEF CancelPersist, TypeOK
  <2>4. submit[r] \notin {"new", "checked", "saved"}
    BY <1>6 DEF CancelPersist, FreshInv
  <2> QED
    BY <1>6, <2>3, <2>4 DEF CancelPersist, FreshInv, asks, world, counts
<1>7. ASSUME SweepEffect
      PROVE  \A r \in Requests :
               /\ mem[r] = "none" => mem'[r] = "none"
               /\ mem[r] = "none" => disk'[r] = disk[r]
  BY <1>7 DEF SweepEffect
<1>8. ASSUME Sweeps PROVE FreshInv'
  BY <1>7, <1>8, SweepFacts DEF FreshInv
<1>9. ASSUME NEW r \in Requests, NEW d \in Decisions, RelayGrant(r, d) PROVE FreshInv'
  BY <1>9 DEF RelayGrant, Consume, Handling, FreshInv, TypeOK, asks, counts
<1>10. ASSUME NEW r \in Requests, NEW d \in Decisions, LocalGrant(r, d) PROVE FreshInv'
  <2>1. /\ r \in published /\ Consume(r, d)
        /\ UNCHANGED <<submit, published, cancelling, up>>
        /\ \A q \in Requests :
             /\ mem[q] = "none" => mem'[q] = "none"
             /\ mem[q] = "none" => disk'[q] = disk[q]
    BY <1>7, <1>10, ExpireFacts DEF LocalGrant, asks
  <2>2. turn'.req = r /\ \A q \in Requests : spent'[q] # "no" => spent[q] # "no" \/ q = r
    BY <2>1 DEF Consume, Handling, TypeOK
  <2> QED
    BY <2>1, <2>2 DEF FreshInv
<1>11. ASSUME turn.pc \in GrantSteps, HandlerPersist(turn.req, turn.state),
              turn'.pc \in GrantSteps => turn'.req = turn.req,
              UNCHANGED <<submit, published, cancelling, up, mem, spent>>
       PROVE  FreshInv'
  <2>1. turn \in Grants
    BY <1>11, GrantTurn
  <2>2. turn.req \in Requests /\ turn.state \in DiskStates
    BY <2>1 DEF Grants, DiskStates, MemStates
  <2>3. \A q \in Requests \ {turn.req} : disk'[q] = disk[q]
    BY <1>11, <2>2, HandlerPersistTyped
  <2>4. submit[turn.req] = "done"
    BY <1>11 DEF FreshInv
  <2> QED
    BY <1>11, <2>3, <2>4 DEF FreshInv
<1>12. ASSUME GrantPersist PROVE FreshInv'
  <2>1. turn \in Grants
    BY <1>12, GrantTurn DEF GrantPersist, GrantSteps
  <2> QED
    BY <1>11, <1>12, <2>1 DEF GrantPersist, Grants, GrantSteps, asks, world
<1>13. ASSUME OutcomePersist PROVE FreshInv'
  <2>1. turn \in Grants
    BY <1>13, GrantTurn DEF OutcomePersist, GrantSteps
  <2> QED
    BY <1>11, <1>13, <2>1 DEF OutcomePersist, Grants, GrantSteps, asks, world
<1>14. ASSUME EnactSucceeds \/ EnactRetries \/ EnactFails PROVE FreshInv'
  <2>1. turn \in Grants
    BY <1>14, GrantTurn DEF EnactSucceeds, EnactRetries, EnactFails, GrantSteps
  <2>2. turn.pc \in GrantSteps /\ turn'.req = turn.req
    BY <1>14, <2>1 DEF EnactSucceeds, EnactRetries, EnactFails, Grants
  <2>3. UNCHANGED <<submit, published, cancelling, up, mem, disk, spent>>
    BY <1>14 DEF EnactSucceeds, EnactRetries, EnactFails, asks, world
  <2> QED
    BY <2>2, <2>3 DEF FreshInv
<1>15. ASSUME GrantFinish PROVE FreshInv'
  <2>1. turn \in Grants /\ turn.state \in TerminalStates
    BY <1>15, GrantTurn DEF GrantFinish, GrantSteps, HandlerShape, TerminalStates
  <2>2. WriteBack(turn.req, turn.state) \in [Requests -> MemStates]
    BY <2>1 DEF WriteBack, TypeOK, Grants, MemStates
  <2>3. \A q \in Requests : mem[q] = "none" => WriteBack(turn.req, turn.state)[q] = "none"
    BY DEF WriteBack, TypeOK
  <2>4. \A q \in Requests :
          /\ mem[q] = "none" => mem'[q] = "none"
          /\ mem[q] = "none" => disk'[q] = disk[q]
    BY <1>15, <2>2, <2>3, SettleFacts, DiskTyped DEF GrantFinish, TerminalStates
  <2> QED
    BY <1>15, <2>4 DEF GrantFinish, FreshInv, Free, GrantSteps, asks, world, counts
<1>16. ASSUME Stopped PROVE FreshInv'
  BY <1>16 DEF Stopped, FreshInv, TypeOK, Free, GrantSteps, world
<1>17. ASSUME Boot PROVE FreshInv'
  <2>1. \A r \in Requests :
          disk[r] = "none" => mem'[r] = "none" /\ disk'[r] = "none"
    BY <1>17, BootFacts
  <2>2. \A r \in Requests : submit[r] \in {"new", "checked", "saved"} => disk[r] = "none"
    BY <1>17 DEF FreshInv, Boot
  <2> QED
    BY <1>17, <2>1, <2>2 DEF Boot, FreshInv, asks, world
<1>18. ASSUME Tick \/ PollEnd \/ UNCHANGED vars PROVE FreshInv'
  BY <1>18 DEF Tick, PollEnd, vars, FreshInv, asks, world
<1>19. ASSUME ReleaseMark \/ ReleaseClear PROVE FreshInv'
  BY <1>19 DEF ReleaseMark, ReleaseClear, FreshInv, Free, Clearing, GrantSteps, asks, world
<1> QED
  BY <1>1, <1>2, <1>3, <1>4, <1>5, <1>6, <1>8, <1>9, <1>10, <1>12, <1>13, <1>14, <1>15,
     <1>16, <1>17, <1>18, <1>19
  DEF Next, Handler, Crash, RestartAfterRelease, Sweeps

\* In one run of the daemon a resolved request keeps its outcome, or is pruned:
\* no second thread overwrites it in memory.
THEOREM ResolvedStays == Spec => TerminalSticks
<1> DEFINE Sticks == (up /\ up') => \A r \in Requests :
                       mem[r] \in TerminalStates => mem'[r] \in {mem[r], "none"}
<1>1. TypeInv /\ FreshInv /\ [Next]_vars => [Sticks]_vars
  <2> SUFFICES ASSUME TypeInv, FreshInv, Next, up, up'
               PROVE  \A r \in Requests :
                        mem[r] \in TerminalStates => mem'[r] \in {mem[r], "none"}
    OBVIOUS
  <2> USE DEF TypeInv
  <2>1. ASSUME mem' = mem
        PROVE  \A r \in Requests : mem'[r] = mem[r]
    BY <2>1
  <2>2. ASSUME NEW r \in Requests, SubmitInsert(r)
        PROVE  \A q \in Requests : mem[q] \in TerminalStates => mem'[q] = mem[q]
    BY <2>2 DEF SubmitInsert, FreshInv, TypeOK, TerminalStates
  <2>3. ASSUME NEW r \in Requests, CancelMark(r)
        PROVE  \A q \in Requests : mem[q] \in TerminalStates => mem'[q] = mem[q]
    BY <2>3 DEF CancelMark, TypeOK, TerminalStates
  <2>4. ASSUME NEW r \in Requests, CancelPersist(r)
        PROVE  \A q \in Requests : mem'[q] \in {mem[q], "none"}
    <3>1. [disk EXCEPT ![r] = "Cancelled"] \in [Requests -> DiskStates]
      BY DEF TypeOK, DiskStates, MemStates, TerminalStates
    <3>2. mem \in [Requests -> MemStates] /\ disk \in [Requests -> DiskStates]
      BY DEF TypeOK
    <3> QED
      BY <2>4, <3>1, <3>2, SettleFacts DEF CancelPersist, TypeOK
  <2>5. ASSUME Sweeps \/ ExpireStale
        PROVE  \A q \in Requests : mem[q] \in TerminalStates => mem'[q] \in {mem[q], "none"}
    BY <2>5, ExpireFacts, SweepFacts DEF SweepEffect
  <2>6. ASSUME GrantFinish
        PROVE  \A q \in Requests : mem[q] \in TerminalStates => mem'[q] \in {mem[q], "none"}
    <3>1. turn \in Grants /\ turn.state \in TerminalStates
      BY <2>6, GrantTurn DEF GrantFinish, GrantSteps, HandlerShape, TerminalStates
    <3>2. WriteBack(turn.req, turn.state) \in [Requests -> MemStates]
      BY <3>1 DEF WriteBack, TypeOK, Grants, MemStates
    <3>3. \A q \in Requests :
            mem[q] \in TerminalStates => WriteBack(turn.req, turn.state)[q] = mem[q]
      BY DEF WriteBack, TypeOK, TerminalStates
    <3> QED
      BY <2>6, <3>2, <3>3, SettleFacts, DiskTyped DEF GrantFinish
  <2> QED
    BY <2>1, <2>2, <2>3, <2>4, <2>5, <2>6
    DEF Next, Handler, Tick, SubmitCheck, SubmitPersist, SubmitPublish, Sweeps, PollEnd,
        RelayGrant, LocalGrant, GrantPersist, EnactSucceeds, EnactRetries, EnactFails,
        OutcomePersist, ReleaseMark, ReleaseClear, Crash, RestartAfterRelease, Stopped, Boot
<1> QED
  BY <1>1, TypeInit, TypeStep, FreshInit, FreshStep, PTL DEF Spec, TerminalSticks

-----------------------------------------------------------------------------
(* What the steps of the later layers have in common. *)

\* A grant step never changes which request the turn is on.
LEMMA EnactStepFacts ==
  ASSUME TypeInv, EnactSucceeds \/ EnactRetries \/ EnactFails
  PROVE  /\ turn \in Grants /\ turn.pc = "enacting" /\ turn' \in Grants
         /\ turn'.req = turn.req
         /\ UNCHANGED <<up, mem, disk, spent, submit, published, resolved, released, lost>>
<1>1. turn \in Grants /\ turn.pc = "enacting"
  BY GrantTurn DEF EnactSucceeds, EnactRetries, EnactFails, GrantSteps, TypeInv
<1>2. turn'.req = turn.req /\ turn'.pc \in GrantSteps
  BY <1>1 DEF EnactSucceeds, EnactRetries, EnactFails, Grants, GrantSteps
<1>3. TypeOK'
  <2>1. Next
    BY DEF Next, Handler
  <2> QED
    BY <2>1, TypeStep DEF TypeInv
<1>4. turn' \in Grants
  BY <1>2, <1>3 DEF TypeOK, Turns, Free, Clearing, Grants, GrantSteps
<1> QED
  BY <1>1, <1>2, <1>4 DEF EnactSucceeds, EnactRetries, EnactFails, asks, world

\* So do the two persists; the record of that request, and no other, is written.
LEMMA PersistStepFacts ==
  ASSUME TypeInv, GrantPersist \/ OutcomePersist
  PROVE  /\ turn \in Grants /\ turn.state \in {"Enacting", "Enacted", "Denied", "Failed"}
         /\ turn' \in Grants
         /\ turn'.req = turn.req /\ turn'.state = turn.state
         /\ turn'.pc = "enacting" => turn.state = "Enacting"
         /\ \A q \in Requests :
              disk'[q] = disk[q] \/ (q = turn.req /\ disk'[q] = turn.state)
         /\ lost' >= lost
         /\ lost' = lost => disk'[turn.req] = turn.state
         /\ UNCHANGED <<up, mem, spent, effects, submit, published, resolved, released>>
<1>1. turn \in Grants /\ turn.state \in {"Enacting", "Enacted", "Denied", "Failed"}
  BY GrantTurn DEF GrantPersist, OutcomePersist, GrantSteps, TypeInv, HandlerShape
<1>2. turn'.req = turn.req /\ turn'.state = turn.state /\ turn'.pc \in GrantSteps
  BY <1>1 DEF GrantPersist, OutcomePersist, Grants, GrantSteps
<1>3. turn'.pc = "enacting" => turn.state = "Enacting"
  BY <1>1 DEF GrantPersist, OutcomePersist, Grants
<1>4. TypeOK'
  <2>1. Next
    BY DEF Next, Handler
  <2> QED
    BY <2>1, TypeStep DEF TypeInv
<1>5. turn' \in Grants
  BY <1>2, <1>4 DEF TypeOK, Turns, Free, Clearing, Grants, GrantSteps
<1>6. turn.req \in Requests /\ turn.state \in DiskStates
  BY <1>1 DEF Grants, DiskStates, MemStates
<1>7. HandlerPersist(turn.req, turn.state)
  BY DEF GrantPersist, OutcomePersist
<1>8. /\ lost' >= lost
      /\ \A q \in Requests : disk'[q] = disk[q] \/ (q = turn.req /\ disk'[q] = turn.state)
      /\ lost' = lost => disk'[turn.req] = turn.state
  BY <1>6, <1>7, HandlerPersistTyped DEF TypeInv
<1> QED
  BY <1>1, <1>2, <1>3, <1>5, <1>8 DEF GrantPersist, OutcomePersist, asks, world

\* A grant's last step: the live record takes the outcome only if it is still
\* waiting, and then the history is pruned.
LEMMA FinishFacts ==
  ASSUME TypeInv, GrantFinish
  PROVE  /\ turn \in Grants /\ turn.state \in {"Enacted", "Denied", "Failed"}
         /\ turn' = Free
         /\ \A q \in Requests :
              \/ mem'[q] = mem[q] /\ (mem[q] = "Pending" => q # turn.req)
              \/ q = turn.req /\ mem[q] = "Pending" /\ mem'[q] = turn.state
              \/ mem'[q] = "none" /\ q \in resolved'
         /\ \A q \in Requests :
              disk'[q] = disk[q] \/ (disk'[q] = "none" /\ q \in resolved')
         /\ resolved \subseteq resolved'
         /\ lost' >= lost
         /\ UNCHANGED <<up, spent, effects, submit, published, released>>
<1>1. turn \in Grants /\ turn.state \in {"Enacted", "Denied", "Failed"}
  BY GrantTurn DEF GrantFinish, GrantSteps, HandlerShape, TypeInv
<1> DEFINE m == WriteBack(turn.req, turn.state)
<1>2. m \in [Requests -> MemStates]
  BY <1>1 DEF WriteBack, TypeInv, TypeOK, Grants, MemStates, TerminalStates
<1>3. \A q \in Requests :
        \/ m[q] = mem[q] /\ (mem[q] = "Pending" => q # turn.req)
        \/ q = turn.req /\ mem[q] = "Pending" /\ m[q] = turn.state
  BY <1>1 DEF WriteBack, TypeInv, TypeOK
<1>4. /\ resolved' = resolved \cup Terminal(m)
      /\ lost' >= lost + 0
      /\ \A q \in Requests :
           \/ mem'[q] = m[q]
           \/ m[q] \in TerminalStates /\ mem'[q] = "none"
      /\ \A q \in Requests :
           \/ disk'[q] = disk[q]
           \/ m[q] \in TerminalStates /\ mem'[q] = "none" /\ disk'[q] = "none"
  BY <1>2, SettleFacts, DiskTyped DEF GrantFinish, TypeInv
<1> HIDE DEF m
<1>5. \A q \in Requests : m[q] \in TerminalStates => q \in resolved'
  BY <1>4 DEF Terminal
<1>6. lost' >= lost
  BY <1>4 DEF TypeInv, TypeOK
<1>7. resolved \subseteq resolved' /\ turn' = Free
      /\ UNCHANGED <<up, spent, effects, submit, published, released>>
  BY <1>4 DEF GrantFinish, asks, world
<1> QED
  BY <1>1, <1>3, <1>4, <1>5, <1>6, <1>7

\* A cancel's persist: the snapshot is stored, or lost, and the history pruned.
LEMMA CancelPersistFacts ==
  ASSUME TypeInv, NEW r \in Requests, CancelPersist(r)
  PROVE  /\ \A q \in Requests : mem'[q] = mem[q] \/ (mem'[q] = "none" /\ q \in resolved')
         /\ \A q \in Requests :
              \/ disk'[q] = disk[q]
              \/ q = r /\ disk'[q] = "Cancelled"
              \/ disk'[q] = "none" /\ q \in resolved'
         /\ resolved \subseteq resolved'
         /\ lost' >= lost
         /\ UNCHANGED <<up, turn, spent, effects, submit, published, released>>
<1> DEFINE d == [disk EXCEPT ![r] = "Cancelled"]
<1>1. d \in [Requests -> DiskStates] /\ disk \in [Requests -> DiskStates]
      /\ mem \in [Requests -> MemStates]
  BY DEF TypeInv, TypeOK, DiskStates, MemStates, TerminalStates
<1>2. \A q \in Requests : d[q] = disk[q] \/ (q = r /\ d[q] = "Cancelled")
  BY <1>1
<1>3. ASSUME NEW e \in [Requests -> DiskStates], NEW n \in Nat, Settle(mem, e, n)
      PROVE  /\ \A q \in Requests : mem'[q] = mem[q] \/ (mem'[q] = "none" /\ q \in resolved')
             /\ \A q \in Requests : disk'[q] = e[q] \/ (disk'[q] = "none" /\ q \in resolved')
             /\ resolved \subseteq resolved'
             /\ lost' >= lost
  <2>1. /\ lost' >= lost + n
        /\ resolved' = resolved \cup Terminal(mem)
        /\ \A q \in Requests :
             \/ mem'[q] = mem[q]
             \/ mem[q] \in TerminalStates /\ mem'[q] = "none"
        /\ \A q \in Requests :
             \/ disk'[q] = e[q]
             \/ mem[q] \in TerminalStates /\ mem'[q] = "none" /\ disk'[q] = "none"
    BY <1>1, <1>3, SettleFacts DEF TypeInv
  <2>2. lost' >= lost
    <3>1. lost \in Nat /\ lost' \in Nat
      BY <1>1, <1>3, SettleFacts, NumbersAssumption DEF TypeInv, TypeOK
    <3> QED
      BY <2>1, <3>1
  <2> QED
    BY <2>1, <2>2 DEF Terminal
<1> HIDE DEF d
<1>4. Settle(mem, d, 0) \/ Settle(mem, disk, 1)
  BY DEF CancelPersist, d
<1>5. UNCHANGED <<up, turn, spent, effects, submit, published, released>>
  BY DEF CancelPersist, asks, world
<1> QED
  BY <1>1, <1>2, <1>3, <1>4, <1>5

\* What the steps off the turn do to what the later layers speak of.
LEMMA SubmitFacts ==
  ASSUME TypeInv, NEW r \in Requests,
         SubmitCheck(r) \/ SubmitPersist(r) \/ SubmitInsert(r) \/ SubmitPublish(r)
  PROVE  /\ \A q \in Requests :
              \/ mem'[q] = mem[q]
              \/ q = r /\ submit[q] = "saved" /\ mem'[q] = "Pending"
         /\ \A q \in Requests :
              \/ disk'[q] = disk[q]
              \/ q = r /\ submit[q] = "checked" /\ disk'[q] = "Pending"
         /\ lost' >= lost
         /\ UNCHANGED <<up, turn, spent, effects, resolved, released>>
  BY DEF SubmitCheck, SubmitPersist, SubmitInsert, SubmitPublish, world, TypeInv, TypeOK

LEMMA MarkFacts ==
  ASSUME TypeInv, NEW r \in Requests, CancelMark(r)
  PROVE  /\ \A q \in Requests : mem'[q] = mem[q] \/ (q = r /\ mem'[q] = "Cancelled")
         /\ resolved \subseteq resolved'
         /\ UNCHANGED <<up, disk, turn, spent, effects, submit, published, released, lost>>
  BY DEF CancelMark, asks, world, TypeInv, TypeOK

\* A grant is taken up: its request is waiting, unspent and published.
LEMMA GrantFacts ==
  ASSUME TypeInv, NEW r \in Requests, NEW d \in Decisions, RelayGrant(r, d) \/ LocalGrant(r, d)
  PROVE  /\ turn = Free /\ ~released /\ up /\ r \in published
         /\ spent[r] = "no" /\ spent' = [spent EXCEPT ![r] = d]
         /\ turn'.pc = "verified" /\ turn'.req = r
         /\ turn'.state = IF d = "allow" THEN "Enacting" ELSE "Denied"
         /\ turn' \notin {Free, Clearing}
         /\ mem'[r] = "Pending"
         /\ \A q \in Requests :
              \/ mem'[q] = mem[q]
              \/ mem[q] = "Pending" /\ mem'[q] = "Expired"
              \/ mem'[q] = "none" /\ q \in resolved'
         /\ \A q \in Requests :
              \/ disk'[q] = disk[q]
              \/ mem[q] = "Pending" /\ disk'[q] = "Expired"
              \/ disk'[q] = "none" /\ q \in resolved'
         /\ resolved \subseteq resolved'
         /\ lost' >= lost
         /\ UNCHANGED <<up, effects, submit, published, released>>
<1>1. /\ turn = Free /\ ~released /\ up /\ r \in published /\ Consume(r, d)
      /\ UNCHANGED <<up, effects, submit, published, released>>
  BY DEF RelayGrant, LocalGrant, asks
<1>2. /\ spent[r] = "no" /\ spent' = [spent EXCEPT ![r] = d]
      /\ turn'.pc = "verified" /\ turn'.req = r
      /\ turn'.state = IF d = "allow" THEN "Enacting" ELSE "Denied"
  BY <1>1 DEF Consume, Handling
<1>3. turn' \notin {Free, Clearing}
  BY <1>2 DEF Free, Clearing
<1>4. CASE RelayGrant(r, d)
  <2>1. mem[r] = "Pending" /\ lost' >= lost /\ UNCHANGED <<mem, disk, resolved, lost>>
    BY <1>4 DEF RelayGrant, TypeInv, TypeOK
  <2> QED
    BY <1>1, <1>2, <1>3, <2>1
<1>5. CASE LocalGrant(r, d)
  <2>1. ExpireStale /\ Swept(mem)[r] = "Pending"
    BY <1>5 DEF LocalGrant
  <2> QED
    BY <1>1, <1>2, <1>3, <2>1, ExpireFacts DEF SweepEffect, TypeInv
<1> QED
  BY <1>4, <1>5

\* A step that says nothing of requests.
Idle ==
  \/ Tick \/ PollEnd \/ UNCHANGED vars
  \/ ReleaseMark \/ ReleaseClear

LEMMA IdleFacts ==
  ASSUME TypeInv, Idle
  PROVE  /\ turn' = turn \/ (turn \in {Free, Clearing} /\ turn' \in {Free, Clearing})
         /\ released' => released \/ turn' = Clearing
         /\ turn' # turn => up
         /\ lost' >= lost
         /\ UNCHANGED <<up, mem, disk, spent, effects, submit, published, resolved>>
<1>1. ASSUME Tick \/ PollEnd \/ UNCHANGED vars
      PROVE  UNCHANGED <<turn, released, lost, up, mem, disk, spent, effects, submit,
                         published, resolved>>
  BY <1>1 DEF Tick, PollEnd, vars, asks, world
<1>2. lost \in Nat
  BY NumbersAssumption DEF TypeInv, TypeOK
<1> QED
  BY <1>1, <1>2 DEF Idle, ReleaseMark, ReleaseClear, asks, world

\* Every step of the broker is one of these.
LEMMA Steps ==
  ASSUME [Next]_vars
  PROVE  \/ \E r \in Requests : SubmitCheck(r) \/ SubmitPersist(r)
                                  \/ SubmitInsert(r) \/ SubmitPublish(r)
         \/ \E r \in Requests : CancelMark(r)
         \/ \E r \in Requests : CancelPersist(r)
         \/ Sweeps
         \/ \E r \in Requests, d \in Decisions : RelayGrant(r, d) \/ LocalGrant(r, d)
         \/ GrantPersist \/ OutcomePersist
         \/ EnactSucceeds \/ EnactRetries \/ EnactFails
         \/ GrantFinish
         \/ Stopped
         \/ Boot
         \/ Idle
  BY DEF Next, Handler, Crash, RestartAfterRelease, Idle, Sweeps

-----------------------------------------------------------------------------
(* Layer 4: the turn. *)

\* A request in a handler's hands is not expired under it; a released broker
\* has no handler, nor has a stopped one.
TurnInv ==
  /\ \A r \in Requests : InFlight(r) => mem[r] # "Expired"
  /\ released => turn \in {Free, Clearing}
  /\ ~up => turn = Free

LEMMA TurnInit == Init => TurnInv
  BY DEF Init, TurnInv, InFlight

LEMMA TurnStep == TypeInv /\ TurnInv /\ [Next]_vars => TurnInv'
<1> SUFFICES ASSUME TypeInv, TurnInv, [Next]_vars
             PROVE  TurnInv'
  OBVIOUS
<1>1. ASSUME NEW r \in Requests,
             SubmitCheck(r) \/ SubmitPersist(r) \/ SubmitInsert(r) \/ SubmitPublish(r)
      PROVE  TurnInv'
  BY <1>1, SubmitFacts DEF TurnInv, InFlight
<1>2. ASSUME NEW r \in Requests, CancelMark(r) PROVE TurnInv'
  BY <1>2, MarkFacts DEF TurnInv, InFlight
<1>3. ASSUME NEW r \in Requests, CancelPersist(r) PROVE TurnInv'
  BY <1>3, CancelPersistFacts DEF TurnInv, InFlight
<1>4. ASSUME Sweeps PROVE TurnInv'
  BY <1>4, SweepFacts DEF TypeInv, TurnInv, InFlight
<1>5. ASSUME NEW r \in Requests, NEW d \in Decisions, RelayGrant(r, d) \/ LocalGrant(r, d)
      PROVE  TurnInv'
  BY <1>5, GrantFacts DEF TurnInv, InFlight
<1>6. ASSUME GrantPersist \/ OutcomePersist PROVE TurnInv'
  <2>1. turn \notin {Free, Clearing}
    BY <1>6, GrantTurn DEF TypeInv, GrantPersist, OutcomePersist, GrantSteps
  <2> QED
    BY <1>6, <2>1, PersistStepFacts DEF TurnInv, InFlight
<1>7. ASSUME EnactSucceeds \/ EnactRetries \/ EnactFails PROVE TurnInv'
  <2>1. turn \notin {Free, Clearing}
    BY <1>7, GrantTurn
    DEF TypeInv, EnactSucceeds, EnactRetries, EnactFails, GrantSteps
  <2> QED
    BY <1>7, <2>1, EnactStepFacts DEF TurnInv, InFlight
<1>8. ASSUME GrantFinish \/ Stopped PROVE TurnInv'
  <2>1. turn' = Free
    BY <1>8 DEF GrantFinish, Stopped
  <2> QED
    BY <2>1 DEF TurnInv, InFlight
<1>9. ASSUME Boot PROVE TurnInv'
  BY <1>9 DEF Boot, TurnInv, InFlight
<1>10. ASSUME Idle PROVE TurnInv'
  BY <1>10, IdleFacts DEF TurnInv, InFlight
<1> QED
  BY <1>1, <1>2, <1>3, <1>4, <1>5, <1>6, <1>7, <1>8, <1>9, <1>10, Steps

\* The sweep never expires a request whose grant is being enacted.
THEOREM SweepSparesInFlight == Spec => []NeverExpiredInFlight
<1>1. TurnInv => NeverExpiredInFlight
  BY DEF TurnInv, NeverExpiredInFlight
<1> QED
  BY <1>1, TypeInit, TypeStep, TurnInit, TurnStep, PTL DEF Spec

\* After a release no grant is consumed and nothing is enacted.
THEOREM ReleasedIsInert == Spec => NothingAfterRelease
<1>1. TypeInv /\ TurnInv /\ [Next]_vars => [released => UNCHANGED <<spent, effects>>]_vars
  <2> SUFFICES ASSUME TypeInv, TurnInv, [Next]_vars, released
               PROVE  UNCHANGED <<spent, effects>>
    BY DEF TypeInv, TypeOK
  <2>1. ~(EnactSucceeds \/ EnactRetries \/ EnactFails)
    <3>1. turn.pc # "enacting"
      BY DEF TurnInv, Free, Clearing
    <3> QED
      BY <3>1 DEF EnactSucceeds, EnactRetries, EnactFails
  <2>2. ASSUME NEW r \in Requests, NEW d \in Decisions, RelayGrant(r, d) \/ LocalGrant(r, d)
        PROVE  FALSE
    BY <2>2 DEF RelayGrant, LocalGrant
  <2>3. Sweeps \/ Stopped \/ Boot => UNCHANGED <<spent, effects>>
    BY SweepFacts DEF TypeInv, Stopped, Boot, world
  <2>4. ASSUME NEW r \in Requests,
               \/ SubmitCheck(r) \/ SubmitPersist(r) \/ SubmitInsert(r) \/ SubmitPublish(r)
               \/ CancelMark(r) \/ CancelPersist(r)
        PROVE  UNCHANGED <<spent, effects>>
    BY <2>4, SubmitFacts, MarkFacts, CancelPersistFacts
  <2>5. GrantPersist \/ OutcomePersist \/ GrantFinish \/ Idle => UNCHANGED <<spent, effects>>
    BY PersistStepFacts, FinishFacts, IdleFacts
  <2> QED
    BY <2>1, <2>2, <2>3, <2>4, <2>5, Steps
<1> QED
  BY <1>1, TypeInit, TypeStep, TurnInit, TurnStep, PTL DEF Spec, NothingAfterRelease

-----------------------------------------------------------------------------
(* Layer 5: outcomes. *)

\* A record, or a handler's clone of one, that says Enacted was enacted; one
\* that says Denied was denied.
OutcomeInv ==
  /\ \A r \in Requests :
       /\ mem[r] = "Enacted" \/ disk[r] = "Enacted" => effects[r] = 1
       /\ mem[r] = "Denied" \/ disk[r] = "Denied" => spent[r] = "deny"
  /\ turn.pc \in GrantSteps =>
       /\ turn.state = "Enacted" => effects[turn.req] = 1
       /\ turn.state = "Denied" => spent[turn.req] = "deny"

LEMMA OutcomeInit == Init => OutcomeInv
  BY DEF Init, OutcomeInv, Free, GrantSteps

LEMMA OutcomeStep ==
  TypeInv /\ AuthorityInv /\ OutcomeInv /\ [Next]_vars => OutcomeInv'
<1> SUFFICES ASSUME TypeInv, AuthorityInv, OutcomeInv, [Next]_vars
             PROVE  OutcomeInv'
  OBVIOUS
<1>1. ASSUME NEW r \in Requests,
             SubmitCheck(r) \/ SubmitPersist(r) \/ SubmitInsert(r) \/ SubmitPublish(r)
      PROVE  OutcomeInv'
  BY <1>1, SubmitFacts DEF OutcomeInv
<1>2. ASSUME NEW r \in Requests, CancelMark(r) PROVE OutcomeInv'
  BY <1>2, MarkFacts DEF OutcomeInv
<1>3. ASSUME NEW r \in Requests, CancelPersist(r) PROVE OutcomeInv'
  BY <1>3, CancelPersistFacts DEF OutcomeInv
<1>4. ASSUME Sweeps PROVE OutcomeInv'
  <2>1. SweepEffect /\ UNCHANGED <<turn, spent, effects>>
    BY <1>4, SweepFacts DEF TypeInv
  <2>2. \A r \in Requests : mem'[r] \in {mem[r], "Expired", "none"}
                            /\ disk'[r] \in {disk[r], "Expired", "none"}
    BY <2>1 DEF SweepEffect
  <2> QED
    BY <2>1, <2>2 DEF OutcomeInv
<1>5. ASSUME NEW r \in Requests, NEW d \in Decisions, RelayGrant(r, d) \/ LocalGrant(r, d)
      PROVE  OutcomeInv'
  <2>1. spent \in [Requests -> Decisions \cup {"no"}]
    BY DEF TypeInv, TypeOK
  <2>2. \A q \in Requests : /\ q = r => spent'[q] = d
                            /\ q # r => spent'[q] = spent[q]
    BY <1>5, <2>1, GrantFacts
  <2>3. \A q \in Requests : mem'[q] \in {mem[q], "Expired", "none"}
                            /\ disk'[q] \in {disk[q], "Expired", "none"}
    BY <1>5, GrantFacts
  <2>4. /\ spent[r] = "no" /\ effects' = effects
        /\ turn'.req = r
        /\ turn'.state = IF d = "allow" THEN "Enacting" ELSE "Denied"
    BY <1>5, GrantFacts
  <2> QED
    BY <2>2, <2>3, <2>4 DEF OutcomeInv, Decisions
<1>6. ASSUME GrantPersist \/ OutcomePersist PROVE OutcomeInv'
  BY <1>6, PersistStepFacts DEF OutcomeInv, Grants
<1>7. ASSUME EnactRetries \/ EnactFails PROVE OutcomeInv'
  <2>1. UNCHANGED effects /\ turn'.state \in {"Enacting", "Failed"}
    BY <1>7, EnactStepFacts
    DEF EnactRetries, EnactFails, Grants, TypeInv, HandlerShape, world
  <2> QED
    BY <1>7, <2>1, EnactStepFacts DEF OutcomeInv
<1>8. ASSUME EnactSucceeds PROVE OutcomeInv'
  <2>1. turn \in Grants /\ turn.pc = "enacting" /\ turn.state = "Enacting"
        /\ turn'.req = turn.req /\ UNCHANGED <<mem, disk, spent>>
    BY <1>8, EnactStepFacts DEF TypeInv, HandlerShape
  <2>2. turn.req \in Requests /\ effects[turn.req] = 0
    BY <2>1 DEF AuthorityInv, Grants
  <2>3. \A q \in Requests : effects'[q] = IF q = turn.req THEN 1 ELSE effects[q]
    BY <1>8, <2>2 DEF EnactSucceeds, TypeInv, TypeOK
  <2>4. turn'.state = "Enacted"
    BY <1>8, <2>1 DEF EnactSucceeds, Grants
  <2> QED
    BY <2>1, <2>2, <2>3, <2>4 DEF OutcomeInv
<1>9. ASSUME GrantFinish PROVE OutcomeInv'
  <2>1. turn.pc \in GrantSteps
    BY <1>9 DEF GrantFinish, GrantSteps
  <2> QED
    BY <1>9, <2>1, FinishFacts DEF OutcomeInv, Free, GrantSteps
<1>10. ASSUME Stopped PROVE OutcomeInv'
  BY <1>10 DEF Stopped, OutcomeInv, Free, GrantSteps, world
<1>11. ASSUME Boot PROVE OutcomeInv'
  <2>1. UNCHANGED <<turn, spent, effects>>
    BY <1>11 DEF Boot, world
  <2> QED
    BY <1>11, <2>1, BootFacts DEF OutcomeInv, TypeInv
<1>12. ASSUME Idle PROVE OutcomeInv'
  BY <1>12, IdleFacts DEF OutcomeInv, Free, Clearing, GrantSteps
<1> QED
  BY <1>1, <1>2, <1>3, <1>4, <1>5, <1>6, <1>7, <1>8, <1>9, <1>10, <1>11, <1>12, Steps

\* A request shown as enacted was enacted, exactly once.
THEOREM ShownEnactedWasEnacted == Spec => []EnactedMeansEffect
<1>1. OutcomeInv => EnactedMeansEffect
  BY DEF OutcomeInv, EnactedMeansEffect
<1> QED
  BY <1>1, TypeInit, TypeStep, AuthorityInit, AuthorityStep, OutcomeInit, OutcomeStep, PTL
  DEF Spec

\* The history cap never evicts a request that is still waiting.
THEOREM PendingStays == Spec => PendingNeverPruned
<1> DEFINE Kept == (up /\ up') => \A r \in Requests :
                     (mem[r] = "Pending" /\ mem'[r] = "none") => r \in resolved'
<1>1. TypeInv /\ [Next]_vars => [Kept]_vars
  <2> SUFFICES ASSUME TypeInv, [Next]_vars, up, up', NEW r \in Requests,
                      mem[r] = "Pending", mem'[r] = "none"
               PROVE  r \in resolved'
    OBVIOUS
  <2>1. ASSUME NEW q \in Requests,
               \/ SubmitCheck(q) \/ SubmitPersist(q) \/ SubmitInsert(q) \/ SubmitPublish(q)
               \/ CancelMark(q) \/ CancelPersist(q)
        PROVE  r \in resolved'
    BY <2>1, SubmitFacts, MarkFacts, CancelPersistFacts
  <2>2. ASSUME Sweeps PROVE r \in resolved'
    BY <2>2, SweepFacts DEF SweepEffect, TypeInv
  <2>3. ASSUME NEW q \in Requests, NEW d \in Decisions, RelayGrant(q, d) \/ LocalGrant(q, d)
        PROVE  r \in resolved'
    BY <2>3, GrantFacts
  <2>4. ASSUME GrantFinish PROVE r \in resolved'
    <3>1. turn.state # "none"
      BY <2>4, FinishFacts
    <3> QED
      BY <2>4, <3>1, FinishFacts
  <2>5. ~Stopped /\ ~Boot
    BY DEF Stopped, Boot
  <2>6. GrantPersist \/ OutcomePersist \/ EnactSucceeds \/ EnactRetries \/ EnactFails \/ Idle
          => mem' = mem
    BY PersistStepFacts, EnactStepFacts, IdleFacts
  <2> QED
    BY <2>1, <2>2, <2>3, <2>4, <2>5, <2>6, Steps
<1> QED
  BY <1>1, TypeInit, TypeStep, PTL DEF Spec, PendingNeverPruned

-----------------------------------------------------------------------------
(* Layer 6: durability. *)

\* A request that has been saved, or published, stays on disk until resolved.
DurableInv ==
  \A r \in Requests \ resolved :
    (r \in published \/ submit[r] \in {"saved", "inserted"}) => disk[r] # "none"

LEMMA DurableInit == Init => DurableInv
  BY DEF Init, DurableInv

LEMMA DurableStep == TypeInv /\ DurableInv /\ [Next]_vars => DurableInv'
<1> SUFFICES ASSUME TypeInv, DurableInv, [Next]_vars
             PROVE  DurableInv'
  OBVIOUS
<1>1. ASSUME NEW r \in Requests, SubmitCheck(r) PROVE DurableInv'
  BY <1>1 DEF SubmitCheck, DurableInv, TypeInv, TypeOK
<1>2. ASSUME NEW r \in Requests, SubmitPersist(r) PROVE DurableInv'
  BY <1>2 DEF SubmitPersist, DurableInv, TypeInv, TypeOK
<1>3. ASSUME NEW r \in Requests, SubmitInsert(r) PROVE DurableInv'
  BY <1>3 DEF SubmitInsert, DurableInv, TypeInv, TypeOK
<1>4. ASSUME NEW r \in Requests, SubmitPublish(r) PROVE DurableInv'
  BY <1>4 DEF SubmitPublish, DurableInv, TypeInv, TypeOK
<1>5. ASSUME NEW r \in Requests, CancelMark(r) PROVE DurableInv'
  BY <1>5, MarkFacts DEF DurableInv
<1>6. ASSUME NEW r \in Requests, CancelPersist(r) PROVE DurableInv'
  BY <1>6, CancelPersistFacts DEF DurableInv
<1>7. ASSUME Sweeps PROVE DurableInv'
  BY <1>7, SweepFacts DEF SweepEffect, TypeInv, DurableInv
<1>8. ASSUME NEW r \in Requests, NEW d \in Decisions, RelayGrant(r, d) \/ LocalGrant(r, d)
      PROVE  DurableInv'
  BY <1>8, GrantFacts DEF DurableInv
<1>9. ASSUME GrantPersist \/ OutcomePersist PROVE DurableInv'
  BY <1>9, PersistStepFacts DEF DurableInv
<1>10. ASSUME EnactSucceeds \/ EnactRetries \/ EnactFails PROVE DurableInv'
  BY <1>10, EnactStepFacts DEF DurableInv
<1>11. ASSUME GrantFinish PROVE DurableInv'
  BY <1>11, FinishFacts DEF DurableInv
<1>12. ASSUME Stopped PROVE DurableInv'
  BY <1>12 DEF Stopped, DurableInv, TypeInv, TypeOK
<1>13. ASSUME Boot PROVE DurableInv'
  <2>1. UNCHANGED <<submit, published>>
    BY <1>13 DEF Boot, asks
  <2> QED
    BY <1>13, <2>1, BootFacts DEF DurableInv, TypeInv
<1>14. ASSUME Idle PROVE DurableInv'
  BY <1>14, IdleFacts DEF DurableInv
<1> QED
  BY <1>1, <1>2, <1>3, <1>4, <1>5, <1>6, <1>7, <1>8, <1>9, <1>10, <1>11, <1>12, <1>13,
     <1>14, Steps

\* M16: no crash strands the answer to a request the guardian can have seen.
THEOREM PublishedStaysDurable == Spec => []PublishedIsDurable
<1>1. TypeInv /\ DurableInv => PublishedIsDurable
  BY DEF DurableInv, PublishedIsDurable, TypeInv, TypeOK
<1> QED
  BY <1>1, TypeInit, TypeStep, DurableInit, DurableStep, PTL DEF Spec

-----------------------------------------------------------------------------
(* Layer 7: disk, memory and effect, while no write has been lost. *)

\* An enacted request is never stored, or shown, as one that is waiting or has
\* expired; only in its own handler's hands is it still Pending in memory.
LedgerInv ==
  lost = 0 =>
    /\ \A r \in Requests : effects[r] = 1 =>
         /\ disk[r] \notin {"Pending", "Expired"}
         /\ mem[r] # "Expired"
         /\ mem[r] = "Pending" => turn.pc \in GrantSteps /\ turn.req = r
    /\ turn.pc = "enacting" => disk[turn.req] \notin {"Pending", "Expired"}

LEMMA LedgerInit == Init => LedgerInv
  BY DEF Init, LedgerInv, Free

LEMMA LedgerStep ==
  TypeInv /\ AuthorityInv /\ FreshInv /\ TurnInv /\ LedgerInv /\ [Next]_vars => LedgerInv'
<1> SUFFICES ASSUME TypeInv, AuthorityInv, FreshInv, TurnInv, LedgerInv, [Next]_vars,
                    lost' = 0
             PROVE  LedgerInv'
  BY DEF LedgerInv
<1> DEFINE Body ==
      /\ \A r \in Requests : effects[r] = 1 =>
           /\ disk[r] \notin {"Pending", "Expired"}
           /\ mem[r] # "Expired"
           /\ mem[r] = "Pending" => turn.pc \in GrantSteps /\ turn.req = r
      /\ turn.pc = "enacting" => disk[turn.req] \notin {"Pending", "Expired"}
<1> SUFFICES Body'
  BY DEF LedgerInv
<1>1. lost' >= lost => lost = 0 /\ Body
  BY DEF LedgerInv, TypeInv, TypeOK
<1>2. \A r \in Requests : submit[r] \in {"checked", "saved"} => effects[r] = 0
  BY DEF FreshInv, AuthorityInv
<1>3. ASSUME turn \in {Free, Clearing} PROVE turn.pc \notin GrantSteps
  BY <1>3 DEF Free, Clearing, GrantSteps
<1>4. ASSUME NEW r \in Requests,
             SubmitCheck(r) \/ SubmitPersist(r) \/ SubmitInsert(r) \/ SubmitPublish(r)
      PROVE  Body'
  <2>1. Body
    BY <1>1, <1>4, SubmitFacts
  <2>2. turn.pc = "enacting" => turn.req \in Requests /\ submit[turn.req] = "done"
    BY GrantTurn DEF FreshInv, GrantSteps, Grants, TypeInv
  <2>3. \A q \in Requests : effects[q] = 1 => mem'[q] = mem[q] /\ disk'[q] = disk[q]
    BY <1>2, <1>4, SubmitFacts
  <2>4. turn.pc = "enacting" => disk'[turn.req] = disk[turn.req]
    BY <1>4, <2>2, SubmitFacts
  <2>5. turn' = turn /\ effects' = effects
    BY <1>4, SubmitFacts
  <2> QED
    BY <2>1, <2>3, <2>4, <2>5
<1>5. ASSUME NEW r \in Requests, CancelMark(r) PROVE Body'
  BY <1>1, <1>5, MarkFacts DEF TypeInv, TypeOK
<1>6. ASSUME NEW r \in Requests, CancelPersist(r) PROVE Body'
  <2>1. Body
    BY <1>1, <1>6, CancelPersistFacts
  <2>2. turn.pc = "enacting" => turn.req \in Requests
    BY GrantTurn DEF TypeInv, GrantSteps, Grants
  <2> QED
    BY <1>6, <2>1, <2>2, CancelPersistFacts
<1>7. ASSUME Sweeps PROVE Body'
  <2>1. SweepEffect /\ turn = Free /\ UNCHANGED <<turn, effects>>
    BY <1>7, SweepFacts DEF TypeInv
  <2>2. Body /\ turn.pc \notin GrantSteps
    BY <1>1, <1>3, <2>1 DEF SweepEffect
  <2>3. turn.pc # "enacting"
    BY <2>2 DEF GrantSteps
  <2> QED
    BY <2>1, <2>2, <2>3 DEF SweepEffect
<1>8. ASSUME NEW r \in Requests, NEW d \in Decisions, RelayGrant(r, d) \/ LocalGrant(r, d)
      PROVE  Body'
  <2>1. Body /\ turn.pc \notin GrantSteps
    BY <1>1, <1>3, <1>8, GrantFacts
  <2> QED
    BY <1>8, <2>1, GrantFacts
<1>9. ASSUME GrantPersist \/ OutcomePersist PROVE Body'
  <2>1. Body /\ lost' = lost
    BY <1>1, <1>9, PersistStepFacts
  <2>2. turn.req \in Requests /\ turn'.pc \in GrantSteps
    BY <1>9, PersistStepFacts DEF Grants
  <2> QED
    BY <1>9, <2>1, <2>2, PersistStepFacts
<1>10. ASSUME EnactRetries \/ EnactFails PROVE Body'
  <2>1. Body /\ UNCHANGED effects
    BY <1>1, <1>10, EnactStepFacts DEF EnactRetries, EnactFails, world, TypeInv, TypeOK
  <2>2. turn'.pc \in GrantSteps
    BY <1>10, EnactStepFacts DEF Grants
  <2> QED
    BY <1>10, <2>1, <2>2, EnactStepFacts
<1>11. ASSUME EnactSucceeds PROVE Body'
  <2>1. Body
    BY <1>1, <1>11, EnactStepFacts DEF TypeInv, TypeOK
  <2>2. turn.req \in Requests /\ turn'.pc \in GrantSteps /\ turn.pc = "enacting"
    BY <1>11, EnactStepFacts DEF Grants
  <2>3. \A q \in Requests \ {turn.req} : effects'[q] = effects[q]
    BY <1>11 DEF EnactSucceeds, TypeInv, TypeOK
  <2>4. mem[turn.req] # "Expired"
    BY <2>2, GrantTurn DEF TurnInv, InFlight, TypeInv, GrantSteps
  <2> QED
    BY <1>11, <2>1, <2>2, <2>3, <2>4, EnactStepFacts
<1>12. ASSUME GrantFinish PROVE Body'
  <2>1. Body
    BY <1>1, <1>12, FinishFacts
  <2> QED
    BY <1>12, <2>1, FinishFacts DEF Free
<1>13. ASSUME Stopped PROVE Body'
  <2>1. Body
    BY <1>1, <1>13 DEF Stopped, TypeInv, TypeOK
  <2> QED
    BY <1>13, <2>1 DEF Stopped, Free, world, TypeInv, TypeOK
<1>14. ASSUME Boot PROVE Body'
  <2>1. Body /\ UNCHANGED <<turn, effects>> /\ turn = Free
    BY <1>1, <1>14, BootFacts DEF Boot, world, TypeInv, TurnInv
  <2>2. turn.pc # "enacting"
    BY <2>1 DEF Free
  <2> QED
    BY <1>14, <2>1, <2>2, BootFacts DEF TypeInv
<1>15. ASSUME Idle PROVE Body'
  <2>1. Body
    BY <1>1, <1>15, IdleFacts
  <2>2. turn' = turn \/ (turn.pc \notin GrantSteps /\ turn'.pc # "enacting")
    BY <1>3, <1>15, IdleFacts DEF Free, Clearing
  <2> QED
    BY <1>15, <2>1, <2>2, IdleFacts
<1> QED
  BY <1>4, <1>5, <1>6, <1>7, <1>8, <1>9, <1>10, <1>11, <1>12, <1>13, <1>14, <1>15, Steps

\* While no write has been lost, a request shown as denied or expired was not
\* enacted, however the process died and restarted.
THEOREM UnansweredHasNoEffect == Spec => []UnansweredMeansNoEffect
<1>1. TypeInv /\ AuthorityInv /\ OutcomeInv /\ LedgerInv => UnansweredMeansNoEffect
  <2> SUFFICES ASSUME TypeInv, AuthorityInv, OutcomeInv, LedgerInv, lost = 0,
                      NEW r \in Requests, mem[r] \in {"Denied", "Expired"}
               PROVE  effects[r] = 0
    BY DEF UnansweredMeansNoEffect
  <2>1. effects[r] \in Nat /\ effects[r] <= 1
    BY DEF TypeInv, TypeOK, AuthorityInv
  <2>2. effects[r] # 1
    BY DEF OutcomeInv, LedgerInv, AuthorityInv
  <2> QED
    BY <2>1, <2>2
<1> QED
  BY <1>1, TypeInit, TypeStep, AuthorityInit, AuthorityStep, FreshInit, FreshStep, TurnInit,
     TurnStep, OutcomeInit, OutcomeStep, LedgerInit, LedgerStep, PTL
  DEF Spec

\* What takes effect was allowed, once, and what is shown agrees with it.
THEOREM EffectsAlwaysRight == Spec => []EffectsAreRight
<1>1. /\ EnactedAtMostOnce /\ EnactedOnlyIfAllowed
      /\ UnansweredMeansNoEffect /\ EnactedMeansEffect
      => EffectsAreRight
  BY DEF EffectsAreRight
<1> QED
  BY <1>1, AtMostOnce, OnlyIfAllowed, UnansweredHasNoEffect, ShownEnactedWasEnacted, PTL

\* A request is resolved once, and leaves the map only when it is.
THEOREM ResolvedOnceOnly == Spec => ResolvedOnce
BY ResolvedStays, PendingStays DEF ResolvedOnce

-----------------------------------------------------------------------------
(* Layer 8: the caps. *)

\* However a prune picks its victims, what it leaves is within the cap.
LEMMA SettleBounds ==
  ASSUME NEW m \in [Requests -> MemStates], NEW d, NEW n, Settle(m, d, n)
  PROVE  Cardinality(Terminal(mem')) <= MaxTerminal
<1>1. PICK V \in Victims(m) : mem' = [r \in Requests |-> IF r \in V THEN "none" ELSE m[r]]
  BY DEF Settle
<1>2. V \subseteq Terminal(m) /\ Cardinality(V) = Excess(m)
  BY DEF Victims
<1>3. Terminal(mem') = Terminal(m) \ V
  BY <1>1, <1>2 DEF Terminal, TerminalStates
<1>4. IsFiniteSet(Terminal(m)) /\ Cardinality(Terminal(m)) \in Nat
  <2>1. Terminal(m) \subseteq Requests
    BY DEF Terminal
  <2> QED
    BY <2>1, RequestsAssumption, FS_Subset, FS_CardinalityType
<1>5. Cardinality(Terminal(mem')) = Cardinality(Terminal(m)) - Cardinality(V)
  <2>1. Terminal(m) \cap V = V
    BY <1>2
  <2> QED
    BY <1>3, <1>4, <2>1, FS_Difference
<1> QED
  BY <1>2, <1>4, <1>5, NumbersAssumption DEF Excess

\* A marked cancel is no longer waiting, and is one record of history; a stopped
\* daemon has no cancel under way.
HistoryInv ==
  /\ HistoryBounded
  /\ \A r \in cancelling : mem[r] # "Pending"
  /\ ~up => cancelling = {}

LEMMA HistoryInit == Init => HistoryInv
<1> SUFFICES ASSUME Init PROVE HistoryInv
  OBVIOUS
<1>1. Terminal(mem) = {} /\ cancelling = {} /\ up
  BY DEF Init, Terminal, TerminalStates
<1> QED
  BY <1>1, FS_EmptySet, NumbersAssumption DEF HistoryInv, HistoryBounded

LEMMA CancellingCounted == TypeOK => IsFiniteSet(cancelling) /\ Cardinality(cancelling) \in Nat
  BY RequestsAssumption, FS_Subset, FS_CardinalityType DEF TypeOK

LEMMA HistoryStep == TypeInv /\ FreshInv /\ HistoryInv /\ [Next]_vars => HistoryInv'
<1> SUFFICES ASSUME TypeInv, FreshInv, HistoryInv, [Next]_vars
             PROVE  HistoryInv'
  OBVIOUS
<1>1. TypeOK /\ TypeOK'
  BY TypeStep DEF TypeInv
<1>2. /\ Cardinality(cancelling) \in Nat /\ Cardinality(cancelling') \in Nat
      /\ IsFiniteSet(cancelling)
  <2>1. cancelling' \subseteq Requests
    BY <1>1 DEF TypeOK
  <2> QED
    BY <1>1, <2>1, CancellingCounted, RequestsAssumption, FS_Subset, FS_CardinalityType
<1>3. /\ mem \in [Requests -> MemStates] /\ mem' \in [Requests -> MemStates]
      /\ Cardinality(Terminal(mem)) \in Nat /\ IsFiniteSet(Terminal(mem))
      /\ Cardinality(Terminal(mem')) \in Nat
  <2>1. Terminal(mem) \subseteq Requests /\ Terminal(mem') \subseteq Requests
    BY DEF Terminal
  <2> QED
    BY <1>1, <2>1, RequestsAssumption, FS_Subset, FS_CardinalityType DEF TypeOK
\* A prune restores the cap, and makes nothing wait again.
<1>4. ASSUME NEW m \in [Requests -> MemStates], NEW d, NEW n, Settle(m, d, n)
      PROVE  HistoryBounded'
  <2>1. Cardinality(Terminal(mem')) <= MaxTerminal
    BY <1>4, SettleBounds
  <2> QED
    BY <1>2, <1>3, <2>1, NumbersAssumption DEF HistoryBounded, Terminal
<1>5. ASSUME mem' = mem, cancelling' = cancelling, up' = up PROVE HistoryInv'
  BY <1>5 DEF HistoryInv, HistoryBounded, Terminal
<1>6. ASSUME cancelling' \subseteq cancelling, up' = up, HistoryBounded',
             \A q \in Requests : mem'[q] = "Pending" => mem[q] = "Pending"
      PROVE  HistoryInv'
  BY <1>1, <1>6 DEF HistoryInv, TypeOK
<1>7. ASSUME NEW r \in Requests, CancelMark(r) PROVE HistoryInv'
  <2>1. /\ mem[r] = "Pending" /\ mem' = [mem EXCEPT ![r] = "Cancelled"]
        /\ cancelling' = cancelling \cup {r} /\ up /\ up'
    BY <1>7 DEF CancelMark
  <2>2. r \notin cancelling
    BY <2>1 DEF HistoryInv
  <2>3. r \notin Terminal(mem) /\ Terminal(mem') = Terminal(mem) \cup {r}
    BY <1>3, <2>1 DEF Terminal, TerminalStates
  <2>4. /\ Cardinality(Terminal(mem')) = Cardinality(Terminal(mem)) + 1
        /\ Cardinality(cancelling') = Cardinality(cancelling) + 1
    BY <1>2, <1>3, <2>1, <2>2, <2>3, FS_AddElement
  <2>5. Cardinality(Terminal(mem)) <= MaxTerminal + Cardinality(cancelling)
    BY DEF HistoryInv, HistoryBounded
  <2>6. Cardinality(Terminal(mem')) <= MaxTerminal + Cardinality(cancelling')
    BY <1>2, <1>3, <2>4, <2>5, NumbersAssumption
  <2>7. \A q \in cancelling' : mem'[q] # "Pending"
    BY <1>3, <2>1 DEF HistoryInv
  <2> QED
    BY <2>1, <2>6, <2>7 DEF HistoryInv, HistoryBounded, Terminal
<1>8. ASSUME NEW r \in Requests, CancelPersist(r) PROVE HistoryInv'
  <2>1. [disk EXCEPT ![r] = "Cancelled"] \in [Requests -> DiskStates] /\ disk \in [Requests -> DiskStates]
    BY <1>1 DEF TypeOK, DiskStates, MemStates, TerminalStates
  <2>2. \A q \in Requests : mem'[q] = "Pending" => mem[q] = "Pending"
    BY <1>1, <1>3, <1>8, <2>1, SettleFacts DEF CancelPersist
  <2>3. cancelling' \subseteq cancelling /\ up' = up
    BY <1>8 DEF CancelPersist
  <2>4. HistoryBounded'
    BY <1>3, <1>4, <1>8 DEF CancelPersist
  <2> QED
    BY <1>6, <2>2, <2>3, <2>4
<1>9. ASSUME ExpireStale \/ Settle(mem, disk, 0), cancelling' = cancelling, up' = up
      PROVE  HistoryInv'
  <2>1. CASE mem' = mem
    BY <1>5, <1>9, <2>1
  <2>2. CASE mem' # mem
    <3>1. Swept(mem) \in [Requests -> MemStates]
      BY <1>3 DEF Swept, MemStates, TerminalStates
    <3>2. HistoryBounded'
      <4>1. CASE Settle(mem, disk, 0)
        BY <1>3, <1>4, <4>1
      <4>2. CASE ExpireStale
        <5>1. PICK failed \in SUBSET Stale(mem) :
                Settle(Swept(mem), SaveStates(disk, Swept(mem), Stale(mem) \ failed),
                       Cardinality(failed))
          BY <2>2, <4>2 DEF ExpireStale
        <5> QED
          BY <1>4, <3>1, <5>1
      <4> QED
        BY <1>9, <4>1, <4>2
    <3>3. SweepEffect
      BY <1>1, <1>9, ExpireFacts, PruneFacts
    <3>4. \A q \in Requests : mem'[q] = "Pending" => mem[q] = "Pending"
      BY <3>3 DEF SweepEffect
    <3> QED
      BY <1>6, <1>9, <3>2, <3>4
  <2> QED
    BY <2>1, <2>2
<1>10. ASSUME Sweeps PROVE HistoryInv'
  BY <1>9, <1>10 DEF Sweeps, PollSweep, RejectGrant
<1>11. ASSUME NEW r \in Requests, NEW d \in Decisions, RelayGrant(r, d) \/ LocalGrant(r, d)
       PROVE  HistoryInv'
  BY <1>5, <1>9, <1>11 DEF RelayGrant, LocalGrant
<1>12. ASSUME GrantFinish PROVE HistoryInv'
  <2>1. turn \in Grants /\ turn.state \in TerminalStates
    BY <1>1, <1>12, GrantTurn
    DEF GrantFinish, GrantSteps, HandlerShape, TypeInv, TerminalStates
  <2>2. WriteBack(turn.req, turn.state) \in [Requests -> MemStates]
    BY <1>3, <2>1 DEF WriteBack, Grants, MemStates
  <2>3. \A q \in Requests : WriteBack(turn.req, turn.state)[q] = "Pending" => mem[q] = "Pending"
    BY <1>3 DEF WriteBack
  <2>4. \A q \in Requests : mem'[q] = "Pending" => mem[q] = "Pending"
    BY <1>1, <1>12, <2>2, <2>3, SettleFacts, DiskTyped DEF GrantFinish
  <2>5. HistoryBounded' /\ cancelling' = cancelling /\ up' = up
    BY <1>4, <1>12, <2>2 DEF GrantFinish
  <2> QED
    BY <1>6, <2>4, <2>5
<1>13. ASSUME NEW r \in Requests, SubmitInsert(r) PROVE HistoryInv'
  <2>1. /\ mem[r] = "none" /\ r \notin cancelling /\ mem' = [mem EXCEPT ![r] = "Pending"]
        /\ cancelling' = cancelling /\ up' = up
    BY <1>13 DEF SubmitInsert, FreshInv
  <2>2. Terminal(mem') = Terminal(mem)
    BY <1>3, <2>1 DEF Terminal, TerminalStates
  <2>3. \A q \in cancelling' : mem'[q] # "Pending"
    BY <1>3, <2>1 DEF HistoryInv
  <2> QED
    BY <2>1, <2>2, <2>3 DEF HistoryInv, HistoryBounded, Terminal
<1>14. ASSUME Stopped PROVE HistoryInv'
  <2>1. Terminal(mem') = {} /\ cancelling' = {}
    BY <1>14 DEF Stopped, Terminal, TerminalStates
  <2> QED
    BY <2>1, FS_EmptySet, NumbersAssumption DEF HistoryInv, HistoryBounded, Terminal
<1>15. ASSUME Boot PROVE HistoryInv'
  <2>1. PICK failed :
          Settle(Swept(Loaded),
                 SaveStates(disk, Swept(Loaded),
                            {r \in Requests : Swept(Loaded)[r] # disk[r]} \ failed),
                 Cardinality(failed))
    BY <1>15 DEF Boot
  <2>2. Swept(Loaded) \in [Requests -> MemStates]
    BY <1>1 DEF Swept, Loaded, TypeOK, MemStates, DiskStates, TerminalStates
  <2>3. HistoryBounded' /\ cancelling' = {}
    BY <1>4, <1>15, <2>1, <2>2 DEF Boot, HistoryInv
  <2> QED
    BY <2>3 DEF HistoryInv
<1>16. ASSUME \/ \E r \in Requests : SubmitCheck(r) \/ SubmitPersist(r) \/ SubmitPublish(r)
              \/ GrantPersist \/ OutcomePersist
              \/ EnactSucceeds \/ EnactRetries \/ EnactFails
              \/ Idle
       PROVE  HistoryInv'
  <2>1. mem' = mem /\ cancelling' = cancelling /\ up' = up
    BY <1>16
    DEF SubmitCheck, SubmitPersist, SubmitPublish, GrantPersist, OutcomePersist,
        EnactSucceeds, EnactRetries, EnactFails, Idle, Tick, PollEnd, ReleaseMark,
        ReleaseClear, vars
  <2> QED
    BY <1>5, <2>1
<1> QED
  BY <1>7, <1>8, <1>10, <1>11, <1>12, <1>13, <1>14, <1>15, <1>16, Steps

\* The asks of one caller that still count against the hour.
Counted(c) == {r \in stamped : Owner[r] = c /\ now <= born[r] + Window}

LEMMA SubmitsInit == Init => SubmitsBounded
<1> SUFFICES ASSUME Init, NEW c \in Callers PROVE Cardinality(Counted(c)) <= MaxSubmits
  BY DEF SubmitsBounded, Counted
<1>1. Counted(c) = {}
  BY DEF Init, Counted
<1> QED
  BY <1>1, FS_EmptySet, NumbersAssumption

LEMMA SubmitsStep == TypeInv /\ SubmitsBounded /\ [Next]_vars => SubmitsBounded'
<1> SUFFICES ASSUME TypeInv, SubmitsBounded, [Next]_vars, NEW c \in Callers
             PROVE  Cardinality(Counted(c)') <= MaxSubmits
  BY DEF SubmitsBounded, Counted
<1>1. /\ IsFiniteSet(Counted(c)) /\ Cardinality(Counted(c)) \in Nat
      /\ Cardinality(Counted(c)) <= MaxSubmits
  <2>1. Counted(c) \subseteq Requests
    BY DEF Counted, TypeInv, TypeOK
  <2> QED
    BY <2>1, RequestsAssumption, FS_Subset, FS_CardinalityType DEF SubmitsBounded, Counted
<1>2. ASSUME Counted(c)' \subseteq Counted(c) PROVE Cardinality(Counted(c)') <= MaxSubmits
  <2>1. PICK C : C = Counted(c)'
    OBVIOUS
  <2>2. Cardinality(C) <= Cardinality(Counted(c)) /\ Cardinality(C) \in Nat
    BY <1>1, <1>2, <2>1, FS_Subset, FS_CardinalityType
  <2> QED
    BY <1>1, <2>1, <2>2, NumbersAssumption
\* A stamp is made only while the caller is below the cap.
<1>3. ASSUME NEW r \in Requests, SubmitCheck(r) PROVE Cardinality(Counted(c)') <= MaxSubmits
  <2>1. /\ stamped' = stamped \cup {r} /\ born' = [born EXCEPT ![r] = now] /\ now' = now
        /\ Cardinality(InWindow(Owner[r])) < MaxSubmits
    BY <1>3 DEF SubmitCheck, WithinCaps, counts
  <2>2. CASE Owner[r] # c
    <3>1. Counted(c)' \subseteq Counted(c)
      BY <2>1, <2>2 DEF Counted, TypeInv, TypeOK
    <3> QED
      BY <1>2, <3>1
  <2>3. CASE Owner[r] = c
    <3>1. InWindow(c) = Counted(c)
      BY NumbersAssumption DEF InWindow, Counted, TypeInv, TypeOK
    <3>2. Counted(c)' \subseteq Counted(c) \cup {r}
      BY <2>1 DEF Counted, TypeInv, TypeOK
    <3>3. PICK C : C = Counted(c)'
      OBVIOUS
    <3>4. /\ IsFiniteSet(Counted(c) \cup {r})
          /\ Cardinality(Counted(c) \cup {r}) \in Nat
          /\ Cardinality(Counted(c) \cup {r}) <= Cardinality(Counted(c)) + 1
      BY <1>1, FS_AddElement
    <3>5. Cardinality(C) <= Cardinality(Counted(c) \cup {r}) /\ Cardinality(C) \in Nat
      BY <3>2, <3>3, <3>4, FS_Subset, FS_CardinalityType
    <3> QED
      BY <1>1, <2>1, <2>3, <3>1, <3>3, <3>4, <3>5, NumbersAssumption
  <2> QED
    BY <2>2, <2>3
<1>4. ASSUME Tick PROVE Cardinality(Counted(c)') <= MaxSubmits
  <2>1. stamped' = stamped /\ born' = born /\ now' = now + 1
    BY <1>4 DEF Tick, asks
  <2>2. Counted(c)' \subseteq Counted(c)
    BY <2>1, NumbersAssumption DEF Counted, TypeInv, TypeOK
  <2> QED
    BY <1>2, <2>2
<1>5. ASSUME Stopped PROVE Cardinality(Counted(c)') <= MaxSubmits
  BY <1>2, <1>5 DEF Stopped, Counted
<1>6. ASSUME UNCHANGED <<stamped, born, now>> PROVE Cardinality(Counted(c)') <= MaxSubmits
  BY <1>2, <1>6 DEF Counted
<1> QED
  BY <1>3, <1>4, <1>5, <1>6
  DEF Next, Handler, SubmitPersist, SubmitInsert, SubmitPublish, CancelMark, CancelPersist,
      PollSweep, PollEnd, RelayGrant, LocalGrant, RejectGrant, GrantPersist, EnactSucceeds,
      EnactRetries, EnactFails, OutcomePersist, GrantFinish, ReleaseMark, ReleaseClear,
      Crash, RestartAfterRelease, Boot, vars, asks, counts

\* check_caller_caps and prune_terminal_records: whatever threads submit and cancel at
\* once, no caller gets past the hourly cap, and the history exceeds its own only by
\* the cancels that have still to prune.
THEOREM CapsAlwaysHold == Spec => []CapsHold
<1>1. HistoryInv /\ SubmitsBounded => CapsHold
  BY DEF HistoryInv, CapsHold
<1> QED
  BY <1>1, TypeInit, TypeStep, FreshInit, FreshStep, HistoryInit, HistoryStep, SubmitsInit,
     SubmitsStep, PTL
  DEF Spec

-----------------------------------------------------------------------------
(* Refinement. *)

\* The broker implements GrantAuthority: publishing is asking, consuming is
\* deciding, enacting is taking effect, and everything else is a stutter.
THEOREM ImplementsAuthority == Spec => AuthoritySpec
<1>1. Init => Authority!Init
  BY DEF Init, Authority!Init
<1>2. TypeInv /\ AuthorityInv /\ [Next]_vars => [Authority!Next]_(Authority!vars)
  <2> SUFFICES ASSUME TypeInv, AuthorityInv, [Next]_vars
               PROVE  Authority!Next \/ UNCHANGED <<published, spent, effects>>
    BY DEF Authority!vars
  <2>1. ASSUME NEW r \in Requests, SubmitPublish(r)
        PROVE  Authority!Next \/ UNCHANGED <<published, spent, effects>>
    <3>1. published' = published \cup {r} /\ UNCHANGED <<spent, effects>>
      BY <2>1 DEF SubmitPublish, world
    <3>2. CASE r \in published
      BY <3>1, <3>2
    <3>3. CASE r \notin published
      <4>1. Authority!Ask(r)
        BY <3>1, <3>3 DEF Authority!Ask
      <4> QED
        BY <4>1 DEF Authority!Next
    <3> QED
      BY <3>2, <3>3
  <2>2. ASSUME NEW r \in Requests, NEW d \in Decisions, RelayGrant(r, d) \/ LocalGrant(r, d)
        PROVE  Authority!Next
    <3>1. Authority!Decide(r, d)
      BY <2>2, GrantFacts DEF Authority!Decide
    <3> QED
      BY <3>1 DEF Authority!Next, Decisions
  <2>3. ASSUME EnactSucceeds PROVE Authority!Next
    <3>1. turn \in Grants /\ turn.pc = "enacting" /\ turn.state = "Enacting"
          /\ UNCHANGED <<published, spent>>
      BY <2>3, EnactStepFacts DEF TypeInv, HandlerShape
    <3>2. turn.req \in Requests /\ effects[turn.req] = 0 /\ spent[turn.req] = "allow"
      BY <3>1 DEF Grants, AuthorityInv
    <3>3. effects' = [effects EXCEPT ![turn.req] = 1]
      BY <2>3, <3>2 DEF EnactSucceeds, TypeInv, TypeOK
    <3>4. Authority!TakeEffect(turn.req)
      BY <3>1, <3>2, <3>3 DEF Authority!TakeEffect
    <3> QED
      BY <3>2, <3>4 DEF Authority!Next
  <2>4. ASSUME NEW r \in Requests,
               \/ SubmitCheck(r) \/ SubmitPersist(r) \/ SubmitInsert(r)
               \/ CancelMark(r) \/ CancelPersist(r)
        PROVE  UNCHANGED <<published, spent, effects>>
    BY <2>4
    DEF SubmitCheck, SubmitPersist, SubmitInsert, CancelMark, CancelPersist, asks, world
  <2>5. Sweeps \/ Stopped \/ Boot => UNCHANGED <<published, spent, effects>>
    BY SweepFacts DEF TypeInv, Stopped, Boot, asks, world
  <2>6. EnactRetries \/ EnactFails => UNCHANGED <<published, spent, effects>>
    BY DEF EnactRetries, EnactFails, asks, world
  <2>7. GrantPersist \/ OutcomePersist \/ GrantFinish \/ Idle
          => UNCHANGED <<published, spent, effects>>
    BY PersistStepFacts, FinishFacts, IdleFacts
  <2> QED
    BY <2>1, <2>2, <2>3, <2>4, <2>5, <2>6, <2>7, Steps
<1> QED
  BY <1>1, <1>2, TypeInit, TypeStep, AuthorityInit, AuthorityStep, PTL
  DEF Spec, AuthoritySpec, Authority!Spec

=============================================================================
