---------------------------- MODULE DeviceProofs ----------------------------
(***************************************************************************)
(* Theorems about a computer: that of its pairing the rules in force are   *)
(* the pinned guardian's and neither a token nor a release acts twice, for *)
(* any guardians and any number of tokens, commits, crashes and failed     *)
(* writes; and that of a child's time no lock is too early or too late, a  *)
(* stand-down bites after its grace, given minutes are bought and the last *)
(* of them announced, for any day, caps, named times and order of what     *)
(* arrives; and that of a clause's hours what is announced is so, for any  *)
(* clause and timezone.                                                    *)
(*                                                                         *)
(* Pairing. Two processes commit pairings over the same three files, so no *)
(* file says by itself who rules. The invariant says what a commit that    *)
(* has been alone since it read the binding knows of it (AloneIsAlone):    *)
(* the binding is its own, no other commit is between the two writes, and  *)
(* what it would roll back to is right. A commit that was disturbed says   *)
(* nothing, and leaves the pairing torn when it ends between them. Tokens  *)
(* and releases rest on the steps' order: a token is spent before the      *)
(* commit that pinned by it ends, unless a crash kept it (TokenInv), and a *)
(* release is compared with the pairing it would end (FloorHolds).         *)
(*                                                                         *)
(* Time. A lock is decided from four accounts kept apart: the pin of a     *)
(* grace, the view of the other device, the ledger of extensions and the   *)
(* journal of use. The invariant says of each what it is of the others:    *)
(* pin and sight of a stand-down agree (SightInv), a view is never ahead   *)
(* of the device it is of (ViewInv), and the minutes begun outside the     *)
(* windows, with those still to come, are no more than were given          *)
(* (PaidInv). A pool's minutes are the numbered ones of a finite set, so   *)
(* that no sum over the pools is needed.                                   *)
(*                                                                         *)
(* Warnings. The announced minute is of the verdict's account of what is   *)
(* left, and the lock a minute later of the same account read a minute     *)
(* on. So the lemmas say of each layer what a minute takes from it: one    *)
(* from the window's minutes and at most one from the allowance, none of   *)
(* it from a named time of one's own. The invariant says what an unlocked  *)
(* minute that was not announced as the last leaves to run on, the core's  *)
(* accounts, a named time's or a pool's (OpenInv), and which of the two    *)
(* warning latches stands for a warning that was given (OneInv).           *)
(*                                                                         *)
(* Hours. The evaluators look at boundaries of windows, day by day; what   *)
(* they announce is compared with every instant. Both are read off the     *)
(* wall: its labels change at edges only (WallEdge), an undisturbed edge   *)
(* is past exactly when its instant is (EdgePast), and so the first        *)
(* instant to have a label is that of the first edge to bring it           *)
(* (FirstEdge), which each countdown picks from its own candidates.        *)
(***************************************************************************)
EXTENDS Device, FoldProofs, FiniteSetTheorems, TLAPS

-----------------------------------------------------------------------------
(* Pairing: types. *)

Subjects == Nat \cup {None}
Pairings == [g : Guardians, s : Nat, at : Nat]
Steps == {"idle", "bind", "pin", "rollback", "spend", "purge", "restart"}
Commits ==
  [step : Steps, g : Guardians \cup {None}, s : Subjects, prev : Subjects, existed : BOOLEAN,
   token : Subjects, alone : BOOLEAN]
Daemons ==
  [mode : {"down", "unpaired", "paired", "releasing"}, g : Guardians \cup {None}, s : Subjects,
   release : [g : Guardians, at : Nat] \cup {None}, floor : Pairings \cup {None, 0}]

PairTypes ==
  /\ clock \in Nat /\ begun \in Nat /\ minted \in Nat
  /\ bound \in Subjects /\ pin \in Pairings \cup {None}
  /\ token \in [id : Nat, at : Nat] \cup {None}
  /\ store \subseteq Subjects /\ leftover \subseteq Subjects
  /\ offers \subseteq [g : Guardians, token : Nat, ts : Nat]
  /\ releases \subseteq [g : Guardians, at : Nat]
  /\ daemon \in Daemons
  /\ commit \in [P!Agents -> Commits]
  /\ \A a \in P!Agents : commit[a].step # "idle" => commit[a].g \in Guardians /\ commit[a].s \in Nat
  /\ settings \subseteq Subjects /\ torn \in BOOLEAN
  /\ pinnedBy \in [1 .. MaxTokens -> SUBSET Guardians]

\* An agent starts, and ends, as an idle one.
LEMMA IdleIs == P!Idle \in Commits /\ P!Idle.step = "idle" /\ P!Idle.alone = TRUE
BY DEF P!Idle, Commits, Steps, Subjects

\* The daemon ends as one that is down, and one with no pairing starts unpaired.
LEMMA DownIs == P!Down \in Daemons /\ P!Unpaired \in Daemons /\ P!Down.mode = "down"
               /\ P!Unpaired.mode = "unpaired"
BY DEF P!Down, P!Unpaired, Daemons, Subjects

\* Whether a commit has been alone says nothing else of it.
LEMMA AloneIsAside ==
    ASSUME NEW c \in Commits, NEW b \in BOOLEAN
    PROVE  /\ [c EXCEPT !.alone = b] \in Commits
           /\ [c EXCEPT !.alone = b].step = c.step /\ [c EXCEPT !.alone = b].g = c.g
           /\ [c EXCEPT !.alone = b].s = c.s /\ [c EXCEPT !.alone = b].prev = c.prev
           /\ [c EXCEPT !.alone = b].alone = b /\ [c EXCEPT !.alone = b].token = c.token
BY DEF Commits

\* A commit that another process disturbs goes on as it was, alone or not.
Kept(b) ==
  /\ commit'[b] \in Commits
  /\ commit'[b].step = commit[b].step /\ commit'[b].g = commit[b].g /\ commit'[b].s = commit[b].s
  /\ commit'[b].prev = commit[b].prev /\ commit'[b].token = commit[b].token

\* What is disturbed keeps all of its commit but whether it was alone.
LEMMA DisturbedKeeps ==
    ASSUME NEW b, commit[b] \in Commits, NEW still \in BOOLEAN,
           commit'[b] = [commit[b] EXCEPT !.alone = still]
    PROVE  Kept(b) /\ commit'[b].alone = still
BY AloneIsAside DEF Kept

\* The agents of a commit, and what the three steps that write a binding do to both.
LEMMA BindIs ==
    ASSUME PairTypes, NEW a \in P!Agents, P!Bind(a)
    PROVE  /\ commit' \in [P!Agents -> Commits]
           /\ commit'[a].step = "pin" /\ commit'[a].g = commit[a].g /\ commit'[a].s = commit[a].s
           /\ commit'[a].prev = commit[a].prev /\ commit'[a].token = commit[a].token
           /\ commit'[a].alone =>
                commit[a].alone /\ \A b \in P!Agents \ {a} : commit[b].step \notin P!Midway
           /\ \A b \in P!Agents \ {a} :
                Kept(b) /\ (commit'[b].alone => commit[b].alone /\ commit[b].step \notin P!Begun)
<1> DEFINE other == \E b \in P!Agents \ {a} : commit[b].step \in P!Midway
           mine == commit[a].alone /\ ~other
           still(b) == commit[b].alone /\ commit[b].step \notin P!Begun
<1>1. commit' = [b \in P!Agents |->
                   IF b = a THEN [commit[a] EXCEPT !.step = "pin", !.alone = mine]
                   ELSE [commit[b] EXCEPT !.alone = still(b)]]
  BY Zenon DEF P!Bind
<1>2. mine \in BOOLEAN /\ \A b \in P!Agents : still(b) \in BOOLEAN
  OBVIOUS
<1>3. \A b \in P!Agents : commit[b] \in Commits
  BY DEF PairTypes
<1>4. mine => commit[a].alone /\ \A b \in P!Agents \ {a} : commit[b].step \notin P!Midway
  OBVIOUS
<1>5. ASSUME NEW b \in P!Agents \ {a}
      PROVE  Kept(b) /\ (commit'[b].alone => commit[b].alone /\ commit[b].step \notin P!Begun)
  <2>1. commit'[b] = [commit[b] EXCEPT !.alone = still(b)]
    BY <1>1
  <2>2. still(b) => commit[b].alone /\ commit[b].step \notin P!Begun
    OBVIOUS
  <2> HIDE DEF still
  <2> QED BY <1>2, <1>3, <2>1, <2>2, DisturbedKeeps
<1>6. commit'[a] = [commit[a] EXCEPT !.step = "pin", !.alone = mine]
  BY <1>1
<1> HIDE DEF mine, other
<1>7. /\ commit'[a] \in Commits /\ commit'[a].step = "pin" /\ commit'[a].g = commit[a].g
      /\ commit'[a].s = commit[a].s /\ commit'[a].alone = mine
      /\ commit'[a].prev = commit[a].prev /\ commit'[a].token = commit[a].token
  BY <1>2, <1>3, <1>6 DEF Commits, Steps
<1>8. commit' \in [P!Agents -> Commits]
  <2>1. \A b \in P!Agents : commit'[b] \in Commits
    BY <1>5, <1>7 DEF Kept
  <2>2. commit' = [b \in P!Agents |-> commit'[b]]
    BY <1>1
  <2> QED BY <2>1, <2>2
<1> QED BY <1>4, <1>5, <1>7, <1>8

\* A rollback frees its agent; another commit that has begun was not alone.
LEMMA RollBackIs ==
    ASSUME PairTypes, NEW a \in P!Agents, P!RollBack(a)
    PROVE  /\ commit' \in [P!Agents -> Commits] /\ commit'[a] = P!Idle
           /\ \A b \in P!Agents \ {a} :
                Kept(b) /\ (commit'[b].alone => commit[b].alone /\ commit[b].step \notin P!Begun)
<1> DEFINE still(b) == commit[b].alone /\ commit[b].step \notin P!Begun
<1>1. commit' = [b \in P!Agents |->
                   IF b = a THEN P!Idle ELSE [commit[b] EXCEPT !.alone = still(b)]]
  BY Zenon DEF P!RollBack
<1>2. \A b \in P!Agents : still(b) \in BOOLEAN
  OBVIOUS
<1>3. \A b \in P!Agents : commit[b] \in Commits
  BY DEF PairTypes
<1>5. ASSUME NEW b \in P!Agents \ {a}
      PROVE  Kept(b) /\ (commit'[b].alone => commit[b].alone /\ commit[b].step \notin P!Begun)
  <2>1. commit'[b] = [commit[b] EXCEPT !.alone = still(b)]
    BY <1>1
  <2>2. still(b) => commit[b].alone /\ commit[b].step \notin P!Begun
    OBVIOUS
  <2> HIDE DEF still
  <2> QED BY <1>2, <1>3, <2>1, <2>2, DisturbedKeeps
<1>6. commit'[a] = P!Idle
  BY <1>1
<1>8. commit' \in [P!Agents -> Commits]
  <2>1. \A b \in P!Agents : commit'[b] \in Commits
    BY <1>5, <1>6, IdleIs DEF Kept
  <2>2. commit' = [b \in P!Agents |-> commit'[b]]
    BY <1>1
  <2> QED BY <2>1, <2>2
<1> QED BY <1>5, <1>6, <1>8

\* The tool's write leaves alone the commits it found no other subject for.
LEMMA SettingsWriteIs ==
    ASSUME PairTypes, P!SettingsWrite
    PROVE  /\ commit' \in [P!Agents -> Commits]
           /\ \A b \in P!Agents :
                /\ Kept(b)
                /\ commit'[b].alone =>
                     commit[b].alone /\ (commit[b].step \notin P!Begun \/ settings = {bound})
<1> DEFINE still(b) == commit[b].alone /\ (commit[b].step \notin P!Begun \/ settings = {bound})
<1>1. commit' = [b \in P!Agents |-> [commit[b] EXCEPT !.alone = still(b)]]
  BY Zenon DEF P!SettingsWrite
<1>2. \A b \in P!Agents : still(b) \in BOOLEAN
  OBVIOUS
<1>3. \A b \in P!Agents : commit[b] \in Commits
  BY DEF PairTypes
<1>5. ASSUME NEW b \in P!Agents
      PROVE  /\ Kept(b)
             /\ commit'[b].alone =>
                  commit[b].alone /\ (commit[b].step \notin P!Begun \/ settings = {bound})
  <2>1. commit'[b] = [commit[b] EXCEPT !.alone = still(b)]
    BY <1>1
  <2>2. still(b) => commit[b].alone /\ (commit[b].step \notin P!Begun \/ settings = {bound})
    OBVIOUS
  <2> HIDE DEF still
  <2> QED BY <1>2, <1>3, <2>1, <2>2, DisturbedKeeps
<1>8. commit' \in [P!Agents -> Commits]
  <2>1. \A b \in P!Agents : commit'[b] \in Commits
    BY <1>5 DEF Kept
  <2>2. commit' = [b \in P!Agents |-> commit'[b]]
    BY <1>1
  <2> QED BY <2>1, <2>2
<1> QED BY <1>5, <1>8

\* What a step of a commit keeps.
LEMMA TypesGoes ==
    ASSUME PairTypes, NEW a \in P!Agents, NEW x \in Steps, commit[a].step # "idle", P!Goes(a, x)
    PROVE  /\ commit' \in [P!Agents -> Commits]
           /\ \A b \in P!Agents :
                commit'[b].step # "idle" => commit'[b].g \in Guardians /\ commit'[b].s \in Nat
           /\ \A b \in P!Agents \ {a} : commit'[b] = commit[b]
           /\ commit'[a] = [commit[a] EXCEPT !.step = x]
<1>1. commit \in [P!Agents -> Commits] /\ commit' = [commit EXCEPT ![a] = [commit[a] EXCEPT !.step = x]]
  BY DEF PairTypes, P!Goes
<1>2. [commit[a] EXCEPT !.step = x] \in Commits
  BY <1>1 DEF Commits
<1> QED
  BY <1>1, <1>2 DEF PairTypes, Commits

\* An agent that is idle again.
LEMMA TypesIdles ==
    ASSUME PairTypes, NEW a \in P!Agents, commit' = [commit EXCEPT ![a] = P!Idle]
    PROVE  /\ commit' \in [P!Agents -> Commits]
           /\ \A b \in P!Agents :
                commit'[b].step # "idle" => commit'[b].g \in Guardians /\ commit'[b].s \in Nat
           /\ \A b \in P!Agents \ {a} : commit'[b] = commit[b]
           /\ commit'[a] = P!Idle
BY IdleIs DEF PairTypes

\* What an end of some agents leaves behind.
LEMMA CutTyped ==
    ASSUME PairTypes, NEW A \in SUBSET P!Agents, P!Cut(A)
    PROVE  leftover' \subseteq Subjects /\ torn' \in BOOLEAN
<1>1. torn' \in BOOLEAN
  <2>1. torn' = (torn \/ \E a \in A : commit[a].step \in P!Midway)
    BY DEF P!Cut
  <2> QED BY <2>1, Zenon DEF PairTypes
<1>2. leftover' \subseteq Subjects
  <2> DEFINE prevs == {commit[a].prev : a \in {b \in A : commit[b].step \in {"spend", "purge"}}}
  <2>1. leftover' = leftover \cup (prevs \ {None})
    BY Zenon DEF P!Cut
  <2>2. \A a \in A : commit[a].prev \in Subjects
    BY DEF PairTypes, Commits
  <2>3. prevs \subseteq Subjects
    BY <2>2
  <2> QED BY <2>1, <2>3 DEF PairTypes
<1> QED
  BY <1>1, <1>2

\* The computer starts in these types.
LEMMA PairTypesInit == P!Init => PairTypes
<1> SUFFICES ASSUME P!Init PROVE PairTypes
  OBVIOUS
<1>1. commit \in [P!Agents -> Commits] /\ \A a \in P!Agents : commit[a].step = "idle"
  BY IdleIs DEF P!Init
<1>2. daemon \in Daemons
  BY DownIs DEF P!Init
<1> QED
  BY <1>1, <1>2 DEF P!Init, PairTypes, Subjects

\* A step of the computer keeps its types.
LEMMA PairTypesStep ==
    ASSUME PairTypes, P!Next
    PROVE  PairTypes'
<1> USE DEF Subjects
<1>1. CASE P!Tick \/ P!Mint \/ P!Boot \/ P!Clause \/ P!SettingsRead
  <2>1. CASE P!Tick
    BY <2>1 DEF PairTypes, P!Tick, P!disk, P!relay, P!history
  <2>2. CASE P!Mint
    BY <2>2 DEF PairTypes, P!Mint, P!relay, P!history
  <2>3. CASE P!Boot
    <3>1. daemon' \in Daemons
      <4>1. CASE pin = None
        BY <2>3, <4>1, DownIs DEF P!Boot
      <4>2. CASE pin # None
        <5>1. pin.g \in Guardians /\ pin.s \in Nat
          BY <4>2 DEF PairTypes, Pairings
        <5>2. daemon' = [P!Down EXCEPT !.mode = "paired", !.g = pin.g, !.s = pin.s]
          BY <2>3, <4>2 DEF P!Boot
        <5> QED BY <5>1, <5>2, DownIs DEF Daemons
      <4> QED BY <4>1, <4>2
    <3> QED BY <2>3, <3>1 DEF PairTypes, P!Boot, P!disk, P!relay, P!history
  <2>4. CASE P!Clause
    BY <2>4 DEF PairTypes, P!Clause, Daemons, P!relay, P!history
  <2>5. CASE P!SettingsRead
    BY <2>5 DEF PairTypes, P!SettingsRead, P!disk, P!relay, P!history
  <2> QED BY <1>1, <2>1, <2>2, <2>3, <2>4, <2>5
<1>2. CASE P!Spend \/ P!SpendFails
  <2>0. "listener" \in P!Agents
    BY DEF P!Agents
  <2>1. CASE P!Spend
    BY <2>0, <2>1, TypesGoes DEF PairTypes, P!Spend, P!relay, P!history, Steps
  <2>2. CASE P!SpendFails
    <3>1. commit' = [commit EXCEPT !["listener"] = P!Idle] /\ leftover' \subseteq Subjects
      BY <2>0, <2>2 DEF P!SpendFails, PairTypes, Commits
    <3> QED BY <2>0, <2>2, <3>1, TypesIdles DEF PairTypes, P!SpendFails, P!relay, P!disk
  <2> QED BY <1>2, <2>1, <2>2
<1>3. CASE P!SettingsWrite
  BY <1>3, SettingsWriteIs DEF PairTypes, P!SettingsWrite, P!relay, Kept
<1>4. ASSUME NEW g \in Guardians, P!Disconnect(g) \/ \E t \in 1 .. MaxTokens : P!Publish(g, t)
      PROVE  PairTypes'
  <2>1. CASE P!Disconnect(g)
    BY <2>1 DEF PairTypes, P!Disconnect, P!disk, P!history
  <2>2. ASSUME NEW t \in 1 .. MaxTokens, P!Publish(g, t)
        PROVE  PairTypes'
    BY <2>2 DEF PairTypes, P!Publish, P!disk, P!history
  <2> QED BY <1>4, <2>1, <2>2
<1>5. ASSUME NEW seen1 \in SUBSET offers, P!Listen(seen1)
      PROVE  PairTypes'
  <2>1. PICK g \in P!Choose(seen1) : P!Started("listener", g, begun', token.id)
    BY <1>5 DEF P!Listen
  <2>2. g \in Guardians /\ token # None
    BY <2>1 DEF P!Choose, P!Live, PairTypes
  <2>3. commit' = [commit EXCEPT !["listener"] =
          [step |-> "bind", g |-> g, s |-> begun', prev |-> bound, existed |-> pin # None,
           token |-> token.id, alone |-> TRUE]]
    BY <2>1 DEF P!Started
  <2>4. begun' \in Nat /\ token.id \in Nat
    BY <1>5, <2>2 DEF P!Listen, PairTypes
  <2>5. /\ commit' \in [P!Agents -> Commits]
        /\ \A a \in P!Agents : 
             commit'[a].step # "idle" => commit'[a].g \in Guardians /\ commit'[a].s \in Nat
    BY <2>2, <2>3, <2>4 DEF PairTypes, Commits, Steps, P!Agents
  <2> QED BY <1>5, <2>4, <2>5 DEF PairTypes, P!Listen, P!disk, P!relay, P!history
<1>6. ASSUME NEW g \in Guardians, NEW s \in 1 .. MaxCommits, NEW replace \in BOOLEAN, P!Link(g, s, replace)
      PROVE  PairTypes'
  <2>1. commit' = [commit EXCEPT !["tool"] =
          [step |-> "bind", g |-> g, s |-> s, prev |-> bound, existed |-> pin # None,
           token |-> None, alone |-> TRUE]]
    BY <1>6 DEF P!Started, P!Link
  <2>2. /\ commit' \in [P!Agents -> Commits]
        /\ \A a \in P!Agents : 
             commit'[a].step # "idle" => commit'[a].g \in Guardians /\ commit'[a].s \in Nat
    BY <2>1 DEF PairTypes, Commits, Steps, P!Agents
  <2> QED BY <1>6, <2>2 DEF PairTypes, P!Link, P!disk, P!relay, P!history
<1>7. ASSUME NEW a \in P!Agents, P!Bind(a) \/ P!BindFails(a) \/ P!Pin(a) \/ P!PinFails(a) \/ P!RollBack(a)
                       \/ P!RollBackFails(a) \/ P!Purge(a) \/ P!PurgeFails(a) \/ P!Restart(a)
      PROVE  PairTypes'
  <2>1. CASE P!Bind(a)
    <3>1. commit[a].s \in Nat /\ commit[a].step = "bind" /\ commit[a].g \in Guardians
      BY <2>1 DEF P!Bind, PairTypes
    <3>2. \A b \in P!Agents :
            commit'[b].step # "idle" => commit'[b].g \in Guardians /\ commit'[b].s \in Nat
      <4> SUFFICES ASSUME NEW b \in P!Agents, commit'[b].step # "idle"
                   PROVE  commit'[b].g \in Guardians /\ commit'[b].s \in Nat
        OBVIOUS
      <4>1. CASE b = a
        BY <2>1, <3>1, <4>1, BindIs
      <4>2. CASE b # a
        BY <2>1, <4>2, BindIs DEF Kept, PairTypes
      <4> QED BY <4>1, <4>2
    <3> QED BY <2>1, <3>1, <3>2, BindIs DEF PairTypes, P!Bind, P!relay, P!history
  <2>2. CASE P!BindFails(a)
    BY <2>2, TypesIdles DEF PairTypes, P!BindFails, P!disk, P!relay, P!history
  <2>3. CASE P!Pin(a)
    <3>1. pin' \in Pairings /\ pinnedBy' \in [1 .. MaxTokens -> SUBSET Guardians]
      <4>1. commit[a].g \in Guardians /\ commit[a].s \in Nat
        BY <2>3 DEF PairTypes, P!Pin
      <4>2. pin' \in Pairings
        BY <4>1, <2>3 DEF PairTypes, P!Pin, Pairings
      <4> QED BY <4>1, <4>2, <2>3 DEF PairTypes, P!Pin
    <3>2. torn' \in BOOLEAN
      BY <2>3 DEF P!Pin
    <3>3. CASE a = "listener"
      BY <2>3, <3>1, <3>2, <3>3, TypesGoes DEF PairTypes, P!Pin, P!relay, Steps
    <3>4. CASE a # "listener"
      BY <2>3, <3>1, <3>2, <3>4, TypesGoes DEF PairTypes, P!Pin, P!relay, Steps
    <3> QED BY <3>3, <3>4
  <2>4. CASE P!PinFails(a)
    BY <2>4, TypesGoes DEF PairTypes, P!PinFails, P!disk, P!relay, P!history, Steps
  <2>5. CASE P!RollBack(a)
    BY <2>5, RollBackIs, IdleIs DEF PairTypes, P!RollBack, P!relay, Commits, Kept
  <2>6. CASE P!RollBackFails(a)
    BY <2>6, TypesIdles DEF PairTypes, P!RollBackFails, P!disk, P!relay
  <2>7. CASE P!Purge(a)
    BY <2>7, TypesGoes DEF PairTypes, P!Purge, P!relay, P!history, Steps
  <2>8. CASE P!PurgeFails(a)
    <3>1. leftover' \subseteq Subjects
      BY <2>8 DEF PairTypes, P!PurgeFails, Commits
    <3> QED BY <2>8, <3>1, TypesGoes DEF PairTypes, P!PurgeFails, P!disk, P!relay, Steps
  <2>9. CASE P!Restart(a)
    <3>1. /\ commit' \in [P!Agents -> Commits]
          /\ \A b \in P!Agents : 
               commit'[b].step # "idle" => commit'[b].g \in Guardians /\ commit'[b].s \in Nat
      BY <2>9, IdleIs DEF P!Restart, PairTypes
    <3>2. leftover' \subseteq Subjects /\ torn' \in BOOLEAN
      <4>1. P!Cut({"listener"} \ {a}) /\ {"listener"} \ {a} \in SUBSET P!Agents
        BY <2>9 DEF P!Restart, P!Agents
      <4> QED BY <4>1, CutTyped
    <3> QED BY <2>9, <3>1, <3>2, DownIs DEF PairTypes, P!Restart, P!disk, P!relay
  <2> QED BY <1>7, <2>1, <2>2, <2>3, <2>4, <2>5, <2>6, <2>7, <2>8, <2>9
<1>8. ASSUME NEW who \in {{"listener"}, {"tool"}, P!Agents}, P!Crash(who)
      PROVE  PairTypes'
  <2>1. /\ commit' \in [P!Agents -> Commits]
        /\ \A b \in P!Agents : 
             commit'[b].step # "idle" => commit'[b].g \in Guardians /\ commit'[b].s \in Nat
    BY <1>8, IdleIs DEF P!Crash, PairTypes
  <2>2. leftover' \subseteq Subjects /\ torn' \in BOOLEAN
    <3>1. P!Cut(who \cap P!Agents)
      BY <1>8 DEF P!Crash
    <3> QED BY <3>1, CutTyped
  <2> QED BY <1>8, <2>1, <2>2, DownIs DEF PairTypes, P!Crash, P!disk, P!relay
<1>9. ASSUME NEW r \in releases, NEW lands \in BOOLEAN, P!Release(r, lands)
      PROVE  PairTypes'
  <2>1. daemon' \in Daemons
    BY <1>9 DEF P!Release, PairTypes, Daemons
  <2>2. store' \subseteq Subjects /\ leftover' \subseteq Subjects
    BY <1>9 DEF P!Release, PairTypes, Daemons
  <2> QED BY <1>9, <2>1, <2>2 DEF PairTypes, P!Release, P!relay
<1>10. ASSUME NEW lands \in BOOLEAN, P!Unpair(lands)
       PROVE  PairTypes'
  <2>1. pin' \in Pairings \cup {None} /\ torn' \in BOOLEAN
    BY <1>10 DEF P!Unpair, PairTypes
  <2> QED BY <1>10, <2>1, DownIs DEF PairTypes, P!Unpair, P!relay
<1> QED
  BY <1>1, <1>2, <1>3, <1>4, <1>5, <1>6, <1>7, <1>8, <1>9, <1>10 DEF P!Next
-----------------------------------------------------------------------------
(* Pairing: the rules in force are the pinned guardian's. *)

\* A binding that is the pinned guardian's, or without one nobody's.
Rightful(x) == IF pin # None THEN x = pin.s ELSE x \notin store \ leftover

BoundIsRight == ~torn /\ ~P!Committing => Rightful(bound)

\* A commit that is alone has read the binding there is, and then it is the one that wrote it.
ReadIsCurrent ==
  \A a \in P!Agents : commit[a].step = "bind" /\ commit[a].alone => commit[a].prev = bound
AloneIsAlone ==
  \A a \in P!Agents : commit[a].step \in P!Midway /\ commit[a].alone =>
    /\ bound = commit[a].s
    /\ \A b \in P!Agents \ {a} : commit[b].step \notin P!Midway
    /\ ~torn => Rightful(commit[a].prev)

BindingInv == BoundIsRight /\ ReadIsCurrent /\ AloneIsAlone

\* A daemon that obeys a guardian, or is letting them go, has a pairing on disk.
PairedHasPin == daemon.mode \in {"paired", "releasing"} => pin # None
ReleasedIsCleared == daemon.mode = "releasing" => daemon.s \notin store \ leftover

DaemonInv == PairedHasPin /\ ReleasedIsCleared

\* The computer starts unbound and unpaired.
LEMMA BindingInit == P!Init => BindingInv /\ DaemonInv
BY DownIs, IdleIs DEF P!Init, BindingInv, BoundIsRight, ReadIsCurrent, AloneIsAlone, DaemonInv,
   PairedHasPin, ReleasedIsCleared, Rightful, P!Committing, P!Midway

\* What a step may do to a commit without touching the binding: go on, begin, or end.
GoesOn(b) ==
  /\ commit'[b].s = commit[b].s /\ commit'[b].prev = commit[b].prev
  /\ commit'[b].alone => commit[b].alone
  /\ \/ commit'[b].step = commit[b].step
     \/ commit'[b].step \in P!Midway /\ commit[b].step \in P!Midway
BeginsAnew(b) ==
  /\ commit'[b].step = "bind" /\ commit'[b].prev = bound /\ commit[b].step \notin P!Midway
EndsOrTears(b) ==
  /\ commit'[b].step \notin P!Begun
  /\ commit[b].step \in P!Midway => torn'

\* What leaves the binding, the pin and the commits be keeps the binding's invariant.
LEMMA BindingRests ==
    ASSUME BindingInv, bound' = bound, pin' = pin, torn => torn',
           pin = None => store' \ leftover' \subseteq store \ leftover,
           \A b \in P!Agents : GoesOn(b) \/ BeginsAnew(b) \/ EndsOrTears(b)
    PROVE  BindingInv'
<1>1. \A x : Rightful(x) => Rightful(x)'
  BY DEF Rightful
<1>2. ASSUME ~torn'
      PROVE  P!Committing => P!Committing'
  BY <1>2 DEF P!Committing, GoesOn, BeginsAnew, EndsOrTears, P!Begun, P!Midway
<1>3. BoundIsRight'
  BY <1>1, <1>2 DEF BindingInv, BoundIsRight
<1>4. ReadIsCurrent'
  BY DEF BindingInv, ReadIsCurrent, GoesOn, BeginsAnew, EndsOrTears, P!Begun, P!Midway
<1>5. AloneIsAlone'
  <2> SUFFICES ASSUME NEW a \in P!Agents, commit'[a].step \in P!Midway, commit'[a].alone
               PROVE  /\ bound' = commit'[a].s
                      /\ \A b \in P!Agents \ {a} : commit'[b].step \notin P!Midway
                      /\ ~torn' => Rightful(commit[a].prev)' /\ commit'[a].prev = commit[a].prev
    BY DEF AloneIsAlone
  <2>1. GoesOn(a) /\ commit[a].step \in P!Midway /\ commit[a].alone
    BY DEF GoesOn, BeginsAnew, EndsOrTears, P!Begun, P!Midway
  <2>2. /\ bound = commit[a].s
        /\ \A b \in P!Agents \ {a} : commit[b].step \notin P!Midway
        /\ ~torn => Rightful(commit[a].prev)
    BY <2>1 DEF BindingInv, AloneIsAlone
  <2>3. \A b \in P!Agents \ {a} : commit'[b].step \notin P!Midway
    BY <2>2 DEF GoesOn, BeginsAnew, EndsOrTears, P!Begun, P!Midway
  <2> QED BY <1>1, <2>1, <2>2, <2>3 DEF GoesOn, Rightful
<1> QED
  BY <1>3, <1>4, <1>5 DEF BindingInv

\* Every commit ends or goes on.
LEMMA AllContinue == commit' = commit => \A b \in P!Agents : GoesOn(b)
BY DEF GoesOn

\* An agent that ends leaves the other's commit as it was.
LEMMA OneEnds ==
    ASSUME PairTypes, NEW a \in P!Agents, commit' = [commit EXCEPT ![a] = P!Idle],
           commit[a].step \in P!Midway => torn'
    PROVE  \A b \in P!Agents : GoesOn(b) \/ BeginsAnew(b) \/ EndsOrTears(b)
BY TypesIdles, IdleIs DEF GoesOn, EndsOrTears, P!Begun, P!Midway

\* An agent that goes on leaves the other's commit as it was.
LEMMA OneGoes ==
    ASSUME PairTypes, NEW a \in P!Agents, NEW x \in Steps, P!Goes(a, x), commit[a].step # "idle",
           \/ commit[a].step \in P!Midway /\ x \in P!Midway
           \/ commit[a].step \notin P!Midway /\ x \notin P!Begun
    PROVE  \A b \in P!Agents : GoesOn(b) \/ BeginsAnew(b) \/ EndsOrTears(b)
<1>1. /\ \A b \in P!Agents \ {a} : commit'[b] = commit[b]
      /\ commit'[a] = [commit[a] EXCEPT !.step = x]
  BY TypesGoes
<1>2. commit[a] \in Commits
  BY DEF PairTypes
<1>3. /\ commit'[a].step = x /\ commit'[a].s = commit[a].s /\ commit'[a].prev = commit[a].prev
      /\ commit'[a].alone = commit[a].alone
  BY <1>1, <1>2 DEF Commits
<1>4. GoesOn(a) \/ BeginsAnew(a) \/ EndsOrTears(a)
  BY <1>3 DEF GoesOn, EndsOrTears
<1>5. \A b \in P!Agents \ {a} : GoesOn(b)
  BY <1>1 DEF GoesOn
<1> QED
  BY <1>4, <1>5

\* The steps that let the binding be.
LEMMA BindingStepsAside ==
    ASSUME PairTypes, BindingInv, DaemonInv,
           \/ P!Tick \/ P!Mint \/ P!Spend \/ P!SpendFails \/ P!Boot \/ P!Clause \/ P!SettingsRead
           \/ \E g \in Guardians : P!Disconnect(g) \/ \E t \in 1 .. MaxTokens : P!Publish(g, t)
           \/ \E who \in {{"listener"}, {"tool"}, P!Agents} : P!Crash(who)
           \/ \E r \in releases, lands \in BOOLEAN : P!Release(r, lands)
    PROVE  BindingInv'
<1>0. "listener" \in P!Agents
  BY DEF P!Agents
<1>1. CASE P!Tick \/ P!Mint \/ P!Boot \/ P!SettingsRead
  BY <1>1, AllContinue, BindingRests DEF P!Tick, P!Mint, P!Boot, P!SettingsRead, P!disk, P!history
<1>2. CASE P!Spend
  <2>1. \A b \in P!Agents : GoesOn(b) \/ BeginsAnew(b) \/ EndsOrTears(b)
    BY <1>0, <1>2, OneGoes DEF P!Spend, P!Begun, P!Midway, Steps
  <2> QED BY <1>2, <2>1, BindingRests DEF P!Spend, P!history
<1>3. CASE P!SpendFails
  <2>1. commit' = [commit EXCEPT !["listener"] = P!Idle] /\ commit["listener"].step = "spend"
    BY <1>3 DEF P!SpendFails
  <2>2. \A b \in P!Agents : GoesOn(b) \/ BeginsAnew(b) \/ EndsOrTears(b)
    BY <1>0, <2>1, OneEnds DEF P!Midway
  <2> QED BY <1>3, <2>2, BindingRests DEF P!SpendFails, P!disk
<1>4. CASE P!Clause
  <2>1. pin # None
    BY <1>4 DEF P!Clause, DaemonInv, PairedHasPin
  <2> QED BY <1>4, <2>1, AllContinue, BindingRests DEF P!Clause, P!history
<1>5. CASE \E g \in Guardians : P!Disconnect(g) \/ \E t \in 1 .. MaxTokens : P!Publish(g, t)
  BY <1>5, AllContinue, BindingRests DEF P!Disconnect, P!Publish, P!disk, P!history
<1>6. ASSUME NEW who \in {{"listener"}, {"tool"}, P!Agents}, P!Crash(who)
      PROVE  BindingInv'
  <2>1. \A b \in P!Agents : GoesOn(b) \/ BeginsAnew(b) \/ EndsOrTears(b)
    <3> SUFFICES ASSUME NEW b \in P!Agents
                 PROVE  GoesOn(b) \/ BeginsAnew(b) \/ EndsOrTears(b)
      OBVIOUS
    <3>1. CASE b \in who
      <4>1. commit'[b] = P!Idle /\ (commit[b].step \in P!Midway => torn')
        BY <1>6, <3>1 DEF P!Crash, P!Cut
      <4> QED BY <4>1, IdleIs DEF EndsOrTears, P!Begun, P!Midway
    <3>2. CASE b \notin who
      BY <1>6, <3>2 DEF P!Crash, GoesOn
    <3> QED BY <3>1, <3>2
  <2> QED BY <1>6, <2>1, BindingRests DEF P!Crash, P!Cut, P!disk
<1>7. ASSUME NEW r \in releases, NEW lands \in BOOLEAN, P!Release(r, lands)
      PROVE  BindingInv'
  BY <1>7, AllContinue, BindingRests DEF P!Release
<1> QED
  BY <1>1, <1>2, <1>3, <1>4, <1>5, <1>6, <1>7

\* The steps of a commit that let the binding be.
LEMMA BindingCommitsAside ==
    ASSUME PairTypes, BindingInv,
           \/ \E heard \in SUBSET offers : P!Listen(heard)
           \/ \E g \in Guardians, s \in 1 .. MaxCommits, replace \in BOOLEAN : P!Link(g, s, replace)
           \/ \E a \in P!Agents : \/ P!BindFails(a) \/ P!PinFails(a) \/ P!RollBackFails(a)
                                   \/ P!Purge(a) \/ P!PurgeFails(a) \/ P!Restart(a)
    PROVE  BindingInv'
<1>1. ASSUME NEW heard \in SUBSET offers, P!Listen(heard)
      PROVE  BindingInv'
  <2>1. PICK g \in P!Choose(heard) : P!Started("listener", g, begun', token.id)
    BY <1>1 DEF P!Listen
  <2>2. BeginsAnew("listener") /\ GoesOn("tool")
    BY <1>1, <2>1 DEF P!Listen, P!Started, PairTypes, BeginsAnew, GoesOn, P!Agents, P!Midway
  <2> QED BY <1>1, <2>2, BindingRests DEF P!Listen, P!disk, P!history, P!Agents
<1>2. ASSUME NEW g \in Guardians, NEW s \in 1 .. MaxCommits, NEW replace \in BOOLEAN, P!Link(g, s, replace)
      PROVE  BindingInv'
  <2>1. BeginsAnew("tool") /\ GoesOn("listener")
    BY <1>2 DEF P!Link, P!Started, PairTypes, BeginsAnew, GoesOn, P!Agents, P!Midway
  <2> QED BY <1>2, <2>1, BindingRests DEF P!Link, P!disk, P!history, P!Agents
<1>3. ASSUME NEW a \in P!Agents, P!BindFails(a) \/ P!RollBackFails(a)
      PROVE  BindingInv'
  <2>1. \A b \in P!Agents : GoesOn(b) \/ BeginsAnew(b) \/ EndsOrTears(b)
    BY <1>3, OneEnds DEF P!BindFails, P!RollBackFails, P!Midway
  <2> QED BY <1>3, <2>1, BindingRests DEF P!BindFails, P!RollBackFails, P!disk, P!history
<1>4. ASSUME NEW a \in P!Agents, P!PinFails(a)
      PROVE  BindingInv'
  <2>1. \A b \in P!Agents : GoesOn(b) \/ BeginsAnew(b) \/ EndsOrTears(b)
    BY <1>4, OneGoes DEF P!PinFails, P!Midway, Steps
  <2> QED BY <1>4, <2>1, BindingRests DEF P!PinFails, P!disk, P!history
<1>5. ASSUME NEW a \in P!Agents, P!Purge(a) \/ P!PurgeFails(a)
      PROVE  BindingInv'
  <2>1. \A b \in P!Agents : GoesOn(b) \/ BeginsAnew(b) \/ EndsOrTears(b)
    BY <1>5, OneGoes DEF P!Purge, P!PurgeFails, P!Midway, P!Begun, Steps
  <2>2. store' \leftover' \subseteq store \leftover
    BY <1>5 DEF P!Purge, P!PurgeFails, P!disk, P!history
  <2> QED BY <1>5, <2>1, <2>2, BindingRests DEF P!Purge, P!PurgeFails, P!disk, P!history
<1>6. ASSUME NEW a \in P!Agents, P!Restart(a)
      PROVE  BindingInv'
  <2>1. \A b \in P!Agents : GoesOn(b) \/ BeginsAnew(b) \/ EndsOrTears(b)
    <3> SUFFICES ASSUME NEW b \in P!Agents
                 PROVE  GoesOn(b) \/ BeginsAnew(b) \/ EndsOrTears(b)
      OBVIOUS
    <3>1. CASE b \in {a, "listener"}
      <4>1. commit'[b] = P!Idle /\ (commit[b].step \in P!Midway => torn')
        BY <1>6, <3>1 DEF P!Restart, P!Cut, P!Midway
      <4> QED BY <4>1, IdleIs DEF EndsOrTears, P!Begun, P!Midway
    <3>2. CASE b \notin {a, "listener"}
      BY <1>6, <3>2 DEF P!Restart, GoesOn
    <3> QED BY <3>1, <3>2
  <2> QED BY <1>6, <2>1, BindingRests DEF P!Restart, P!Cut, P!disk
<1> QED
  BY <1>1, <1>2, <1>3, <1>4, <1>5, <1>6

\* The steps that write the binding or the pairing.
LEMMA BindKeeps ==
    ASSUME PairTypes, BindingInv, NEW a \in P!Agents, P!Bind(a)
    PROVE  BindingInv'
<1>1. /\ commit[a].step = "bind" /\ bound' = commit[a].s
      /\ pin' = pin /\ store' = store /\ leftover' = leftover /\ torn' = torn
  BY DEF P!Bind, P!history
<1>2. \A x : Rightful(x)' <=> Rightful(x)
  BY <1>1 DEF Rightful
<1>3. P!Committing'
  BY BindIs DEF P!Committing, P!Midway
<1>4. ReadIsCurrent'
  BY BindIs DEF ReadIsCurrent, Kept, P!Begun, P!Midway
<1>5. AloneIsAlone'
  <2> SUFFICES ASSUME NEW b \in P!Agents, commit'[b].step \in P!Midway, commit'[b].alone
               PROVE  /\ bound' = commit'[b].s
                      /\ \A c \in P!Agents \ {b} : commit'[c].step \notin P!Midway
                      /\ ~torn' => Rightful(commit[b].prev) /\ commit'[b].prev = commit[b].prev
    BY <1>2 DEF AloneIsAlone
  <2>1. b = a
    BY BindIs DEF Kept, P!Begun, P!Midway
  <2>2. \A c \in P!Agents \ {a} : commit[c].step \notin P!Midway /\ commit'[c].step \notin P!Midway
    BY <2>1, BindIs DEF Kept
  <2>3. ~P!Committing
    BY <1>1, <2>2 DEF P!Committing, P!Midway
  <2>4. commit[a].prev = bound
    BY <1>1, <2>1, BindIs DEF BindingInv, ReadIsCurrent
  <2> QED BY <1>1, <2>1, <2>2, <2>3, <2>4, BindIs DEF BindingInv, BoundIsRight
<1> QED
  BY <1>3, <1>4, <1>5 DEF BindingInv, BoundIsRight

\* The pairing is written for the subject that was bound.
LEMMA PinKeeps ==
    ASSUME PairTypes, BindingInv, NEW a \in P!Agents, P!Pin(a)
    PROVE  BindingInv'
<1>1. /\ commit[a].step = "pin" /\ bound' = bound /\ torn' = ~commit[a].alone
      /\ pin' = [g |-> commit[a].g, s |-> commit[a].s, at |-> clock]
  BY DEF P!Pin
<1>2. pin' # None /\ pin'.s = commit[a].s
  <2>1. pin' \in Pairings
    BY <1>1 DEF PairTypes, Pairings
  <2> QED BY <1>1, <2>1, NoneIsNoPairing DEF Pairings
<1>3. /\ \A b \in P!Agents \ {a} : commit'[b] = commit[b]
      /\ commit'[a].step \notin P!Begun /\ commit'[a].step \notin P!Midway
  <2>1. commit[a] \in Commits
    BY DEF PairTypes
  <2>2. CASE a = "listener"
    <3>1. P!Goes(a, "spend")
      BY <2>2 DEF P!Pin
    <3>2. /\ \A b \in P!Agents \ {a} : commit'[b] = commit[b]
          /\ commit'[a] = [commit[a] EXCEPT !.step = "spend"]
      BY <1>1, <3>1, TypesGoes DEF Steps
    <3> QED BY <2>1, <3>2 DEF Commits, P!Begun, P!Midway
  <2>3. CASE a # "listener"
    <3>1. P!Goes(a, "purge")
      BY <2>3 DEF P!Pin
    <3>2. /\ \A b \in P!Agents \ {a} : commit'[b] = commit[b]
          /\ commit'[a] = [commit[a] EXCEPT !.step = "purge"]
      BY <1>1, <3>1, TypesGoes DEF Steps
    <3> QED BY <2>1, <3>2 DEF Commits, P!Begun, P!Midway
  <2> QED BY <2>2, <2>3
<1>4. BoundIsRight'
  <2>1. commit[a].alone => bound = commit[a].s
    BY <1>1 DEF BindingInv, AloneIsAlone, P!Midway
  <2> QED BY <1>1, <1>2, <2>1 DEF BoundIsRight, Rightful
<1>5. ReadIsCurrent'
  BY <1>1, <1>3 DEF BindingInv, ReadIsCurrent, P!Begun
<1>6. AloneIsAlone'
  BY <1>1, <1>3 DEF BindingInv, AloneIsAlone, P!Midway
<1> QED
  BY <1>4, <1>5, <1>6 DEF BindingInv

\* A rollback binds what the commit had found there.
LEMMA RollBackKeeps ==
    ASSUME PairTypes, BindingInv, NEW a \in P!Agents, P!RollBack(a)
    PROVE  BindingInv'
<1>1. /\ commit[a].step = "rollback" /\ bound' = commit[a].prev /\ torn' = (torn \/ ~commit[a].alone)
      /\ pin' = pin /\ store' = store /\ leftover' = leftover
  BY DEF P!RollBack
<1>2. \A x : Rightful(x)' <=> Rightful(x)
  BY <1>1 DEF Rightful
<1>3. BoundIsRight'
  BY <1>1, <1>2 DEF BindingInv, AloneIsAlone, BoundIsRight, P!Midway
<1>4. ReadIsCurrent'
  BY RollBackIs, IdleIs DEF ReadIsCurrent, Kept, P!Begun
<1>5. AloneIsAlone'
  BY RollBackIs, IdleIs DEF AloneIsAlone, Kept, P!Begun, P!Midway
<1> QED
  BY <1>3, <1>4, <1>5 DEF BindingInv

\* What the tool writes was bound already, or it tears the pairing.
LEMMA SettingsKeep ==
    ASSUME PairTypes, BindingInv, P!SettingsWrite
    PROVE  BindingInv'
<1>1. /\ torn' = (torn \/ settings # {bound})
      /\ pin' = pin /\ store' = store /\ leftover' = leftover
      /\ settings = {bound} => bound' = bound
  BY DEF P!SettingsWrite
<1>2. CASE settings = {bound}
  <2>1. \A b \in P!Agents : GoesOn(b)
    BY SettingsWriteIs DEF Kept, GoesOn
  <2> QED BY <1>1, <1>2, <2>1, BindingRests
<1>3. CASE settings # {bound}
  <2>1. torn'
    BY <1>1, <1>3
  <2>2. \A b \in P!Agents : commit'[b].alone => commit'[b].step \notin P!Begun
    BY <1>3, SettingsWriteIs DEF Kept
  <2> QED BY <2>1, <2>2 DEF BindingInv, BoundIsRight, ReadIsCurrent, AloneIsAlone, P!Begun, P!Midway
<1> QED
  BY <1>2, <1>3

\* A release unbinds the child with the pairing.
LEMMA UnpairKeeps ==
    ASSUME PairTypes, BindingInv, DaemonInv, NEW lands \in BOOLEAN, P!Unpair(lands)
    PROVE  BindingInv'
<1>1. /\ daemon.mode = "releasing" /\ bound' = bound /\ store' = store /\ leftover' = leftover
      /\ commit' = commit /\ torn' = (torn \/ pin # daemon.floor \/ (pin # None /\ pin.s # daemon.s))
  BY DEF P!Unpair
<1>2. pin # None /\ daemon.s \notin store \ leftover
  BY <1>1 DEF DaemonInv, PairedHasPin, ReleasedIsCleared
<1>3. CASE pin' = pin
  BY <1>1, <1>3, AllContinue, BindingRests
<1>4. CASE pin' = None
  <2>1. \A x : ~torn' /\ Rightful(x) => Rightful(x)'
    BY <1>1, <1>2, <1>4 DEF Rightful
  <2>2. BoundIsRight'
    BY <1>1, <2>1 DEF BindingInv, BoundIsRight, P!Committing
  <2>3. ReadIsCurrent'
    BY <1>1 DEF BindingInv, ReadIsCurrent
  <2>4. AloneIsAlone'
    <3> SUFFICES ASSUME NEW a \in P!Agents, commit[a].step \in P!Midway, commit[a].alone
                 PROVE  /\ bound = commit[a].s
                        /\ \A b \in P!Agents \ {a} : commit[b].step \notin P!Midway
                        /\ ~torn' => Rightful(commit[a].prev)'
      BY <1>1 DEF AloneIsAlone
    <3> QED BY <1>1, <2>1 DEF BindingInv, AloneIsAlone
  <2> QED BY <2>2, <2>3, <2>4 DEF BindingInv
<1> QED
  BY <1>3, <1>4 DEF P!Unpair

\* What leaves the daemon, the pin and the rules be keeps the daemon's invariant.
LEMMA DaemonRests ==
    ASSUME DaemonInv, daemon' = daemon \/ daemon'.mode \in {"down", "unpaired"},
           pin # None => pin' # None,
           daemon.mode = "releasing" => store' \ leftover' \subseteq store \ leftover
    PROVE  DaemonInv'
BY DEF DaemonInv, PairedHasPin, ReleasedIsCleared

\* What the daemon obeys is on disk, whatever the commits do.
LEMMA DaemonStep ==
    ASSUME PairTypes, DaemonInv, P!Next
    PROVE  DaemonInv'
<1>1. CASE P!Tick \/ P!Mint \/ P!Spend \/ P!SpendFails \/ P!SettingsRead \/ P!SettingsWrite
  BY <1>1, DaemonRests DEF P!Tick, P!Mint, P!Spend, P!SpendFails, P!SettingsRead, P!SettingsWrite,
     P!disk, P!history
<1>2. CASE P!Boot
  <2>1. CASE pin = None
    <3>1. daemon' = P!Unpaired
      BY <1>2, <2>1 DEF P!Boot
    <3> QED BY <1>2, <2>1, <3>1, DownIs, DaemonRests DEF P!Boot, P!disk, P!history
  <2>2. CASE pin # None
    <3>1. daemon' = [P!Down EXCEPT !.mode = "paired", !.g = pin.g, !.s = pin.s]
      BY <1>2, <2>2 DEF P!Boot
    <3>2. daemon'.mode = "paired"
      BY <3>1 DEF P!Down
    <3> QED BY <1>2, <2>2, <3>2 DEF P!Boot, P!disk, DaemonInv, PairedHasPin, ReleasedIsCleared
  <2> QED BY <2>1, <2>2
<1>3. CASE P!Clause
  BY <1>3 DEF P!Clause, P!history, DaemonInv, PairedHasPin, ReleasedIsCleared
<1>4. ASSUME NEW g \in Guardians, P!Disconnect(g) \/ \E t \in 1 .. MaxTokens : P!Publish(g, t)
      PROVE  DaemonInv'
  BY <1>4, DaemonRests DEF P!Disconnect, P!Publish, P!disk, P!history
<1>5. ASSUME NEW heard \in SUBSET offers, P!Listen(heard)
      PROVE  DaemonInv'
  BY <1>5, DaemonRests DEF P!Listen, P!disk, P!history
<1>6. ASSUME NEW g \in Guardians, NEW s \in 1 .. MaxCommits, NEW replace \in BOOLEAN, P!Link(g, s, replace)
      PROVE  DaemonInv'
  BY <1>6, DaemonRests DEF P!Link, P!disk, P!history
<1>7. ASSUME NEW a \in P!Agents,
             P!Bind(a) \/ P!BindFails(a) \/ P!PinFails(a) \/ P!RollBack(a) \/ P!RollBackFails(a)
      PROVE  DaemonInv'
  BY <1>7, DaemonRests DEF P!Bind, P!BindFails, P!PinFails, P!RollBack, P!RollBackFails, P!disk, P!history
<1>8. ASSUME NEW a \in P!Agents, P!Pin(a)
      PROVE  DaemonInv'
  <2>1. pin' # None
    <3>1. pin' \in Pairings
      BY <1>8 DEF PairTypes, Pairings, P!Pin
    <3> QED BY <3>1, NoneIsNoPairing DEF Pairings
  <2> QED BY <1>8, <2>1, DaemonRests DEF P!Pin
<1>9. ASSUME NEW a \in P!Agents, P!Purge(a) \/ P!PurgeFails(a) \/ P!Restart(a)
      PROVE  DaemonInv'
  <2>1. CASE P!Purge(a)
    BY <2>1, DaemonRests DEF P!Purge, P!history
  <2>2. CASE P!PurgeFails(a)
    BY <2>2, DaemonRests DEF P!PurgeFails, P!disk
  <2>3. CASE P!Restart(a)
    BY <2>3, DownIs, DaemonRests DEF P!Restart, P!Cut, P!disk
  <2> QED BY <1>9, <2>1, <2>2, <2>3
<1>10. ASSUME NEW who \in {{"listener"}, {"tool"}, P!Agents}, P!Crash(who)
       PROVE  DaemonInv'
  BY <1>10, DownIs, DaemonRests DEF P!Crash, P!Cut, P!disk
<1>11. ASSUME NEW r \in releases, NEW lands \in BOOLEAN, P!Release(r, lands)
       PROVE  DaemonInv'
  <2>1. daemon'.s = daemon.s /\ daemon.mode = "paired"
    BY <1>11 DEF P!Release, P!Admits, PairTypes, Daemons
  <2>2. PairedHasPin'
    BY <1>11, <2>1 DEF P!Release, DaemonInv, PairedHasPin
  <2>3. daemon.s \notin store' \ leftover'
    BY <1>11 DEF P!Release
  <2> QED BY <2>1, <2>2, <2>3 DEF DaemonInv, ReleasedIsCleared
<1>12. ASSUME NEW lands \in BOOLEAN, P!Unpair(lands)
       PROVE  DaemonInv'
  BY <1>12, DownIs DEF P!Unpair, DaemonInv, PairedHasPin, ReleasedIsCleared
<1> QED
  BY <1>1, <1>2, <1>3, <1>4, <1>5, <1>6, <1>7, <1>8, <1>9, <1>10, <1>11, <1>12 DEF P!Next

\* And so what is said of the binding holds after every step.
LEMMA BindingStep ==
    ASSUME PairTypes, BindingInv, DaemonInv, P!Next
    PROVE  BindingInv'
<1>1. CASE \/ P!Tick \/ P!Mint \/ P!Spend \/ P!SpendFails \/ P!Boot \/ P!Clause \/ P!SettingsRead
           \/ \E g \in Guardians : P!Disconnect(g) \/ \E t \in 1 .. MaxTokens : P!Publish(g, t)
           \/ \E who \in {{"listener"}, {"tool"}, P!Agents} : P!Crash(who)
           \/ \E r \in releases, lands \in BOOLEAN : P!Release(r, lands)
  BY <1>1, BindingStepsAside
<1>2. CASE \/ \E heard \in SUBSET offers : P!Listen(heard)
           \/ \E g \in Guardians, s \in 1 .. MaxCommits, replace \in BOOLEAN : P!Link(g, s, replace)
           \/ \E a \in P!Agents : \/ P!BindFails(a) \/ P!PinFails(a) \/ P!RollBackFails(a)
                                   \/ P!Purge(a) \/ P!PurgeFails(a) \/ P!Restart(a)
  BY <1>2, BindingCommitsAside
<1>3. CASE \E a \in P!Agents : P!Bind(a) \/ P!Pin(a) \/ P!RollBack(a)
  BY <1>3, BindKeeps, PinKeeps, RollBackKeeps
<1>4. CASE P!SettingsWrite \/ \E lands \in BOOLEAN : P!Unpair(lands)
  BY <1>4, SettingsKeep, UnpairKeeps
<1> QED
  BY <1>1, <1>2, <1>3, <1>4 DEF P!Next

\* The invariant gives the promise of the rules.
LEMMA RulesFollow == BindingInv => P!RulesFollowThePin
BY DEF BindingInv, BoundIsRight, Rightful, P!RulesFollowThePin, P!ChildFollowsThePin, P!NobodysRulesStay

-----------------------------------------------------------------------------
(* Pairing: a token and a release act once. *)

\* The listener is about to pin, with token t, or has, and is to spend it.
Pinning(t) == commit["listener"].step \in P!Begun /\ commit["listener"].token = t
Spending(t) == commit["listener"].step = "spend" /\ commit["listener"].token = t

\* A token is minted before it is shown or answered.
TokensAreMinted ==
  /\ token # None => token.id <= minted
  /\ commit["listener"].step # "idle" =>
       commit["listener"].token \in Nat /\ commit["listener"].token <= minted

\* A token that has pinned is spent, or is being spent, and pins nobody else.
PinnedIsSpent(t) ==
  /\ \A g, h \in pinnedBy[t] : g = h
  /\ pinnedBy[t] # {} => t <= minted /\ ~Pinning(t) /\ (token = None \/ token.id # t \/ Spending(t))
TokenInv == \A t \in (1 .. MaxTokens) \ kept : PinnedIsSpent(t)

\* A release that the daemon carries out is no older than the pairing it found.
FloorHolds ==
  daemon.mode = "releasing" /\ daemon.floor # None => daemon.release.at >= daemon.floor.at

\* What the listener does in a step of another's, or in its own when that is neither
\* reading the token nor pinning.
ListenerGoesOn ==
  \/ /\ commit'["listener"].step = commit["listener"].step \/
          {commit["listener"].step, commit'["listener"].step} \subseteq P!Begun
     /\ commit'["listener"].token = commit["listener"].token
  \/ /\ commit'["listener"].step \notin P!Begun \cup {"spend"}
     /\ commit'["listener"].step # "idle" =>
          commit["listener"].step # "idle" /\ commit'["listener"].token = commit["listener"].token
     /\ commit["listener"].step = "spend" => token' = None \/ commit["listener"].token \in kept'

\* What leaves the tokens, the pins and the listener be keeps the tokens' invariant.
LEMMA TokenRests ==
    ASSUME TokensAreMinted, TokenInv, pinnedBy' = pinnedBy, kept \subseteq kept', minted' = minted,
           token' \in {token, None}, ListenerGoesOn
    PROVE  TokensAreMinted' /\ TokenInv'
<1>1. TokensAreMinted'
  BY DEF TokensAreMinted, ListenerGoesOn, P!Begun, P!Midway
<1>2. ASSUME NEW t \in (1 .. MaxTokens) \ kept'
      PROVE  PinnedIsSpent(t)'
  <2>1. PinnedIsSpent(t)
    BY <1>2 DEF TokenInv
  <2>2. Pinning(t)' => Pinning(t)
    BY DEF ListenerGoesOn, Pinning, P!Begun, P!Midway
  <2>3. Spending(t) => Spending(t)' \/ token' = None
    BY <1>2 DEF ListenerGoesOn, Spending, P!Begun, P!Midway
  <2> QED BY <2>1, <2>2, <2>3 DEF PinnedIsSpent
<1> QED
  BY <1>1, <1>2 DEF TokenInv

\* A listener whose commit rests goes on.
LEMMA ListenerRests ==
    commit'["listener"] = commit["listener"] \/ commit' = commit => ListenerGoesOn
BY DEF ListenerGoesOn

\* A listener that is idle spends no token.
LEMMA ListenerIdles ==
    ASSUME commit'["listener"] = P!Idle,
           commit["listener"].step = "spend" => commit["listener"].token \in kept'
    PROVE  ListenerGoesOn
BY IdleIs DEF ListenerGoesOn, P!Begun, P!Midway

\* The steps outside a commit keep the tokens' invariant.
LEMMA TokenStepsAside ==
    ASSUME PairTypes, TokensAreMinted, TokenInv,
           \/ P!Tick \/ P!Spend \/ P!SpendFails \/ P!Boot \/ P!Clause \/ P!SettingsRead \/ P!SettingsWrite
           \/ \E g \in Guardians : P!Disconnect(g) \/ \E t \in 1 .. MaxTokens : P!Publish(g, t)
           \/ \E who \in {{"listener"}, {"tool"}, P!Agents} : P!Crash(who)
           \/ \E r \in releases, lands \in BOOLEAN : P!Release(r, lands)
           \/ \E lands \in BOOLEAN : P!Unpair(lands)
    PROVE  TokensAreMinted' /\ TokenInv'
<1>0. "listener" \in P!Agents
  BY DEF P!Agents
<1>1. CASE P!Tick \/ P!Boot \/ P!Clause \/ P!SettingsRead
  BY <1>1, ListenerRests, TokenRests DEF P!Tick, P!Boot, P!Clause, P!SettingsRead, P!disk, P!history
<1>2. CASE P!Spend
  <2>1. /\ commit'["listener"] = [commit["listener"] EXCEPT !.step = "purge"]
        /\ commit["listener"] \in Commits /\ commit["listener"].step = "spend" /\ token' = None
    BY <1>0, <1>2, TypesGoes DEF P!Spend, PairTypes, Steps
  <2>2. commit'["listener"].step = "purge" /\ commit'["listener"].token = commit["listener"].token
    BY <2>1 DEF Commits
  <2>3. ListenerGoesOn
    BY <2>1, <2>2 DEF ListenerGoesOn, P!Begun, P!Midway
  <2> QED BY <1>2, <2>3, TokenRests DEF P!Spend, P!history
<1>3. CASE P!SpendFails
  <2>1. commit'["listener"] = P!Idle
    BY <1>0, <1>3, TypesIdles DEF P!SpendFails
  <2>2. ListenerGoesOn
    BY <1>3, <2>1, ListenerIdles DEF P!SpendFails
  <2> QED BY <1>3, <2>2, TokenRests DEF P!SpendFails, P!disk
<1>4. CASE P!SettingsWrite
  <2>1. ListenerGoesOn
    BY <1>0, <1>4, SettingsWriteIs DEF Kept, ListenerGoesOn
  <2> QED BY <1>4, <2>1, TokenRests DEF P!SettingsWrite
<1>5. CASE \E g \in Guardians : P!Disconnect(g) \/ \E t \in 1 .. MaxTokens : P!Publish(g, t)
  BY <1>5, ListenerRests, TokenRests DEF P!Disconnect, P!Publish, P!disk, P!history
<1>6. ASSUME NEW who \in {{"listener"}, {"tool"}, P!Agents}, P!Crash(who)
      PROVE  TokensAreMinted' /\ TokenInv'
  <2>1. CASE "listener" \in who
    <3>1. /\ commit'["listener"] = P!Idle
          /\ (commit["listener"].step = "spend" => commit["listener"].token \in kept')
      BY <1>0, <1>6, <2>1 DEF P!Crash, P!Cut
    <3> QED BY <1>6, <3>1, ListenerIdles, TokenRests DEF P!Crash, P!Cut, P!disk
  <2>2. CASE "listener" \notin who
    <3>1. commit'["listener"] = commit["listener"]
      BY <1>0, <1>6, <2>2 DEF P!Crash
    <3> QED BY <1>6, <3>1, ListenerRests, TokenRests DEF P!Crash, P!Cut, P!disk
  <2> QED BY <2>1, <2>2
<1>7. CASE \/ \E r \in releases, lands \in BOOLEAN : P!Release(r, lands)
           \/ \E lands \in BOOLEAN : P!Unpair(lands)
  BY <1>7, ListenerRests, TokenRests DEF P!Release, P!Unpair
<1> QED
  BY <1>1, <1>2, <1>3, <1>4, <1>5, <1>6, <1>7

\* So do the steps of a commit that neither pin nor spend.
LEMMA TokenCommitsAside ==
    ASSUME PairTypes, TokensAreMinted, TokenInv,
           \/ \E g \in Guardians, s \in 1 .. MaxCommits, replace \in BOOLEAN : P!Link(g, s, replace)
           \/ \E a \in P!Agents : \/ P!Bind(a) \/ P!BindFails(a) \/ P!PinFails(a) \/ P!RollBack(a)
                                   \/ P!RollBackFails(a) \/ P!Purge(a) \/ P!PurgeFails(a) \/ P!Restart(a)
    PROVE  TokensAreMinted' /\ TokenInv'
<1>0. "listener" \in P!Agents
  BY DEF P!Agents
<1>1. ASSUME NEW g \in Guardians, NEW s \in 1 .. MaxCommits, NEW replace \in BOOLEAN, P!Link(g, s, replace)
      PROVE  TokensAreMinted' /\ TokenInv'
  <2>1. commit'["listener"] = commit["listener"]
    BY <1>0, <1>1 DEF P!Link, P!Started, PairTypes
  <2> QED BY <1>1, <2>1, ListenerRests, TokenRests DEF P!Link, P!disk, P!history
<1>2. ASSUME NEW a \in P!Agents, P!Bind(a)
      PROVE  TokensAreMinted' /\ TokenInv'
  <2>1. ListenerGoesOn
    <3>1. CASE a = "listener"
      <4>1. commit'["listener"].step = "pin" /\ commit'["listener"].token = commit["listener"].token
        BY <1>2, <3>1, BindIs
      <4>2. commit["listener"].step = "bind"
        BY <1>2, <3>1 DEF P!Bind
      <4>3. {commit["listener"].step, commit'["listener"].step} \subseteq P!Begun
        BY <4>1, <4>2 DEF P!Begun, P!Midway
      <4> QED BY <4>1, <4>3 DEF ListenerGoesOn
    <3>2. CASE a # "listener"
      <4>1. Kept("listener")
        BY <1>0, <1>2, <3>2, BindIs
      <4> QED BY <4>1 DEF Kept, ListenerGoesOn
    <3> QED BY <3>1, <3>2
  <2> QED BY <1>2, <2>1, TokenRests DEF P!Bind, P!history
<1>3. ASSUME NEW a \in P!Agents, P!RollBack(a)
      PROVE  TokensAreMinted' /\ TokenInv'
  <2>1. ListenerGoesOn
    BY <1>0, <1>3, RollBackIs, IdleIs DEF Kept, ListenerGoesOn, P!RollBack, P!Begun, P!Midway
  <2> QED BY <1>3, <2>1, TokenRests DEF P!RollBack
<1>4. ASSUME NEW a \in P!Agents, P!BindFails(a) \/ P!RollBackFails(a)
      PROVE  TokensAreMinted' /\ TokenInv'
  <2>1. commit' = [commit EXCEPT ![a] = P!Idle] /\ commit[a].step # "spend"
    BY <1>4 DEF P!BindFails, P!RollBackFails
  <2>2. ListenerGoesOn
    BY <1>0, <2>1, TypesIdles, ListenerRests, ListenerIdles
  <2> QED BY <1>4, <2>2, TokenRests DEF P!BindFails, P!RollBackFails, P!disk, P!history
<1>5. ASSUME NEW a \in P!Agents, P!PinFails(a) \/ P!Purge(a) \/ P!PurgeFails(a)
      PROVE  TokensAreMinted' /\ TokenInv'
  <2>1. PICK x \in Steps : /\ P!Goes(a, x) /\ commit[a].step \notin {"idle", "spend"}
                           /\ \/ commit[a].step \in P!Begun /\ x \in P!Begun
                              \/ x \notin P!Begun \cup {"spend"}
    BY <1>5 DEF P!PinFails, P!Purge, P!PurgeFails, P!Begun, P!Midway, Steps
  <2>2. CASE a = "listener"
    <3>1. commit'["listener"] = [commit["listener"] EXCEPT !.step = x] /\ commit["listener"] \in Commits
      BY <1>0, <2>1, <2>2, TypesGoes DEF PairTypes
    <3>2. commit'["listener"].step = x /\ commit'["listener"].token = commit["listener"].token
      BY <3>1 DEF Commits
    <3>3. ListenerGoesOn
      BY <2>1, <2>2, <3>2 DEF ListenerGoesOn
    <3> QED BY <1>5, <3>3, TokenRests DEF P!PinFails, P!Purge, P!PurgeFails, P!disk, P!history
  <2>3. CASE a # "listener"
    <3>1. ListenerGoesOn
      BY <1>0, <2>1, <2>3, TypesGoes, ListenerRests
    <3> QED BY <1>5, <3>1, TokenRests DEF P!PinFails, P!Purge, P!PurgeFails, P!disk, P!history
  <2> QED BY <2>2, <2>3
<1>6. ASSUME NEW a \in P!Agents, P!Restart(a)
      PROVE  TokensAreMinted' /\ TokenInv'
  <2>1. commit'["listener"] = P!Idle
    BY <1>0, <1>6 DEF P!Restart
  <2>2. commit["listener"].step = "spend" => commit["listener"].token \in kept'
    BY <1>0, <1>6 DEF P!Restart, P!Cut
  <2> QED BY <1>6, <2>1, <2>2, ListenerIdles, TokenRests DEF P!Restart, P!Cut, P!disk
<1> QED
  BY <1>1, <1>2, <1>3, <1>4, <1>5, <1>6

\* The steps that show a token, read it, and pin with it.
LEMMA TokenStep ==
    ASSUME PairTypes, TokensAreMinted, TokenInv, P!Next
    PROVE  TokensAreMinted' /\ TokenInv'
<1>0. "listener" \in P!Agents
  BY DEF P!Agents
<1>1. CASE P!Mint
  <2>1. token' = [id |-> minted + 1, at |-> clock] /\ minted' = minted + 1 /\ minted \in Nat
        /\ commit' = commit /\ pinnedBy' = pinnedBy /\ kept' = kept
    BY <1>1 DEF P!Mint, P!history, PairTypes
  <2>2. TokensAreMinted'
    BY <2>1 DEF TokensAreMinted
  <2>3. ASSUME NEW t \in (1 .. MaxTokens) \ kept
        PROVE  PinnedIsSpent(t)'
    BY <2>1 DEF TokenInv, PinnedIsSpent, Pinning
  <2> QED BY <2>1, <2>2, <2>3 DEF TokenInv
<1>2. ASSUME NEW heard \in SUBSET offers, P!Listen(heard)
      PROVE  TokensAreMinted' /\ TokenInv'
  <2>1. PICK g \in P!Choose(heard) : P!Started("listener", g, begun', token.id)
    BY <1>2 DEF P!Listen
  <2>2. token # None /\ token.id \in Nat /\ token' = token /\ commit["listener"].step = "idle"
        /\ minted' = minted /\ pinnedBy' = pinnedBy /\ kept' = kept
    BY <1>2, <2>1 DEF P!Listen, P!Choose, P!Live, P!disk, P!history, PairTypes
  <2>3. commit'["listener"].step = "bind" /\ commit'["listener"].token = token.id
    BY <1>0, <2>1 DEF P!Started, PairTypes
  <2>4. TokensAreMinted'
    BY <2>2, <2>3 DEF TokensAreMinted
  <2>5. ASSUME NEW t \in (1 .. MaxTokens) \ kept
        PROVE  PinnedIsSpent(t)'
    BY <2>2, <2>3 DEF TokenInv, PinnedIsSpent, Pinning, Spending
  <2> QED BY <2>2, <2>4, <2>5 DEF TokenInv
<1>3. ASSUME NEW a \in P!Agents, P!Pin(a)
      PROVE  TokensAreMinted' /\ TokenInv'
  <2>1. commit[a].step = "pin" /\ commit[a] \in Commits /\ token' = token /\ minted' = minted /\ kept' = kept
    BY <1>3 DEF P!Pin, PairTypes
  <2>2. CASE a = "listener"
    <3>1. commit'["listener"] = [commit["listener"] EXCEPT !.step = "spend"]
      BY <1>3, <2>1, <2>2, TypesGoes DEF P!Pin, Steps
    <3>2. commit'["listener"].step = "spend" /\ commit'["listener"].token = commit["listener"].token
      BY <2>1, <2>2, <3>1 DEF Commits
    <3>3. pinnedBy' = [pinnedBy EXCEPT ![commit["listener"].token] = @ \cup {commit["listener"].g}]
      BY <1>3, <2>2 DEF P!Pin
    <3>4. TokensAreMinted'
      BY <2>1, <2>2, <3>2 DEF TokensAreMinted
    <3>5. ASSUME NEW t \in (1 .. MaxTokens) \ kept
          PROVE  PinnedIsSpent(t)'
      <4>1. PinnedIsSpent(t)
        BY <3>5 DEF TokenInv
      <4>2. CASE t = commit["listener"].token
        <5>1. pinnedBy[t] = {}
          BY <2>1, <2>2, <4>1, <4>2 DEF PinnedIsSpent, Pinning, P!Begun, P!Midway
        <5>2. pinnedBy'[t] = {commit["listener"].g}
          BY <3>3, <4>2, <5>1 DEF PairTypes
        <5>3. t <= minted /\ Spending(t)' /\ ~Pinning(t)'
          BY <2>1, <2>2, <3>2, <4>2 DEF TokensAreMinted, Spending, Pinning, P!Begun, P!Midway
        <5> QED BY <2>1, <5>2, <5>3 DEF PinnedIsSpent
      <4>3. CASE t # commit["listener"].token
        <5>1. pinnedBy'[t] = pinnedBy[t]
          BY <3>3, <4>3 DEF PairTypes
        <5> QED BY <2>1, <2>2, <3>2, <4>1, <4>3, <5>1 DEF PinnedIsSpent, Pinning, Spending, P!Begun, P!Midway
      <4> QED BY <4>2, <4>3
    <3> QED BY <2>1, <3>4, <3>5 DEF TokenInv
  <2>3. CASE a # "listener"
    <3>1. a = "tool" /\ commit'["listener"] = commit["listener"]
      BY <1>0, <1>3, <2>1, <2>3, TypesGoes DEF P!Pin, Steps, P!Agents
    <3> QED BY <1>3, <3>1, ListenerRests, TokenRests DEF P!Pin
  <2> QED BY <2>2, <2>3
<1>4. CASE \/ P!Tick \/ P!Spend \/ P!SpendFails \/ P!Boot \/ P!Clause \/ P!SettingsRead \/ P!SettingsWrite
           \/ \E g \in Guardians : P!Disconnect(g) \/ \E t \in 1 .. MaxTokens : P!Publish(g, t)
           \/ \E who \in {{"listener"}, {"tool"}, P!Agents} : P!Crash(who)
           \/ \E r \in releases, lands \in BOOLEAN : P!Release(r, lands)
           \/ \E lands \in BOOLEAN : P!Unpair(lands)
  BY <1>4, TokenStepsAside
<1>5. CASE \/ \E g \in Guardians, s \in 1 .. MaxCommits, replace \in BOOLEAN : P!Link(g, s, replace)
           \/ \E a \in P!Agents : \/ P!Bind(a) \/ P!BindFails(a) \/ P!PinFails(a) \/ P!RollBack(a)
                                   \/ P!RollBackFails(a) \/ P!Purge(a) \/ P!PurgeFails(a) \/ P!Restart(a)
  BY <1>5, TokenCommitsAside
<1> QED
  BY <1>1, <1>2, <1>3, <1>4, <1>5 DEF P!Next

\* A pairing that is ended is no younger than the release, or not the one the daemon found.
LEMMA FloorRests ==
    ASSUME FloorHolds, P!OldReleaseEndsNothing, ended' = ended,
           daemon' = daemon \/ daemon'.mode # "releasing"
    PROVE  FloorHolds' /\ P!OldReleaseEndsNothing'
BY DEF FloorHolds, P!OldReleaseEndsNothing

\* The daemon's floor is the pairing it holds, so that an older release ends nothing.
LEMMA FloorStep ==
    ASSUME PairTypes, FloorHolds, P!OldReleaseEndsNothing, P!Next
    PROVE  FloorHolds' /\ P!OldReleaseEndsNothing'
<1>1. ASSUME NEW r \in releases, NEW lands \in BOOLEAN, P!Release(r, lands)
      PROVE  FloorHolds' /\ P!OldReleaseEndsNothing'
  <2>1. /\ daemon'.release = r /\ daemon'.floor = pin /\ ended' = ended
        /\ r.at >= IF pin = None THEN 0 ELSE pin.at
    BY <1>1 DEF P!Release, P!Admits, PairTypes, Daemons
  <2> QED BY <2>1 DEF FloorHolds, P!OldReleaseEndsNothing
<1>2. ASSUME NEW lands \in BOOLEAN, P!Unpair(lands)
      PROVE  FloorHolds' /\ P!OldReleaseEndsNothing'
  <2>1. daemon.mode = "releasing" /\ daemon'.mode = "down"
    BY <1>2, DownIs DEF P!Unpair
  <2>2. CASE ended' = ended
    BY <2>1, <2>2, FloorRests
  <2>3. CASE ended' # ended
    <3>1. /\ pin # None
          /\ ended' = ended \cup {[release |-> daemon.release, pin |-> pin, seen |-> daemon.floor]}
      BY <1>2, <2>3 DEF P!Unpair
    <3> DEFINE e == [release |-> daemon.release, pin |-> pin, seen |-> daemon.floor]
    <3>2. e.release.at >= e.pin.at \/ e.seen # e.pin
      BY <2>1, <3>1 DEF FloorHolds
    <3>3. ended' = ended \cup {e}
      BY <3>1
    <3> HIDE DEF e
    <3> QED BY <2>1, <3>2, <3>3 DEF FloorHolds, P!OldReleaseEndsNothing
  <2> QED BY <2>2, <2>3
<1>3. CASE P!Boot
  <2>1. daemon'.mode # "releasing"
    BY <1>3, DownIs DEF P!Boot, P!Down
  <2> QED BY <1>3, <2>1, FloorRests DEF P!Boot, P!history
<1>4. CASE P!Tick \/ P!Mint \/ P!Spend \/ P!SpendFails \/ P!Clause \/ P!SettingsRead \/ P!SettingsWrite
  BY <1>4, FloorRests DEF P!Tick, P!Mint, P!Spend, P!SpendFails, P!Clause, P!SettingsRead,
     P!SettingsWrite, P!history
<1>5. ASSUME NEW g \in Guardians, P!Disconnect(g) \/ \E t \in 1 .. MaxTokens : P!Publish(g, t)
      PROVE  FloorHolds' /\ P!OldReleaseEndsNothing'
  BY <1>5, FloorRests DEF P!Disconnect, P!Publish, P!history
<1>6. CASE \/ \E heard \in SUBSET offers : P!Listen(heard)
           \/ \E g \in Guardians, s \in 1 .. MaxCommits, replace \in BOOLEAN : P!Link(g, s, replace)
  BY <1>6, FloorRests DEF P!Listen, P!Link, P!history
<1>7. ASSUME NEW a \in P!Agents,
             P!Bind(a) \/ P!BindFails(a) \/ P!Pin(a) \/ P!PinFails(a) \/ P!RollBack(a)
             \/ P!RollBackFails(a) \/ P!Purge(a) \/ P!PurgeFails(a)
      PROVE  FloorHolds' /\ P!OldReleaseEndsNothing'
  BY <1>7, FloorRests DEF P!Bind, P!BindFails, P!Pin, P!PinFails, P!RollBack, P!RollBackFails,
     P!Purge, P!PurgeFails, P!history
<1>8. ASSUME NEW a \in P!Agents, P!Restart(a)
      PROVE  FloorHolds' /\ P!OldReleaseEndsNothing'
  BY <1>8, DownIs, FloorRests DEF P!Restart
<1>9. ASSUME NEW who \in {{"listener"}, {"tool"}, P!Agents}, P!Crash(who)
      PROVE  FloorHolds' /\ P!OldReleaseEndsNothing'
  BY <1>9, DownIs, FloorRests DEF P!Crash
<1> QED
  BY <1>1, <1>2, <1>3, <1>4, <1>5, <1>6, <1>7, <1>8, <1>9 DEF P!Next

-----------------------------------------------------------------------------
(* Pairing: the theorems. *)

PairingInv ==
  PairTypes /\ BindingInv /\ DaemonInv /\ TokensAreMinted /\ TokenInv /\ FloorHolds
  /\ P!OldReleaseEndsNothing

\* A computer nobody has paired.
LEMMA PairingInit == P!Init => PairingInv
<1> SUFFICES ASSUME P!Init
             PROVE  PairingInv
  OBVIOUS
<1>1. PairTypes /\ BindingInv /\ DaemonInv
  BY PairTypesInit, BindingInit
<1>2. commit["listener"].step = "idle" /\ commit["listener"].token = None
  BY IdleIs DEF P!Init, P!Agents, P!Idle
<1>3. TokensAreMinted
  BY <1>2 DEF P!Init, TokensAreMinted
<1>4. TokenInv
  BY DEF P!Init, TokenInv, PinnedIsSpent
<1>5. FloorHolds /\ P!OldReleaseEndsNothing
  BY DownIs DEF P!Init, FloorHolds, P!OldReleaseEndsNothing
<1> QED
  BY <1>1, <1>3, <1>4, <1>5 DEF PairingInv

\* Every step keeps the invariant of pairing.
LEMMA PairingStep ==
    ASSUME PairingInv, P!Next
    PROVE  PairingInv'
BY PairTypesStep, BindingStep, DaemonStep, TokenStep, FloorStep DEF PairingInv

\* And a computer of which another part moves.
LEMMA PairingRests ==
    ASSUME PairingInv, UNCHANGED pairingVars
    PROVE  PairingInv'
<1>1. PairTypes'
  BY DEF pairingVars, PairingInv, PairTypes
<1>2. BindingInv'
  BY DEF pairingVars, PairingInv, BindingInv, BoundIsRight, ReadIsCurrent, AloneIsAlone,
     Rightful, P!Committing
<1>3. DaemonInv'
  BY DEF pairingVars, PairingInv, DaemonInv, PairedHasPin, ReleasedIsCleared
<1>4. TokensAreMinted' /\ TokenInv'
  BY DEF pairingVars, PairingInv, TokensAreMinted, TokenInv, PinnedIsSpent, Pinning, Spending
<1>5. FloorHolds' /\ P!OldReleaseEndsNothing'
  BY DEF pairingVars, PairingInv, FloorHolds, P!OldReleaseEndsNothing
<1> QED
  BY <1>1, <1>2, <1>3, <1>4, <1>5 DEF PairingInv

\* Pairing counts with the Cardinality of its own FiniteSets.
LEMMA CountsAlike ==
    ASSUME NEW S
    PROVE  P!Cardinality(S) = Cardinality(S)
BY DEF P!Cardinality, Cardinality

\* The invariant gives the promise of the tokens.
LEMMA PinsOnce ==
    ASSUME PairTypes, TokenInv
    PROVE  P!TokenPinsOnce
<1> SUFFICES ASSUME NEW t \in (1 .. MaxTokens) \ kept
             PROVE  Cardinality(pinnedBy[t]) <= 1
  BY CountsAlike DEF P!TokenPinsOnce
<1>1. \A g, h \in pinnedBy[t] : g = h
  BY DEF TokenInv, PinnedIsSpent
<1>2. CASE pinnedBy[t] = {}
  BY <1>2, FS_EmptySet
<1>3. CASE pinnedBy[t] # {}
  <2>1. PICK g : pinnedBy[t] = {g}
    BY <1>1, <1>3
  <2> QED BY <2>1, FS_Singleton
<1> QED
  BY <1>2, <1>3

\* The inductive invariant of pairing, on a computer of whatever parts.
THEOREM PairingInvHolds == DeviceSpec => []PairingInv
<1>1. DeviceInit => PairingInv
  BY PairingInit DEF DeviceInit
<1>2. PairingInv /\ [DeviceNext]_<<part, vars, timeVars, pairingVars>> => PairingInv'
  BY PairingStep, PairingRests DEF DeviceNext
<1> QED
  BY <1>1, <1>2, PTL DEF DeviceSpec

\* The state of a pairing keeps its types (pair_token.rs, pair_commit.rs, pairing.json).
THEOREM PairingTypesHold == DeviceSpec => []PairTypes
<1>1. PairingInv => PairTypes
  BY DEF PairingInv
<1> QED
  BY <1>1, PairingInvHolds, PTL

\* Outside a commit the child is bound to the pinned guardian's subject and a computer
\* without a guardian keeps nobody's rules; a token pins one guardian and a release ends
\* no pairing younger than itself: with the exceptions the history variables name, for any
\* guardians, tokens, commits, crashes and failed writes (commit_pin, pair_token,
\* charter-pair, on_release).
THEOREM OneGuardianRulesHolds == DeviceSpec => []OneGuardianRules
<1>1. PairingInv => OneGuardianRules
  BY RulesFollow, PinsOnce DEF PairingInv, OneGuardianRules, P!NothingActsTwice
<1> QED
  BY <1>1, PairingInvHolds, PTL

-----------------------------------------------------------------------------
(* Numbers: the least and the greatest of two, and the minutes of a day. *)

\* The least and the greatest of two integers.
LEMMA OfTwo ==
    ASSUME NEW a \in Int, NEW b \in Int
    PROVE  /\ T!Min({a, b}) = IF a <= b THEN a ELSE b
           /\ T!Max({a, b}) = IF a >= b THEN a ELSE b
<1>1. /\ (CHOOSE x \in {a, b} : \A y \in {a, b} : x =< y) = IF a <= b THEN a ELSE b
      /\ (CHOOSE x \in {a, b} : \A y \in {a, b} : x >= y) = IF a >= b THEN a ELSE b
  OBVIOUS
<1> QED
  BY <1>1 DEF T!Min, T!Max

\* A time is a minute of its day.
LEMMA DaysAre ==
    ASSUME NEW t \in Nat
    PROVE  /\ t \div DayLen \in Nat /\ t % DayLen \in 0 .. DayLen - 1
           /\ (t \div DayLen) * DayLen <= t /\ t < (t \div DayLen + 1) * DayLen
           /\ t % DayLen = t - DayLen * (t \div DayLen)
BY DayLenAssumption

\* A minute between a day's first and the next day's is of that day.
LEMMA DayIs ==
    ASSUME NEW t \in Nat, NEW d \in Nat, d * DayLen <= t, t < (d + 1) * DayLen
    PROVE  t \div DayLen = d
BY DayLenAssumption

\* A later day begins when the earlier one is over, or after.
LEMMA DaysApart ==
    ASSUME NEW a \in Nat, NEW b \in Nat, a < b
    PROVE  (a + 1) * DayLen <= b * DayLen /\ a * DayLen \in Nat /\ b * DayLen \in Nat
<1>1. PICK e \in Nat : b = a + 1 + e
  <2>1. b - a - 1 \in Nat
    OBVIOUS
  <2> QED
    BY <2>1
<1>2. b * DayLen = (a + 1) * DayLen + e * DayLen
  BY <1>1, DayLenAssumption
<1>3. e * DayLen \in Nat /\ (a + 1) * DayLen \in Nat /\ a * DayLen \in Nat /\ b * DayLen \in Nat
  BY DayLenAssumption
<1> QED
  BY <1>2, <1>3

\* A minute on, the day is the same or a later one; a minute back it is the same, but at
\* midnight.
LEMMA DaysPass ==
    ASSUME NEW t \in Nat
    PROVE  /\ (t + 1) \div DayLen >= t \div DayLen
           /\ t % DayLen > 0 => t - 1 \in Nat /\ (t - 1) \div DayLen = t \div DayLen
           /\ (t + 1) % DayLen # 0 => ((t + 1) % DayLen) - 1 \in 0 .. DayLen - 1
<1> DEFINE q == t \div DayLen
           p == (t + 1) \div DayLen
<1>1. /\ q \in Nat /\ t % DayLen \in 0 .. DayLen - 1
      /\ q * DayLen <= t /\ t < (q + 1) * DayLen /\ t % DayLen = t - DayLen * q
  BY DaysAre
<1>2. t + 1 \in Nat
  OBVIOUS
<1>3. p \in Nat /\ (t + 1) % DayLen \in 0 .. DayLen - 1 /\ t + 1 < (p + 1) * DayLen
  BY <1>2, DaysAre
<1>4. p >= q
  <2>1. ASSUME p < q PROVE FALSE
    <3> HIDE DEF p, q
    <3>1. (p + 1) * DayLen <= q * DayLen /\ q * DayLen \in Nat
      BY <1>1, <1>3, <2>1, DaysApart
    <3>2. (p + 1) * DayLen \in Nat
      BY <1>3, DayLenAssumption
    <3> QED
      BY <1>1, <1>3, <3>1, <3>2
  <2> HIDE DEF p, q
  <2> QED
    BY <1>1, <1>3, <2>1
<1>5. ASSUME t % DayLen > 0 PROVE t - 1 \in Nat /\ (t - 1) \div DayLen = q
  <2>1. DayLen * q = q * DayLen /\ q * DayLen \in Nat /\ (q + 1) * DayLen \in Nat
    <3> HIDE DEF q
    <3> QED
      BY <1>1, DayLenAssumption
  <2>2. q * DayLen <= t - 1 /\ t - 1 < (q + 1) * DayLen /\ t - 1 \in Nat
    <3> DEFINE m == q * DayLen
               n == (q + 1) * DayLen
               r == t % DayLen
    <3>1. m \in Nat /\ n \in Nat /\ r = t - m /\ r \in Int /\ r > 0 /\ t < n
      BY <1>1, <1>5, <2>1, DayLenAssumption
    <3> HIDE DEF m, n, r
    <3>2. m <= t - 1 /\ t - 1 < n /\ t - 1 \in Nat
      BY <3>1
    <3> QED
      BY <3>2 DEF m, n
  <2> HIDE DEF q
  <2> QED
    BY <1>1, <2>2, DayIs
<1> QED
  BY <1>3, <1>4, <1>5, DayLenAssumption

-----------------------------------------------------------------------------
(* What a child has left. *)

\* Why a child is locked, and what is left of a stand-down's grace, if one stands.
Reasons == {"malformed", "standdown", "schedule", "budget"}
Countdowns == Nat \cup {None}

\* A limit is unlimited or some minutes.
Limits == {n \in Int : n >= -1}

\* Of two limits the shorter one holds (min_unbounded).
LEMMA MinUnboundedIs ==
    ASSUME NEW a \in Limits, NEW b \in Limits
    PROVE  /\ T!MinUnbounded(a, b) \in Limits
           /\ T!MinUnbounded(a, b) = 0 <=> a = 0 \/ b = 0
BY OfTwo DEF T!MinUnbounded, Limits

\* Whoever is locked is so for a reason: a stand-down whose grace is over locks, and of a
\* lock by the budget the budget is spent (compute_remaining).
LEMMA BreakdownIs ==
    ASSUME NEW schedule \in Limits, NEW budget \in Limits, NEW down \in Countdowns,
           NEW c, c = T!Breakdown(schedule, budget, down)
    PROVE  /\ c.locked \in BOOLEAN
           /\ c.locked <=> schedule = 0 \/ budget = 0 \/ down = 0
           /\ c.locked => c.why \in Reasons
           /\ ~c.locked => c.why = None
           /\ down = 0 => c.why \in {"malformed", "standdown"}
           /\ c.why = "malformed" => setup.sched = "unreadable" \/ ~c.locked
           /\ c.why = "standdown" => down = 0
           /\ c.why = "budget" => budget = 0
           /\ c.schedule = schedule /\ c.budget = budget
<1>1. None \notin Int /\ None \notin {"standdown", "budget"}
  BY NamesAssumption
<1> DEFINE charter == T!MinUnbounded(schedule, budget)
           left == IF down = None THEN charter ELSE T!MinUnbounded(charter, down)
<1>2. charter \in Limits /\ (charter = 0 <=> schedule = 0 \/ budget = 0)
  BY MinUnboundedIs
<1>3. left = 0 <=> charter = 0 \/ down = 0
  <2> HIDE DEF charter
  <2>1. CASE down = None
    BY <1>1, <2>1
  <2>2. CASE down # None
    <3>1. down \in Limits
      BY <2>2 DEF Countdowns, Limits
    <3> QED
      BY <1>2, <2>2, <3>1, MinUnboundedIs
  <2> QED
    BY <2>1, <2>2
<1> DEFINE why == IF left # 0 THEN None
                  ELSE IF setup.sched = "unreadable" THEN "malformed"
                  ELSE IF down = 0 THEN "standdown"
                  ELSE IF schedule = 0 THEN "schedule"
                  ELSE "budget"
           nil == left = 0
<1>4. c = [schedule |-> schedule, budget |-> budget, left |-> left, locked |-> nil, why |-> why]
  BY DEF T!Breakdown
<1>5. /\ c.schedule = schedule /\ c.budget = budget /\ c.locked = nil /\ c.why = why
  <2>1. nil \in BOOLEAN
    OBVIOUS
  <2> HIDE DEF left, nil, why
  <2> QED
    BY <1>4, <2>1
<1> HIDE DEF left, charter
<1>6. /\ nil \in BOOLEAN
      /\ nil <=> schedule = 0 \/ budget = 0 \/ down = 0
      /\ nil => why \in Reasons
      /\ ~nil => why = None
      /\ down = 0 => why \in {"malformed", "standdown"}
      /\ why = "malformed" => setup.sched = "unreadable" \/ ~nil
      /\ why = "standdown" => down = 0
      /\ why = "budget" => budget = 0
  <2>1. left = 0 <=> schedule = 0 \/ budget = 0 \/ down = 0
    BY <1>2, <1>3
  <2> QED
    BY <1>1, <2>1 DEF Reasons
<1> HIDE DEF nil, why
<1> QED
  BY <1>5, <1>6, Zenon

-----------------------------------------------------------------------------
(* The verdict of the times layer. *)

\* A day's extensions: counts of minutes, and the pools of the named times.
Ledgers ==
  [give : Nat, take : Nat, base : [day : Nat, week : Nat] \cup {None}, hours : Nat, cut : Nat,
   pools : [NamedTimes -> [left : Nat, at : Nat]]]

\* Every bounded set of naturals has a greatest.
LEMMA Greatest ==
    ASSUME NEW B, B \subseteq Nat, B # {}, NEW n \in Nat, \A k \in B : k <= n
    PROVE  T!Max(B) \in B /\ \A k \in B : k <= T!Max(B)
<1> DEFINE C == {n - k : k \in B}
<1>1. C \subseteq Nat /\ C # {}
  <2>1. \A k \in B : n - k \in Nat
    OBVIOUS
  <2> QED
    BY <2>1
<1>2. PICK c \in C : \A d \in C : c <= d
  <2> HIDE DEF C
  <2> QED
    BY <1>1, Least
<1>3. PICK m \in B : c = n - m
  OBVIOUS
<1>4. \A k \in B : m >= k
  <2> TAKE k \in B
  <2>1. c <= n - k
    BY <1>2
  <2> QED
    BY <1>3, <2>1
<1>5. (CHOOSE x \in B : \A y \in B : x >= y) \in B
      /\ \A y \in B : (CHOOSE x \in B : \A z \in B : x >= z) >= y
  BY <1>3, <1>4
<1> QED
  BY <1>5 DEF T!Max

\* The pools are numbered in the order they were topped up.
Numbered(l) == \E n \in Nat : \A id \in NamedTimes : l.pools[id].at <= n

\* Of the pools with minutes left one was topped up last (most_recent_time_pool).
LEMMA RecentIs ==
    ASSUME NEW l \in Ledgers, Numbered(l), T!Pools(l) # {}
    PROVE  T!RecentPool(l) \in T!Pools(l)
<1> DEFINE B == {l.pools[id].at : id \in T!Pools(l)}
<1>1. T!Pools(l) \subseteq NamedTimes /\ \A id \in NamedTimes : l.pools[id].at \in Nat
  BY DEF T!Pools, Ledgers
<1>2. PICK n \in Nat : \A id \in NamedTimes : l.pools[id].at <= n
  BY DEF Numbered
<1>3. B \subseteq Nat /\ B # {} /\ \A k \in B : k <= n
  BY <1>1, <1>2
<1>4. T!Max(B) \in B /\ \A k \in B : k <= T!Max(B)
  <2> HIDE DEF B
  <2> QED
    BY <1>3, Greatest
<1>5. \E id \in T!Pools(l) : \A j \in T!Pools(l) : l.pools[j].at <= l.pools[id].at
  BY <1>4
<1> QED
  BY <1>5 DEF T!RecentPool

\* What a verdict may be: the core's, a lock, a named time in its own span, or a named
\* time on minutes of its pool.
Verdict(v, c, l, clk) ==
  /\ v.is \in {"core", "locked", "named"}
  /\ v.is = "named" => v.pool \in BOOLEAN
  /\ v.is = "named" /\ v.pool =>
       ~T!PoolProof /\ c.why \in {"schedule", "budget"} /\ v.id \in T!Pools(l)
  /\ v.is = "named" /\ ~v.pool =>
       ~T!ScheduleClosed(clk) /\ (c.locked => c.why = "budget")

\* The core's own verdict, whatever it says.
LEMMA CoreIs == \A s : T!Core(s).is = "core"
BY DEF T!Core

\* The lock of the times layer.
LEMMA LockedOutIs == T!LockedOut.is = "locked"
BY DEF T!LockedOut

\* A named time runs, or locks where what it allows is not known (run_named).
LEMMA RunNamedIs ==
    ASSUME NEW id, NEW pool, NEW span, NEW left, NEW v, v = T!RunNamed(id, pool, span, left)
    PROVE  v.is = "locked" \/ (v.is = "named" /\ v.id = id /\ v.pool = pool)
BY LockedOutIs DEF T!RunNamed

\* fall_through says a pool with minutes left, or nothing.
LEMMA FallThroughIs ==
    ASSUME NEW l \in Ledgers, Numbered(l), NEW c, NEW clk, NEW whys,
           whys \subseteq {"schedule", "budget"}
    PROVE  Verdict(T!FallThrough(c, l, whys), c, l, clk)
<1> DEFINE v == T!FallThrough(c, l, whys)
           r == T!RecentPool(l)
<1>1. CASE ~T!PoolProof /\ c.why \in whys /\ T!Pools(l) # {}
  <2> DEFINE n == l.pools[r].left
             yes == TRUE
  <2>1. v = T!RunNamed(r, yes, n, n)
    BY <1>1 DEF T!FallThrough
  <2>2. v.is = "locked" \/ (v.is = "named" /\ v.id = r /\ v.pool = yes)
    <3> HIDE DEF v, r, n, yes
    <3> QED
      BY <2>1, RunNamedIs
  <2>3. r \in T!Pools(l)
    BY <1>1, RecentIs
  <2> HIDE DEF v, r
  <2> QED
    BY <1>1, <2>2, <2>3 DEF Verdict, v
<1>2. CASE ~(~T!PoolProof /\ c.why \in whys /\ T!Pools(l) # {})
  <2>1. v = T!Core(None)
    BY <1>2 DEF T!FallThrough
  <2>2. v.is = "core"
    BY <2>1, CoreIs
  <2> HIDE DEF v
  <2> QED
    BY <2>2 DEF Verdict, v
<1> QED
  BY <1>1, <1>2

\* decide says nothing else.
LEMMA DecideIs ==
    ASSUME setup \in TimeScenes, NEW l \in Ledgers, Numbered(l), NEW c,
           c.locked \in BOOLEAN, NEW clk
    PROVE  Verdict(T!Decide(c, l, clk), c, l, clk)
<1> DEFINE label == IF setup.sched = "set" THEN T!Label(clk) ELSE "free"
           span == T!Until(clk, LAMBDA b: b # label)
           v == T!Decide(c, l, clk)
           rest == IF label \in Counts THEN T!Min({span, T!MinUnbounded(c.budget, span)})
                   ELSE span
           no == FALSE
           own == T!RunNamed(label, no, span, rest)
           whole == T!RunNamed(label, no, span, span)
<1>0. /\ setup.sched \in {"none", "paused", "unreadable", "set"}
      /\ "closed" \notin NamedTimes /\ "free" \notin NamedTimes /\ "unknown" \notin NamedTimes
  BY ScenesAssumption, NamesAssumption
<1>1. \/ \E s : v = T!Core(s)
      \/ \E w \in SUBSET {"schedule", "budget"} : v = T!FallThrough(c, l, w)
      \/ v = T!LockedOut
      \/ /\ label # "closed" /\ setup.sched # "paused"
         /\ \/ v = own /\ ~c.locked
            \/ v = whole /\ c.why = "budget"
  <2> DEFINE X == v
  <2>1. v = CASE setup.sched = "unreadable" -> T!Core(None)
              [] label = "closed" \/ setup.sched = "paused" ->
                   T!FallThrough(c, l, {"schedule", "budget"})
              [] setup.sched \in {"none", "set"} /\ label = "unknown" -> T!LockedOut
              [] setup.sched \in {"none", "set"} /\ label = "free" ->
                   IF c.locked THEN T!FallThrough(c, l, {"budget"})
                   ELSE T!Core(IF setup.sched = "none" THEN None ELSE span)
              [] label \in NamedTimes ->
                   IF ~c.locked THEN own
                   ELSE IF c.why = "budget" /\ label \notin Counts THEN whole
                   ELSE IF c.why = "budget" THEN T!FallThrough(c, l, {"budget"})
                   ELSE T!Core(None)
              [] OTHER -> T!Core(None)
    BY DEF T!Decide
  <2>2. setup.sched = "unreadable" => label = "free"
    OBVIOUS
  <2>3. setup.sched = "paused" => label = "free"
    OBVIOUS
  <2> HIDE DEF v, label, own, whole, span
  <2>4. CASE setup.sched = "unreadable"
    <3>1. v = T!Core(None)
      BY <1>0, <2>1, <2>2, <2>4
    <3> QED
      BY <3>1
  <2>5. CASE setup.sched # "unreadable" /\ (label = "closed" \/ setup.sched = "paused")
    <3>1. v = T!FallThrough(c, l, {"schedule", "budget"})
      BY <1>0, <2>1, <2>3, <2>5
    <3> QED
      BY <3>1
  <2>6. CASE setup.sched \notin {"unreadable", "paused"} /\ label = "unknown"
    <3>1. v = T!LockedOut
      BY <1>0, <2>1, <2>6
    <3> QED
      BY <3>1
  <2>7. CASE setup.sched \notin {"unreadable", "paused"} /\ label = "free"
    <3>1. v = IF c.locked THEN T!FallThrough(c, l, {"budget"})
              ELSE T!Core(IF setup.sched = "none" THEN None ELSE span)
      BY <1>0, <2>1, <2>7
    <3> QED
      BY <3>1
  <2>8. CASE setup.sched \notin {"unreadable", "paused"} /\ label \in NamedTimes
    <3>0. label # "closed" /\ label # "free" /\ label # "unknown"
      BY <1>0, <2>8
    <3>1. v = IF ~c.locked THEN own
              ELSE IF c.why = "budget" /\ label \notin Counts THEN whole
              ELSE IF c.why = "budget" THEN T!FallThrough(c, l, {"budget"})
              ELSE T!Core(None)
      BY <2>1, <2>8, <3>0
    <3> QED
      BY <2>8, <3>0, <3>1
  <2>9. CASE setup.sched \notin {"unreadable", "paused"}
               /\ label \notin NamedTimes \cup {"closed", "free", "unknown"}
    <3>1. v = T!Core(None)
      BY <2>1, <2>9
    <3> QED
      BY <3>1
  <2> QED
    BY <1>0, <2>4, <2>5, <2>6, <2>7, <2>8, <2>9
<1>2. CASE \E s : v = T!Core(s)
  <2>1. v.is = "core"
    BY <1>2, CoreIs
  <2> HIDE DEF v
  <2> QED
    BY <2>1 DEF Verdict, v
<1>3. CASE \E w \in SUBSET {"schedule", "budget"} : v = T!FallThrough(c, l, w)
  BY <1>3, FallThroughIs
<1>4. CASE v = T!LockedOut
  <2>1. v.is = "locked"
    BY <1>4, LockedOutIs
  <2> HIDE DEF v
  <2> QED
    BY <2>1 DEF Verdict, v
<1>5. CASE /\ label # "closed" /\ setup.sched # "paused"
           /\ \/ v = own /\ ~c.locked
              \/ v = whole /\ c.why = "budget"
  <2>1. ~T!ScheduleClosed(clk)
    BY <1>5 DEF T!ScheduleClosed
  <2>2. v.is = "locked" \/ (v.is = "named" /\ v.pool = FALSE)
    <3>1. /\ own.is = "locked" \/ (own.is = "named" /\ own.pool = no)
          /\ whole.is = "locked" \/ (whole.is = "named" /\ whole.pool = no)
      <4> HIDE DEF label, span, rest, no
      <4> QED
        BY RunNamedIs
    <3> HIDE DEF own, whole, v
    <3> QED
      BY <1>5, <3>1
  <2> HIDE DEF v, label, span, own, whole
  <2> QED
    BY <1>5, <2>1, <2>2 DEF Verdict, v
<1> QED
  BY <1>1, <1>2, <1>3, <1>4, <1>5

\* resolve changes a free span at most.
LEMMA ResolvedIs ==
    ASSUME setup \in TimeScenes, NEW l \in Ledgers, Numbered(l), NEW c,
           c.locked \in BOOLEAN, NEW clk
    PROVE  Verdict(T!Resolved(c, l, clk), c, l, clk)
<1> DEFINE d == T!Decide(c, l, clk)
           v == T!Resolved(c, l, clk)
<1>1. Verdict(d, c, l, clk)
  BY DecideIs
<1>2. v = d \/ (d.is = "core" /\ v = T!Core(None))
  <2>1. v = IF d.is = "core" /\ d.span # None
              THEN IF T!Minute(clk) + d.span = DayLen \/ T!Label(clk + d.span) = "closed"
                     THEN T!Core(None) ELSE d
            ELSE d
    BY DEF T!Resolved
  <2> HIDE DEF v, d
  <2> QED
    BY <2>1
<1>3. T!Core(None).is = "core"
  BY CoreIs
<1> HIDE DEF v, d
<1>4. CASE v = d
  BY <1>1, <1>4 DEF v
<1>5. CASE v = T!Core(None)
  BY <1>3, <1>5 DEF Verdict, v
<1> QED
  BY <1>2, <1>4, <1>5

-----------------------------------------------------------------------------
(* Types. *)

\* The use of a device: minutes of a day, the one that ran into midnight, the week's rest.
Meters == [own : SUBSET (0 .. DayLen - 1), cross : {0, 1}, past : Nat]

\* The state of a child's time; a view's journal is finite.
TimeTypes ==
  /\ setup \in TimeScenes /\ todo \subseteq setup.events
  /\ time \in Nat /\ slow \in Nat /\ slow <= time
  /\ meter \in Meters /\ away \in Meters
  /\ view # None =>
       /\ view.day \in Nat /\ view.used \in Nat /\ view.week \in Nat
       /\ view.slots # None => IsFiniteSet(view.slots)
  /\ ledger \in Ledgers /\ Numbered(ledger) /\ cap \in Caps
  /\ outside \in Int /\ gracePin.at \in Nat
  /\ order # None => order.until \in Nat

\* TimeLeft counts with the Cardinality of its own FiniteSets.
LEMMA Counted == \A S : T!Cardinality(S) = Cardinality(S)
BY DEF T!Cardinality, Cardinality

\* A day has finitely many minutes.
LEMMA MinutesFinite ==
    ASSUME NEW S, S \subseteq 0 .. DayLen - 1
    PROVE  IsFiniteSet(S) /\ Cardinality(S) \in Nat
<1>1. IsFiniteSet(0 .. DayLen - 1)
  BY DayLenAssumption, FS_Interval
<1>2. IsFiniteSet(S)
  BY <1>1, FS_Subset
<1> QED
  BY <1>2, FS_CardinalityType

\* A device's use is a number of minutes.
LEMMA UsedIs ==
    ASSUME NEW m \in Meters
    PROVE  /\ T!Used(m) = Cardinality(m.own) + m.cross /\ T!Used(m) \in Nat
           /\ IsFiniteSet(m.own) /\ Cardinality(m.own) \in Nat
<1>1. m.own \subseteq 0 .. DayLen - 1 /\ m.cross \in Nat
  BY DEF Meters
<1>2. IsFiniteSet(m.own) /\ Cardinality(m.own) \in Nat
  BY <1>1, MinutesFinite
<1>3. T!Used(m) = Cardinality(m.own) + m.cross
  BY Counted DEF T!Used
<1> QED
  BY <1>1, <1>2, <1>3

\* The slots of some minutes are no more than they are.
LEMMA SlotsAre ==
    ASSUME NEW S, IsFiniteSet(S)
    PROVE  IsFiniteSet(T!Slots(S)) /\ Cardinality(T!Slots(S)) <= Cardinality(S)
           /\ Cardinality(T!Slots(S)) \in Nat
<1> DEFINE f == [i \in S |-> setup.slot[i]]
           R == {f[i] : i \in S}
<1>1. f \in Surjection(S, R)
  BY DEF Surjection
<1>2. IsFiniteSet(R) /\ Cardinality(R) <= Cardinality(S)
  BY <1>1, FS_Surjection
<1>3. R = T!Slots(S)
  BY DEF T!Slots
<1> QED
  BY <1>2, <1>3, FS_CardinalityType

\* So is the use of two (pooled_used).
LEMMA PooledIs ==
    ASSUME TimeTypes, NEW m \in Meters, NEW clk
    PROVE  T!Pooled(m, view, clk).day \in Nat /\ T!Pooled(m, view, clk).week \in Nat
<1> DEFINE union == T!Slots(m.own) \cup view.slots
           day == IF view = None \/ view.day # clk \div DayLen THEN T!Used(m)
                  ELSE IF view.slots # None /\ (m.own # {} \/ T!Used(m) = 0)
                    THEN T!Max({T!Cardinality(union), T!Used(m)})
                  ELSE T!Used(m) + view.used
           week == m.past + T!Used(m) + (IF view = None THEN 0 ELSE view.week)
<1>1. T!Pooled(m, view, clk).day = day /\ T!Pooled(m, view, clk).week = week
  BY DEF T!Pooled
<1>2. T!Used(m) \in Nat /\ IsFiniteSet(m.own) /\ m.past \in Nat
  BY UsedIs DEF Meters
<1>3. view # None /\ view.slots # None => T!Max({T!Cardinality(union), T!Used(m)}) \in Nat
  <2> SUFFICES ASSUME view # None, view.slots # None
               PROVE  T!Max({T!Cardinality(union), T!Used(m)}) \in Nat
    OBVIOUS
  <2>1. IsFiniteSet(T!Slots(m.own)) /\ IsFiniteSet(view.slots)
    BY <1>2, SlotsAre DEF TimeTypes
  <2>2. IsFiniteSet(union)
    BY <2>1, FS_Union
  <2>3. T!Cardinality(union) \in Nat
    BY <2>2, FS_CardinalityType, Counted
  <2> DEFINE a == T!Cardinality(union)
             b == T!Used(m)
  <2>4. a \in Nat /\ b \in Nat
    BY <1>2, <2>3
  <2> HIDE DEF a, b
  <2>5. T!Max({a, b}) = IF a >= b THEN a ELSE b
    BY <2>4, OfTwo
  <2> QED
    BY <2>4, <2>5 DEF a, b
<1>4. day \in Nat
  <2> HIDE DEF union
  <2> QED
    BY <1>2, <1>3 DEF TimeTypes
<1>5. week \in Nat
  BY <1>2 DEF TimeTypes
<1> QED
  BY <1>1, <1>4, <1>5

\* A part of the quota is spent when the use has come to the cap and what was added to it.
LEMMA PartIs ==
    ASSUME NEW limit \in Nat \cup {None}, NEW floor \in Nat \cup {None},
           NEW net \in Int, NEW used \in Nat
    PROVE  /\ limit = None => T!Part(limit, floor, net, used) = None
           /\ limit # None => T!Part(limit, floor, net, used) \in Int
           /\ limit # None /\ T!Part(limit, floor, net, used) <= 0 => used >= limit + net
<1>1. CASE limit = None
  BY <1>1 DEF T!Part
<1>2. CASE limit # None
  <2> DEFINE top == IF floor = None THEN limit ELSE T!Max({limit, floor})
  <2>1. top \in Nat /\ top >= limit
    <3>1. CASE floor = None
      BY <1>2, <3>1
    <3>2. CASE floor # None
      <4>1. limit \in Int /\ floor \in Int
        BY <1>2, <3>2
      <4>2. T!Max({limit, floor}) = IF limit >= floor THEN limit ELSE floor
        BY <4>1, OfTwo
      <4> QED
        BY <1>2, <3>2, <4>2
    <3> QED
      BY <3>1, <3>2
  <2>2. T!Part(limit, floor, net, used) = top + net - used
    BY <1>2 DEF T!Part
  <2> HIDE DEF top
  <2> QED
    BY <1>2, <2>1, <2>2
<1> QED
  BY <1>1, <1>2

\* The budget's minutes (quota_parts_signed_pooled): none under a clause nothing lifts,
\* and spent under a plain one only when the day or the week is.
LEMMA BudgetIs ==
    ASSUME TimeTypes, NEW m \in Meters, NEW l \in Ledgers, NEW clk,
           NEW budget, budget = T!BudgetLeft(m, view, l, clk)
    PROVE  /\ budget \in Limits
           /\ cap.is \in {"paused", "unread"} => budget = 0
           /\ cap.is = "plain" /\ budget = 0 =>
                \/ cap.day # None /\ T!Pooled(m, view, clk).day >= cap.day + (l.give - l.take)
                \/ cap.week # None /\ T!Pooled(m, view, clk).week >= cap.week + (l.give - l.take)
<1> DEFINE p == T!Pooled(m, view, clk)
           base == IF l.base = None THEN [day |-> None, week |-> None] ELSE l.base
           net == l.give - l.take
           d == T!Part(cap.day, base.day, net, p.day)
           w == T!Part(cap.week, base.week, net, p.week)
           parts == T!QuotaParts(m, view, l, clk)
<1>1. cap.is \in {"none", "revoked", "paused", "unread", "plain"}
      /\ cap.day \in Nat \cup {None} /\ cap.week \in Nat \cup {None}
  BY DEF TimeTypes, Caps
<1>2. net \in Int /\ base.day \in Nat \cup {None} /\ base.week \in Nat \cup {None}
  BY DEF Ledgers
<1>3. p.day \in Nat /\ p.week \in Nat
  BY PooledIs
<1>4. parts = IF cap.is = "unread" THEN {0}
              ELSE IF cap.is \in {"none", "revoked"} THEN {}
              ELSE IF cap.is = "paused" THEN {0}
              ELSE {d, w} \ {None}
  BY DEF T!QuotaParts
<1>5. budget = IF parts = {} THEN -1 ELSE T!AtLeastZero(T!Min(parts))
  BY DEF T!BudgetLeft, T!Unlimited
<1>6. /\ cap.day = None => d = None
      /\ cap.day # None => d \in Int
      /\ cap.day # None /\ d <= 0 => p.day >= cap.day + net
  <2> HIDE DEF p, base, net
  <2> QED
    BY <1>1, <1>2, <1>3, PartIs
<1>7. /\ cap.week = None => w = None
      /\ cap.week # None => w \in Int
      /\ cap.week # None /\ w <= 0 => p.week >= cap.week + net
  <2> HIDE DEF p, base, net
  <2> QED
    BY <1>1, <1>2, <1>3, PartIs
<1>8. None \notin Int
  BY NamesAssumption
<1> HIDE DEF p, base, net, d, w, parts
<1>9. T!Min({0}) = 0
  <2>1. {0} = {0, 0}
    OBVIOUS
  <2> QED
    BY <2>1, OfTwo
<1>10. CASE cap.is \in {"paused", "unread"}
  <2>1. budget = 0
    BY <1>4, <1>5, <1>9, <1>10 DEF T!AtLeastZero
  <2> QED
    BY <1>10, <2>1 DEF Limits
<1>11. CASE cap.is \in {"none", "revoked"}
  <2>1. budget = -1
    BY <1>4, <1>5, <1>11
  <2> QED
    BY <1>11, <2>1 DEF Limits
<1>12. CASE cap.is = "plain"
  <2>0. parts = {d, w} \ {None}
    BY <1>4, <1>12
  <2>1. CASE cap.day = None /\ cap.week = None
    <3>1. budget = -1
      BY <1>5, <1>6, <1>7, <2>0, <2>1
    <3> QED
      BY <1>12, <3>1 DEF Limits
  <2>2. CASE cap.day # None /\ cap.week = None
    <3>1. parts = {d, d} /\ parts # {}
      BY <1>6, <1>7, <1>8, <2>0, <2>2
    <3>2. T!Min(parts) = d
      BY <1>6, <2>2, <3>1, OfTwo
    <3>3. budget = IF d < 0 THEN 0 ELSE d
      BY <1>5, <3>1, <3>2 DEF T!AtLeastZero
    <3> QED
      BY <1>6, <1>12, <2>2, <3>3 DEF Limits, net, p
  <2>3. CASE cap.day = None /\ cap.week # None
    <3>1. parts = {w, w} /\ parts # {}
      BY <1>6, <1>7, <1>8, <2>0, <2>3
    <3>2. T!Min(parts) = w
      BY <1>7, <2>3, <3>1, OfTwo
    <3>3. budget = IF w < 0 THEN 0 ELSE w
      BY <1>5, <3>1, <3>2 DEF T!AtLeastZero
    <3> QED
      BY <1>7, <1>12, <2>3, <3>3 DEF Limits, net, p
  <2>4. CASE cap.day # None /\ cap.week # None
    <3>1. parts = {d, w} /\ parts # {}
      BY <1>6, <1>7, <1>8, <2>0, <2>4
    <3>2. T!Min(parts) = IF d <= w THEN d ELSE w
      BY <1>6, <1>7, <2>4, <3>1, OfTwo
    <3>3. budget = IF d <= w THEN (IF d < 0 THEN 0 ELSE d) ELSE (IF w < 0 THEN 0 ELSE w)
      BY <1>5, <3>1, <3>2 DEF T!AtLeastZero
    <3> QED
      BY <1>6, <1>7, <1>12, <2>4, <3>3 DEF Limits, net, p
  <2> QED
    BY <2>1, <2>2, <2>3, <2>4
<1> QED
  BY <1>1, <1>10, <1>11, <1>12

\* A label goes on for some minutes.
LEMMA UntilIs ==
    ASSUME NEW clk \in Nat
    PROVE  T!Until(clk, LAMBDA b: b = "closed") \in Limits
<1> DEFINE ends == {i \in T!Minute(clk) + 1 .. DayLen - 1 : setup.label[i] = "closed"}
<1>1. T!Minute(clk) \in 0 .. DayLen - 1
  BY DaysAre DEF T!Minute
<1>2. T!Until(clk, LAMBDA b: b = "closed")
        = (IF ends = {} THEN DayLen ELSE T!Min(ends)) - T!Minute(clk)
  BY DEF T!Until
<1>3. ends # {} => T!Min(ends) \in ends
  <2> SUFFICES ASSUME ends # {} PROVE T!Min(ends) \in ends
    OBVIOUS
  <2>1. ends \subseteq Nat
    BY <1>1
  <2> HIDE DEF ends
  <2>2. PICK n \in ends : \A k \in ends : n <= k
    BY <2>1, Least
  <2>3. (CHOOSE x \in ends : \A y \in ends : x =< y) \in ends
    BY <2>2
  <2> QED
    BY <2>3 DEF T!Min
<1>4. \A k \in ends : k \in Int /\ k > T!Minute(clk)
  BY <1>1
<1> HIDE DEF ends
<1> QED
  BY <1>1, <1>2, <1>3, <1>4, DayLenAssumption DEF Limits

\* The window's minutes: outside the windows there are none but hours given for it.
LEMMA ScheduleIs ==
    ASSUME TimeTypes, NEW l \in Ledgers, NEW clk \in Nat,
           NEW schedule, schedule = T!ScheduleLeft(T!ScheduleBase(clk), l, clk)
    PROVE  /\ schedule \in Limits
           /\ T!ScheduleClosed(clk) /\ schedule # 0 => l.hours > 0
<1> DEFINE base == T!ScheduleBase(clk)
           minute == T!Minute(clk)
<1>1. minute \in 0 .. DayLen - 1
  BY DaysAre DEF T!Minute
<1>2. setup.sched \in {"none", "paused", "unreadable", "set"}
  BY ScenesAssumption DEF TimeTypes
<1>3. base = IF setup.sched = "none" THEN -1
             ELSE IF setup.sched \in {"paused", "unreadable"} THEN 0
             ELSE IF T!Label(clk) = "closed" THEN 0
             ELSE T!Until(clk, LAMBDA b: b = "closed")
  <2>1. CASE setup.sched = "none"
    BY <2>1 DEF T!ScheduleBase, T!Unlimited
  <2>2. CASE setup.sched \in {"paused", "unreadable"}
    BY <2>2 DEF T!ScheduleBase
  <2>3. CASE setup.sched = "set"
    BY <2>3 DEF T!ScheduleBase
  <2> QED
    BY <1>2, <2>1, <2>2, <2>3
<1>4. base \in Limits
  BY <1>3, UntilIs DEF Limits
<1>5. T!ScheduleClosed(clk) => base = 0 /\ setup.sched # "unreadable"
  BY <1>3 DEF T!ScheduleClosed
<1>6. l.hours \in Nat /\ l.cut \in Nat
  BY DEF Ledgers
<1> DEFINE more == T!AtLeastZero(base + l.hours - l.cut)
<1>7. schedule = IF setup.sched = "unreadable" \/ base < 0 THEN base
                 ELSE T!Min({DayLen - minute, more})
  BY DEF T!ScheduleLeft
<1>8. more \in Nat /\ (base = 0 /\ more # 0 => l.hours > 0)
  <2> HIDE DEF base
  <2> QED
    BY <1>4, <1>6 DEF T!AtLeastZero, Limits
<1>9. DayLen - minute \in Nat /\ DayLen - minute > 0
  BY <1>1, DayLenAssumption
<1>10. T!Min({DayLen - minute, more}) \in Nat
       /\ (T!Min({DayLen - minute, more}) # 0 => more # 0)
  <2> HIDE DEF more, minute
  <2> QED
    BY <1>8, <1>9, OfTwo
<1> HIDE DEF more, base, minute
<1> QED
  BY <1>4, <1>5, <1>7, <1>8, <1>10 DEF Limits

-----------------------------------------------------------------------------
(* An iteration. *)

\* An iteration, as it finds things: the minute it ends at, the ledger of the day that minute
\* is of and what is left of it, the breakdown, the verdict, and whether a pool pays for it.
After == T!Clock + 1
Rolled == T!RolledLedger(ledger, T!Clock, After)
Burnt ==
  IF T!ScheduleClosed(After) THEN [Rolled EXCEPT !.hours = T!AtLeastZero(@ - 1)] ELSE Rolled
Rest == T!Remaining(meter', view, Burnt, After, T!Countdown(After))
Shown == T!Resolved(Rest, Burnt, After)
Spends == Shown.is = "named" /\ Shown.pool

\* What an iteration does, part by part.
LEMMA IterateIs ==
    ASSUME NEW use \in BOOLEAN, NEW elsewhere \in BOOLEAN, NEW lost \in BOOLEAN,
           T!Iterate(use, elsewhere, lost)
    PROVE  /\ lost => T!Stands(order, After) /\ gracePin.id # order.id
           /\ time' = time + 1 /\ slow' = slow /\ setup' = setup /\ view' = view
           /\ cap' = cap /\ order' = order
           /\ todo' = IF lost THEN todo \ {T!Lose} ELSE todo
           /\ \E b : meter' = T!Charged(T!RolledMeter(meter, T!Clock, After), After, b)
           /\ away' = T!Charged(T!RolledMeter(away, T!Clock, After), After, elsewhere)
           /\ gracePin' = T!Pinned(After, lost)
           /\ seen' = IF ~T!Stands(order, After) THEN seen
                      ELSE IF seen # None /\ seen.id = order.id /\ seen.kept THEN seen
                      ELSE [id |-> order.id, at |-> After, kept |-> ~lost]
           /\ outside' = (IF T!NewDay(T!Clock, After) THEN 0 ELSE outside)
                         + (IF ~out'.locked /\ T!ScheduleClosed(After) THEN 1 ELSE 0)
           /\ ledger' = IF Spends THEN [Burnt EXCEPT !.pools[Shown.id].left = T!AtLeastZero(@ - 1)]
                        ELSE Burnt
           /\ out' = [locked |-> T!LockedNow(Rest, Shown),
                      left |-> T!Left(Rest, Shown, T!Countdown(After)),
                      budget |-> Rest.budget,
                      why |-> IF Shown.is = "core" THEN Rest.why
                              ELSE IF Shown.is = "locked" THEN "schedule" ELSE None,
                      named |-> Shown.is = "named", pool |-> Shown.is = "named" /\ Shown.pool]
           /\ quiet'
<1>1. /\ lost => T!Lose \in todo /\ T!Stands(order, After) /\ gracePin.id # order.id
      /\ time' = time + 1
      /\ todo' = IF lost THEN todo \ {T!Lose} ELSE todo
      /\ \E b : meter' = T!Charged(T!RolledMeter(meter, T!Clock, After), After, b)
      /\ away' = T!Charged(T!RolledMeter(away, T!Clock, After), After, elsewhere)
      /\ gracePin' = T!Pinned(After, lost)
      /\ T!Concluded(Rest, Burnt, After, T!Countdown(After))
      /\ seen' = IF ~T!Stands(order, After) THEN seen
                 ELSE IF seen # None /\ seen.id = order.id /\ seen.kept THEN seen
                 ELSE [id |-> order.id, at |-> After, kept |-> ~lost]
      /\ outside' = (IF T!NewDay(T!Clock, After) THEN 0 ELSE outside)
                    + (IF ~out'.locked /\ T!ScheduleClosed(After) THEN 1 ELSE 0)
      /\ quiet' = TRUE
      /\ UNCHANGED <<setup, slow, view, cap, order>>
  BY Zenon DEF T!Iterate, After, Rolled, Burnt, Rest
<1>2. /\ ledger' = IF Spends THEN [Burnt EXCEPT !.pools[Shown.id].left = T!AtLeastZero(@ - 1)]
                   ELSE Burnt
      /\ out' = [locked |-> T!LockedNow(Rest, Shown),
                 left |-> T!Left(Rest, Shown, T!Countdown(After)),
                 budget |-> Rest.budget,
                 why |-> IF Shown.is = "core" THEN Rest.why
                         ELSE IF Shown.is = "locked" THEN "schedule" ELSE None,
                 named |-> Shown.is = "named", pool |-> Shown.is = "named" /\ Shown.pool]
  BY <1>1, Zenon DEF T!Concluded, T!Conclude, Shown, Spends
<1> QED
  BY <1>1, <1>2, Zenon

\* The clock of a typed state.
LEMMA ClockIs ==
    ASSUME TimeTypes
    PROVE  T!Clock \in Nat /\ After \in Nat /\ After = T!Clock + 1
BY DEF TimeTypes, T!Clock, After

\* A day begins without extensions.
LEMMA NewLedgerIs == T!NewLedger \in Ledgers /\ Numbered(T!NewLedger)
BY DEF T!NewLedger, T!NoPool, Ledgers, Numbered

\* A day's use goes into the week's.
LEMMA MeterRolls ==
    ASSUME NEW m \in Meters, NEW a \in Nat, NEW b \in Nat
    PROVE  T!RolledMeter(m, a, b) \in Meters
<1>1. T!Used(m) \in Nat
  BY UsedIs
<1> QED
  BY <1>1, DayLenAssumption DEF T!RolledMeter, Meters

\* A minute that is charged is added to what is used.
LEMMA MeterCharges ==
    ASSUME NEW m \in Meters, NEW t \in Nat, NEW use
    PROVE  /\ T!Charged(m, t + 1, use) \in Meters
           /\ m.own \subseteq T!Charged(m, t + 1, use).own
           /\ m.cross <= T!Charged(m, t + 1, use).cross
           /\ m.past = T!Charged(m, t + 1, use).past
<1>1. /\ (t + 1) % DayLen # 0 => ((t + 1) % DayLen) - 1 \in 0 .. DayLen - 1
  BY DaysPass
<1> DEFINE i == T!Minute(t + 1) - 1
<1>2. T!Charged(m, t + 1, use)
        = IF ~use THEN m ELSE IF T!Minute(t + 1) = 0 THEN [m EXCEPT !.cross = 1]
          ELSE [m EXCEPT !.own = @ \cup {i}]
  BY DEF T!Charged
<1>3. T!Minute(t + 1) # 0 => i \in 0 .. DayLen - 1
  BY <1>1 DEF T!Minute
<1> HIDE DEF i
<1> QED
  BY <1>2, <1>3 DEF Meters

\* What is left of the ledger: of the hours a minute fewer, outside the windows.
LEMMA BurntIs ==
    ASSUME TimeTypes
    PROVE  /\ Rolled \in Ledgers /\ Burnt \in Ledgers /\ Numbered(Burnt)
           /\ Burnt.pools = Rolled.pools /\ Burnt.give = Rolled.give /\ Burnt.take = Rolled.take
           /\ Burnt.hours <= Rolled.hours
           /\ T!ScheduleClosed(After) /\ Rolled.hours > 0 => Burnt.hours = Rolled.hours - 1
           /\ ~T!ScheduleClosed(After) => Burnt.hours = Rolled.hours
<1>1. Rolled \in Ledgers /\ Numbered(Rolled)
  BY NewLedgerIs DEF Rolled, T!RolledLedger, TimeTypes
<1>2. Burnt = IF T!ScheduleClosed(After)
                THEN [Rolled EXCEPT !.hours = IF Rolled.hours - 1 < 0 THEN 0 ELSE Rolled.hours - 1]
              ELSE Rolled
  BY DEF Burnt, T!AtLeastZero
<1>3. Rolled.hours \in Nat
  BY <1>1 DEF Ledgers
<1>4. Burnt.pools = Rolled.pools
  BY <1>1, <1>2 DEF Ledgers
<1> QED
  BY <1>1, <1>2, <1>3, <1>4 DEF Ledgers, Numbered

\* Types hold at first.
LEMMA TimeTypesInit == T!Init => TimeTypes
<1> SUFFICES ASSUME T!Init PROVE TimeTypes
  OBVIOUS
<1>1. setup.cap \in Caps
  BY ScenesAssumption DEF T!Init
<1>2. T!NewMeter \in Meters
  BY DEF T!NewMeter, Meters
<1> QED
  BY <1>1, <1>2, NewLedgerIs DEF T!Init, TimeTypes

\* What an iteration finds, and the verdict on it.
LEMMA RestIs ==
    ASSUME TimeTypes, meter' \in Meters
    PROVE  \E schedule \in Limits, budget \in Limits :
             /\ Rest = T!Breakdown(schedule, budget, T!Countdown(After))
             /\ T!ScheduleClosed(After) /\ schedule # 0 => Burnt.hours > 0
             /\ budget = T!BudgetLeft(meter', view, Burnt, After)
<1>1. After \in Nat /\ Burnt \in Ledgers
  BY ClockIs, BurntIs
<1> DEFINE schedule == T!ScheduleLeft(T!ScheduleBase(After), Burnt, After)
           budget == T!BudgetLeft(meter', view, Burnt, After)
<1>2. Rest = T!Breakdown(schedule, budget, T!Countdown(After))
  BY DEF Rest, T!Remaining
<1>3. schedule \in Limits /\ (T!ScheduleClosed(After) /\ schedule # 0 => Burnt.hours > 0)
  <2> HIDE DEF schedule
  <2> QED
    BY <1>1, ScheduleIs DEF schedule
<1>4. budget \in Limits
  <2> HIDE DEF budget
  <2> QED
    BY <1>1, BudgetIs DEF budget
<1> HIDE DEF schedule
<1> QED
  BY <1>2, <1>3, <1>4

\* What is left of a grace.
LEMMA CountdownIs ==
    ASSUME TimeTypes
    PROVE  T!Countdown(After) \in Countdowns
<1>1. After \in Nat /\ T!Started(After) \in Nat /\ Grace \in Nat
  BY ClockIs, StandDownAssumption DEF TimeTypes, T!Started
<1> QED
  BY <1>1 DEF T!Countdown, T!AtLeastZero, Countdowns

\* The verdict on an iteration, and what it has to do with what is left.
LEMMA ShownIs ==
    ASSUME TimeTypes, meter' \in Meters
    PROVE  /\ Rest.locked \in BOOLEAN /\ Verdict(Shown, Rest, Burnt, After)
           /\ Spends => Shown.id \in NamedTimes /\ Burnt.pools[Shown.id].left > 0
<1>1. PICK schedule \in Limits, budget \in Limits :
        Rest = T!Breakdown(schedule, budget, T!Countdown(After))
  BY RestIs
<1>2. Rest.locked \in BOOLEAN
  BY <1>1, CountdownIs, BreakdownIs
<1>3. Burnt \in Ledgers /\ Numbered(Burnt) /\ setup \in TimeScenes
  BY BurntIs DEF TimeTypes
<1>4. Verdict(Shown, Rest, Burnt, After)
  <2> DEFINE c == Rest
  <2>1. c.locked \in BOOLEAN
    BY <1>2
  <2> HIDE DEF c
  <2>2. Verdict(T!Resolved(c, Burnt, After), c, Burnt, After)
    BY <1>3, <2>1, ResolvedIs
  <2> QED
    BY <2>2 DEF c, Shown
<1>5. Spends => Shown.id \in T!Pools(Burnt)
  BY <1>4 DEF Verdict, Spends
<1> QED
  BY <1>2, <1>4, <1>5 DEF T!Pools

\* Types are kept by an iteration.
LEMMA TypesIterate ==
    ASSUME TimeTypes, NEW use \in BOOLEAN, NEW elsewhere \in BOOLEAN, NEW lost \in BOOLEAN,
           T!Iterate(use, elsewhere, lost)
    PROVE  TimeTypes' /\ T!Clock' = After
<1>1. /\ time' = time + 1 /\ slow' = slow /\ setup' = setup /\ view' = view
      /\ cap' = cap /\ order' = order
      /\ todo' = IF lost THEN todo \ {T!Lose} ELSE todo
      /\ \E b : meter' = T!Charged(T!RolledMeter(meter, T!Clock, After), After, b)
      /\ away' = T!Charged(T!RolledMeter(away, T!Clock, After), After, elsewhere)
      /\ gracePin' = T!Pinned(After, lost)
      /\ outside' = (IF T!NewDay(T!Clock, After) THEN 0 ELSE outside)
                    + (IF ~out'.locked /\ T!ScheduleClosed(After) THEN 1 ELSE 0)
      /\ ledger' = IF Spends THEN [Burnt EXCEPT !.pools[Shown.id].left = T!AtLeastZero(@ - 1)]
                   ELSE Burnt
  BY IterateIs, Zenon
<1>2. T!Clock \in Nat /\ After \in Nat /\ After = T!Clock + 1
  BY ClockIs
<1>3. T!Clock' = After
  BY <1>1 DEF T!Clock, After, TimeTypes
<1>4. meter' \in Meters /\ away' \in Meters
  <2>1. /\ T!RolledMeter(meter, T!Clock, After) \in Meters
        /\ T!RolledMeter(away, T!Clock, After) \in Meters
    BY <1>2, MeterRolls DEF TimeTypes
  <2> QED
    BY <1>1, <1>2, <2>1, MeterCharges
<1>5. ledger' \in Ledgers /\ Numbered(ledger')
  <2>1. Burnt \in Ledgers /\ Numbered(Burnt)
    BY BurntIs
  <2>2. Spends => Shown.id \in NamedTimes /\ Burnt.pools[Shown.id].left > 0
    BY <1>4, ShownIs
  <2>3. CASE ~Spends
    BY <1>1, <2>1, <2>3
  <2>4. CASE Spends
    <3> DEFINE id == Shown.id
               n == T!AtLeastZero(Burnt.pools[id].left - 1)
    <3>1. ledger' = [Burnt EXCEPT !.pools[id].left = n]
      BY <1>1, <2>4
    <3>2. id \in NamedTimes /\ n \in Nat
      BY <2>1, <2>2, <2>4 DEF T!AtLeastZero, Ledgers
    <3> HIDE DEF id, n
    <3>3. ledger' \in Ledgers /\ \A j \in NamedTimes : ledger'.pools[j].at = Burnt.pools[j].at
      BY <2>1, <3>1, <3>2 DEF Ledgers
    <3> QED
      BY <2>1, <3>3 DEF Numbered
  <2> QED
    BY <2>3, <2>4
<1>6. outside' \in Int
  BY <1>1 DEF TimeTypes
<1>7. gracePin'.at \in Nat
  BY <1>1, <1>2 DEF T!Pinned, TimeTypes
<1> QED
  BY <1>1, <1>3, <1>4, <1>5, <1>6, <1>7 DEF TimeTypes

\* The decision of an iteration is the verdict's.
LEMMA OutIs ==
    ASSUME TimeTypes, NEW use \in BOOLEAN, NEW elsewhere \in BOOLEAN, NEW lost \in BOOLEAN,
           T!Iterate(use, elsewhere, lost)
    PROVE  /\ out'.locked \in BOOLEAN /\ out'.named \in BOOLEAN /\ out'.pool \in BOOLEAN
           /\ out'.locked <=> (IF Shown.is = "core" THEN Rest.locked ELSE Shown.is = "locked")
           /\ out'.why = IF Shown.is = "core" THEN Rest.why
                         ELSE IF Shown.is = "locked" THEN "schedule" ELSE None
           /\ out'.named <=> Shown.is = "named"
           /\ out'.pool <=> Spends
<1>1. meter' \in Meters
  BY TypesIterate DEF TimeTypes
<1>2. Rest.locked \in BOOLEAN /\ Verdict(Shown, Rest, Burnt, After)
  BY <1>1, ShownIs
<1> DEFINE a == T!LockedNow(Rest, Shown)
           b == T!Left(Rest, Shown, T!Countdown(After))
           why == IF Shown.is = "core" THEN Rest.why
                  ELSE IF Shown.is = "locked" THEN "schedule" ELSE None
           named == Shown.is = "named"
           pool == Shown.is = "named" /\ Shown.pool
<1>3. out' = [locked |-> a, left |-> b, budget |-> Rest.budget, why |-> why, named |-> named,
              pool |-> pool]
  BY IterateIs, Zenon
<1>4. a \in BOOLEAN /\ (a <=> IF Shown.is = "core" THEN Rest.locked ELSE Shown.is = "locked")
  BY <1>2 DEF T!LockedNow
<1>5. named \in BOOLEAN /\ pool \in BOOLEAN
  BY <1>2 DEF Verdict
<1>6. pool <=> Spends
  BY DEF Spends
<1> HIDE DEF a, b, why, named, pool
<1>7. out'.locked = a /\ out'.why = why /\ out'.named = named /\ out'.pool = pool
  BY <1>3, <1>4, <1>5
<1>8. /\ out'.locked \in BOOLEAN /\ out'.named \in BOOLEAN /\ out'.pool \in BOOLEAN
      /\ out'.locked <=> a
      /\ out'.named <=> named
      /\ out'.pool <=> pool
  BY <1>4, <1>5, <1>7
<1> QED
  BY <1>4, <1>6, <1>7, <1>8 DEF why, named

-----------------------------------------------------------------------------
(* What arrives between two iterations. *)

\* What TimeLeft has arrive, under one name.
Arrives(e) ==
  \/ T!Give(e) \/ T!Take(e) \/ T!GiveHours(e) \/ T!SyncView(e)
  \/ T!Order(e) \/ T!EditCap(e) \/ T!Restart(e) \/ T!ClockBack(e)

\* Whatever arrives, it arrives once, and leaves the use, the pin of a stand-down and the
\* sight of it alone.
LEMMA ArrivalIs ==
    ASSUME NEW e, Arrives(e)
    PROVE  /\ e \in todo /\ todo' = todo \ {e} /\ quiet' = FALSE
           /\ setup' = setup /\ time' = time /\ meter' = meter /\ away' = away
           /\ gracePin' = gracePin /\ seen' = seen
<1>1. CASE T!Restart(e)
  BY <1>1 DEF T!Restart
<1>2. CASE T!Give(e)
  BY <1>2 DEF T!Give, T!Takes
<1>3. CASE T!Take(e)
  BY <1>3 DEF T!Take, T!Takes
<1>4. CASE T!GiveHours(e)
  BY <1>4 DEF T!GiveHours, T!Takes
<1>5. CASE T!SyncView(e)
  BY <1>5 DEF T!SyncView, T!Takes
<1>6. CASE T!Order(e)
  BY <1>6 DEF T!Order, T!Takes
<1>7. CASE T!EditCap(e)
  BY <1>7 DEF T!EditCap, T!Takes
<1>8. CASE T!ClockBack(e)
  BY <1>8 DEF T!ClockBack, T!Takes
<1> QED
  BY <1>1, <1>2, <1>3, <1>4, <1>5, <1>6, <1>7, <1>8 DEF Arrives

\* What is topped up last has the highest number.
LEMMA NumbersGrow ==
    ASSUME NEW l \in Ledgers, Numbered(l), NEW id \in NamedTimes
    PROVE  /\ T!Max({l.pools[j].at : j \in NamedTimes}) \in Nat
           /\ \A j \in NamedTimes : l.pools[j].at <= T!Max({l.pools[k].at : k \in NamedTimes})
<1> DEFINE B == {l.pools[j].at : j \in NamedTimes}
<1>1. PICK n \in Nat : \A j \in NamedTimes : l.pools[j].at <= n
  BY DEF Numbered
<1>2. \A j \in NamedTimes : l.pools[j].at \in Nat
  BY DEF Ledgers
<1>3. B \subseteq Nat /\ B # {} /\ \A k \in B : k <= n
  BY <1>1, <1>2
<1>4. \A j \in NamedTimes : l.pools[j].at \in B
  OBVIOUS
<1>5. T!Max(B) \in B /\ \A k \in B : k <= T!Max(B)
  <2> HIDE DEF B
  <2> QED
    BY <1>3, Greatest
<1> QED
  BY <1>3, <1>4, <1>5

\* What hours and pools that arrive do to the ledger.
LEMMA TypesGiveHours ==
    ASSUME TimeTypes, NEW e \in todo, T!GiveHours(e)
    PROVE  /\ ledger' \in Ledgers /\ Numbered(ledger') /\ e.n \in Nat /\ outside' = outside - e.n
           /\ \/ ledger'.hours = ledger.hours + e.n /\ ledger'.pools = ledger.pools
              \/ /\ ledger'.hours = ledger.hours /\ e.id \in NamedTimes
                 /\ \A j \in NamedTimes :
                      ledger'.pools[j].left = ledger.pools[j].left + (IF j = e.id THEN e.n ELSE 0)
<1> DEFINE top == T!Max({ledger.pools[j].at : j \in NamedTimes})
<1>1. e \in setup.events /\ setup \in TimeScenes /\ ledger \in Ledgers /\ Numbered(ledger)
  BY DEF TimeTypes
<1>2. /\ e.do \in {"hours", "pool"} /\ outside' = outside - e.n
      /\ ledger' = IF e.do = "hours" THEN [ledger EXCEPT !.hours = @ + e.n]
                   ELSE [ledger EXCEPT !.pools[e.id] = [left |-> @.left + e.n, at |-> 1 + top]]
  BY Zenon DEF T!GiveHours
<1>3. e.n \in Nat /\ (e.do = "pool" => e.id \in NamedTimes)
  BY <1>1, <1>2, ScenesAssumption
<1>4. CASE e.do = "hours"
  <2>1. ledger' = [ledger EXCEPT !.hours = @ + e.n]
    BY <1>2, <1>4
  <2>2. ledger' \in Ledgers /\ ledger'.hours = ledger.hours + e.n /\ ledger'.pools = ledger.pools
    BY <1>1, <1>3, <2>1 DEF Ledgers
  <2> QED
    BY <1>1, <1>2, <1>3, <2>2 DEF Numbered
<1>5. CASE e.do = "pool"
  <2>1. top \in Nat /\ \A j \in NamedTimes : ledger.pools[j].at <= top
    BY <1>1, <1>3, <1>5, NumbersGrow
  <2> HIDE DEF top
  <2> DEFINE id == e.id
             pool == [left |-> ledger.pools[id].left + e.n, at |-> 1 + top]
  <2>2. id \in NamedTimes /\ pool \in [left : Nat, at : Nat]
    BY <1>1, <1>3, <1>5, <2>1 DEF Ledgers
  <2>3. ledger' = [ledger EXCEPT !.pools[id] = pool]
    BY <1>2, <1>5
  <2>4. pool.at = 1 + top /\ pool.left = ledger.pools[id].left + e.n
    OBVIOUS
  <2> HIDE DEF id, pool
  <2>5. /\ ledger' \in Ledgers /\ ledger'.hours = ledger.hours
        /\ \A j \in NamedTimes : ledger'.pools[j] = IF j = id THEN pool ELSE ledger.pools[j]
    BY <1>1, <2>2, <2>3 DEF Ledgers
  <2>6. \A j \in NamedTimes : ledger'.pools[j].at <= 1 + top
    <3> TAKE j \in NamedTimes
    <3>1. ledger.pools[j].at \in Nat
      BY <1>1 DEF Ledgers
    <3> QED
      BY <2>1, <2>4, <2>5, <3>1
  <2>7. Numbered(ledger')
    BY <2>1, <2>6 DEF Numbered
  <2>8. \A j \in NamedTimes :
          ledger'.pools[j].left = ledger.pools[j].left + (IF j = id THEN e.n ELSE 0)
    <3> TAKE j \in NamedTimes
    <3>1. ledger.pools[j].left \in Nat
      BY <1>1 DEF Ledgers
    <3> QED
      BY <2>4, <2>5, <3>1
  <2> QED
    BY <1>2, <1>3, <2>2, <2>5, <2>7, <2>8 DEF id
<1> QED
  BY <1>2, <1>4, <1>5

\* Types are kept by whatever arrives.
LEMMA TypesArrive ==
    ASSUME TimeTypes, NEW e, Arrives(e)
    PROVE  TimeTypes'
<1>1. /\ e \in todo /\ todo' = todo \ {e} /\ setup' = setup /\ time' = time /\ meter' = meter
      /\ away' = away /\ gracePin' = gracePin
  BY ArrivalIs
<1>2. e \in setup.events /\ setup \in TimeScenes
  BY <1>1 DEF TimeTypes
<1>3. CASE T!Give(e)
  <2>1. /\ e.do = "give" /\ UNCHANGED <<slow, view, cap, order, outside>>
        /\ ledger' = [ledger EXCEPT !.give = @ + e.n,
                        !.base = IF @ # None THEN @
                                 ELSE [day |-> T!Used(meter), week |-> meter.past + T!Used(meter)]]
    BY <1>3, Zenon DEF T!Give
  <2>2. e.n \in Nat
    BY <1>2, <2>1, ScenesAssumption
  <2>3. T!Used(meter) \in Nat /\ meter.past \in Nat
    BY UsedIs DEF TimeTypes, Meters
  <2> DEFINE base == IF ledger.base # None THEN ledger.base
                     ELSE [day |-> T!Used(meter), week |-> meter.past + T!Used(meter)]
             given == ledger.give + e.n
  <2>4. ledger' = [ledger EXCEPT !.give = given, !.base = base]
    BY <2>1
  <2>5. ledger \in Ledgers /\ base \in [day : Nat, week : Nat] \cup {None} /\ given \in Nat
    BY <2>2, <2>3 DEF TimeTypes, Ledgers
  <2> HIDE DEF base, given
  <2>6. ledger' \in Ledgers /\ ledger'.pools = ledger.pools
    BY <2>4, <2>5 DEF Ledgers
  <2> QED
    BY <1>1, <2>1, <2>6 DEF TimeTypes, Numbered
<1>4. CASE T!Take(e)
  <2>1. /\ e.do \in {"take", "cut"} /\ UNCHANGED <<slow, view, cap, order, outside>>
        /\ ledger' = IF e.do = "take" THEN [ledger EXCEPT !.take = @ + e.n]
                     ELSE [ledger EXCEPT !.cut = @ + e.n]
    BY <1>4, Zenon DEF T!Take
  <2>2. e.n \in Nat
    BY <1>2, <2>1, ScenesAssumption
  <2>3. ledger' \in Ledgers /\ ledger'.pools = ledger.pools
    BY <2>1, <2>2 DEF TimeTypes, Ledgers
  <2> QED
    BY <1>1, <2>1, <2>3 DEF TimeTypes, Numbered
<1>5. CASE T!GiveHours(e)
  <2>1. ledger' \in Ledgers /\ Numbered(ledger') /\ e.n \in Nat /\ outside' = outside - e.n
    BY <1>1, <1>5, TypesGiveHours
  <2>2. UNCHANGED <<slow, view, cap, order>>
    BY <1>5 DEF T!GiveHours
  <2> QED
    BY <1>1, <2>1, <2>2 DEF TimeTypes
<1>6. CASE T!SyncView(e)
  <2>1. /\ e.do = "view" /\ UNCHANGED <<slow, ledger, cap, order, outside>>
        /\ view' = [day |-> T!Clock \div DayLen, used |-> T!Used(away),
                    week |-> away.past + T!Used(away),
                    slots |-> IF e.journal THEN T!Slots(away.own) ELSE None]
    BY <1>6, Zenon DEF T!SyncView
  <2>2. T!Clock \div DayLen \in Nat
    BY ClockIs, DaysAre
  <2>3. T!Used(away) \in Nat /\ away.past \in Nat /\ IsFiniteSet(away.own)
    BY UsedIs DEF TimeTypes, Meters
  <2>4. IsFiniteSet(T!Slots(away.own))
    BY <2>3, SlotsAre
  <2>5. e.journal \in BOOLEAN
    BY <1>2, <2>1, ScenesAssumption
  <2>6. /\ view'.day \in Nat /\ view'.used \in Nat /\ view'.week \in Nat
        /\ view'.slots # None => IsFiniteSet(view'.slots)
    BY <2>1, <2>2, <2>3, <2>4, <2>5
  <2> QED
    BY <1>1, <2>1, <2>6 DEF TimeTypes, Numbered
<1>7. CASE T!Order(e)
  <2>1. /\ e.do = "order" /\ UNCHANGED <<slow, view, ledger, cap, outside>>
        /\ order' = [id |-> e.id, until |-> e.until]
    BY <1>7 DEF T!Order
  <2>2. order'.until \in Nat
    BY <1>2, <2>1, StandDownAssumption DEF Orders
  <2> QED
    BY <1>1, <2>1, <2>2 DEF TimeTypes, Numbered
<1>8. CASE T!EditCap(e)
  <2>1. /\ e.do = "cap" /\ UNCHANGED <<slow, view, ledger, order, outside>> /\ cap' = e.to
    BY <1>8 DEF T!EditCap
  <2>2. cap' \in Caps
    BY <1>2, <2>1, ScenesAssumption
  <2> QED
    BY <1>1, <2>1, <2>2 DEF TimeTypes, Numbered
<1>9. CASE T!Restart(e)
  <2>1. UNCHANGED <<slow, view, ledger, cap, order, outside>>
    BY <1>9 DEF T!Restart
  <2> QED
    BY <1>1, <2>1 DEF TimeTypes, Numbered
<1>10. CASE T!ClockBack(e)
  <2>1. /\ T!Minute(T!Clock) > 0 /\ slow' = slow + 1
        /\ UNCHANGED <<view, ledger, cap, order, outside>>
    BY <1>10 DEF T!ClockBack
  <2>2. T!Clock \in Nat /\ T!Clock - 1 \in Nat
    BY <2>1, ClockIs, DaysPass DEF T!Minute
  <2>3. slow' <= time
    BY <2>1, <2>2 DEF TimeTypes, T!Clock
  <2> QED
    BY <1>1, <2>1, <2>3 DEF TimeTypes, Numbered
<1> QED
  BY <1>3, <1>4, <1>5, <1>6, <1>7, <1>8, <1>9, <1>10 DEF Arrives

-----------------------------------------------------------------------------
(* Stand-downs. *)

\* The orders that have arrived.
Taken == {e \in Orders(setup) : e \notin todo}

\* The order, the pin and the sight are of orders that came.
OrderTypes ==
  /\ order # None => \E e \in Taken : order.id = e.id /\ order.until = e.until
  /\ gracePin.id # None => \E e \in Taken : gracePin.id = e.id
  /\ seen # None =>
       /\ seen.id # None /\ seen.at \in Nat /\ seen.kept \in BOOLEAN
       /\ \E e \in Taken : seen.id = e.id

\* An order that was seen and pinned has its grace counted from there, and one whose pin
\* is on disk was seen then.
SightInv ==
  /\ order # None /\ seen # None /\ seen.id = order.id /\ seen.kept =>
       gracePin.id = seen.id /\ gracePin.at = seen.at
  /\ order # None /\ order.id # None /\ gracePin.id = order.id =>
       seen # None /\ seen.id = order.id /\ seen.kept

\* An order that stands has an id (StandDownBody::stands).
LEMMA StandingHasId ==
    ASSUME TimeTypes, OrderTypes, T!Stands(order, After)
    PROVE  order # None /\ order.id # None
<1>1. After \in Nat /\ order # None /\ order.until > After
  BY ClockIs DEF T!Stands
<1>2. PICK e \in Taken : order.id = e.id /\ order.until = e.until
  BY <1>1 DEF OrderTypes
<1>3. e.id = None => e.until = 0
  BY <1>2, StandDownAssumption DEF Taken, TimeTypes
<1> QED
  BY <1>1, <1>2, <1>3

\* What is seen of an order that stands is no absence.
LEMMA SightIsThere ==
    ASSUME TimeTypes, OrderTypes, order # None, NEW b \in BOOLEAN
    PROVE  [id |-> order.id, at |-> After, kept |-> b] # None
<1>1. PICK e \in Taken : order.id = e.id
  BY DEF OrderTypes
<1>2. order.id \in {f.id : f \in UNION {Orders(s) : s \in TimeScenes}}
  BY <1>1 DEF Taken, TimeTypes
<1>3. After \in Nat
  BY ClockIs
<1>4. [id |-> order.id, at |-> After, kept |-> b]
        \in [id : {f.id : f \in UNION {Orders(s) : s \in TimeScenes}}, at : Nat, kept : BOOLEAN]
  BY <1>2, <1>3
<1> QED
  BY <1>4, NamesAssumption

\* An iteration's two cases: the sight and the pin stay, or an order is seen anew.
LEMMA SightStep ==
    ASSUME TimeTypes, OrderTypes, SightInv,
           NEW use \in BOOLEAN, NEW elsewhere \in BOOLEAN, NEW lost \in BOOLEAN,
           T!Iterate(use, elsewhere, lost)
    PROVE  \/ /\ seen' = seen /\ gracePin' = gracePin
              /\ ~T!Stands(order, After)
           \/ /\ seen' = seen /\ gracePin' = gracePin
              /\ T!Stands(order, After) /\ order # None /\ order.id # None
              /\ seen # None /\ seen.id = order.id /\ seen.kept
              /\ gracePin.id = order.id /\ gracePin.at = seen.at
           \/ /\ T!Stands(order, After) /\ order # None /\ order.id # None
              /\ gracePin.id # order.id
              /\ seen' # None /\ seen'.id = order.id /\ seen'.at = After /\ seen'.kept = ~lost
              /\ lost => gracePin' = gracePin
              /\ ~lost => gracePin'.id = order.id /\ gracePin'.at = After
<1>1. /\ lost => T!Stands(order, After) /\ gracePin.id # order.id
      /\ gracePin' = T!Pinned(After, lost)
      /\ seen' = IF ~T!Stands(order, After) THEN seen
                 ELSE IF seen # None /\ seen.id = order.id /\ seen.kept THEN seen
                 ELSE [id |-> order.id, at |-> After, kept |-> ~lost]
  BY IterateIs, Zenon
<1>2. CASE ~T!Stands(order, After)
  BY <1>1, <1>2 DEF T!Pinned
<1>3. CASE T!Stands(order, After) /\ seen # None /\ seen.id = order.id /\ seen.kept
  <2>1. order # None /\ order.id # None
    BY <1>3, StandingHasId
  <2>2. gracePin.id = order.id /\ gracePin.at = seen.at
    BY <1>3, <2>1 DEF SightInv
  <2>3. gracePin' = gracePin
    BY <1>1, <2>2 DEF T!Pinned
  <2> QED
    BY <1>1, <1>3, <2>1, <2>2, <2>3
<1>4. CASE T!Stands(order, After) /\ ~(seen # None /\ seen.id = order.id /\ seen.kept)
  <2>1. order # None /\ order.id # None
    BY <1>4, StandingHasId
  <2>2. gracePin.id # order.id
    BY <1>4, <2>1 DEF SightInv
  <2>3. gracePin' = IF lost THEN gracePin
                    ELSE [id |-> order.id, at |-> After,
                          floor |-> T!Max({After, gracePin.floor + 1})]
    BY <1>1, <1>4, <2>2 DEF T!Pinned
  <2> DEFINE b == ~lost
  <2>4. seen' = [id |-> order.id, at |-> After, kept |-> b] /\ b \in BOOLEAN
    BY <1>1, <1>4
  <2>5. [id |-> order.id, at |-> After, kept |-> b] # None
    <3> HIDE DEF b
    <3> QED
      BY <2>1, <2>4, SightIsThere
  <2>6. seen' # None /\ seen'.id = order.id /\ seen'.at = After /\ seen'.kept = b
    <3> HIDE DEF b
    <3> QED
      BY <2>4, <2>5
  <2> QED
    BY <1>4, <2>1, <2>2, <2>3, <2>6
<1> QED
  BY <1>2, <1>3, <1>4

\* The countdown of a grace is over exactly when the order was seen, and pinned, that
\* long ago.
LEMMA GraceIs ==
    ASSUME TimeTypes, OrderTypes, SightInv,
           NEW use \in BOOLEAN, NEW elsewhere \in BOOLEAN, NEW lost \in BOOLEAN,
           T!Iterate(use, elsewhere, lost)
    PROVE  /\ T!Countdown(After) = 0 => seen' # None /\ After - seen'.at >= Grace
           /\ seen' # None /\ seen'.kept /\ After - seen'.at >= Grace /\ T!Stands(order, After) =>
                T!Countdown(After) = 0
<1>1. After \in Nat /\ Grace \in Nat \ {0} /\ None \notin Int
  BY ClockIs, StandDownAssumption, NamesAssumption
<1>2. CASE ~T!Stands(order, After)
  BY <1>1, <1>2 DEF T!Countdown
<1>3. CASE /\ seen' = seen /\ T!Stands(order, After)
           /\ seen # None /\ gracePin.id = order.id /\ gracePin.at = seen.at
  <2>1. seen.at \in Nat /\ T!Started(After) = seen.at
    BY <1>3 DEF OrderTypes, T!Started
  <2>2. T!Countdown(After) = T!AtLeastZero(Grace - T!AtLeastZero(After - seen.at))
    BY <1>3, <2>1 DEF T!Countdown
  <2>3. T!Countdown(After) = 0 <=> After - seen.at >= Grace
    BY <1>1, <2>1, <2>2 DEF T!AtLeastZero
  <2> QED
    BY <1>3, <2>3
<1>4. CASE T!Stands(order, After) /\ gracePin.id # order.id /\ seen'.at = After
  <2>1. T!Started(After) = After
    BY <1>4 DEF T!Started
  <2>2. T!Countdown(After) = T!AtLeastZero(Grace - T!AtLeastZero(After - After))
    BY <1>4, <2>1 DEF T!Countdown
  <2>3. T!Countdown(After) = Grace
    BY <1>1, <2>2 DEF T!AtLeastZero
  <2> QED
    BY <1>1, <1>4, <2>3
<1> QED
  BY <1>2, <1>3, <1>4, SightStep

\* An iteration keeps pin and sight of one account (pin_first_sight).
LEMMA OrderIterates ==
    ASSUME TimeTypes, OrderTypes, SightInv,
           NEW use \in BOOLEAN, NEW elsewhere \in BOOLEAN, NEW lost \in BOOLEAN,
           T!Iterate(use, elsewhere, lost)
    PROVE  OrderTypes' /\ SightInv'
<1>1. /\ setup' = setup /\ order' = order /\ todo' = IF lost THEN todo \ {T!Lose} ELSE todo
  BY IterateIs, Zenon
<1>2. Taken \subseteq Taken'
  BY <1>1 DEF Taken, Orders
<1>3. After \in Nat
  BY ClockIs
<1>4. CASE seen' = seen /\ gracePin' = gracePin
  BY <1>1, <1>2, <1>4 DEF OrderTypes, SightInv
<1>5. CASE /\ order # None /\ order.id # None /\ gracePin.id # order.id
           /\ seen' # None /\ seen'.id = order.id /\ seen'.at = After /\ seen'.kept = ~lost
           /\ lost => gracePin' = gracePin
           /\ ~lost => gracePin'.id = order.id /\ gracePin'.at = After
  <2>1. \E e \in Taken : order.id = e.id /\ order.until = e.until
    BY <1>5 DEF OrderTypes
  <2>2. OrderTypes'
    BY <1>1, <1>2, <1>3, <1>5, <2>1 DEF OrderTypes
  <2>3. SightInv'
    BY <1>1, <1>5 DEF SightInv
  <2> QED
    BY <2>2, <2>3
<1> QED
  BY <1>4, <1>5, SightStep

\* An order that comes has an id of its own, and so was not seen before.
LEMMA OrderArrives ==
    ASSUME TimeTypes, OrderTypes, SightInv, NEW e, Arrives(e)
    PROVE  OrderTypes' /\ SightInv'
<1>1. /\ e \in todo /\ todo' = todo \ {e} /\ setup' = setup /\ gracePin' = gracePin /\ seen' = seen
  BY ArrivalIs
<1>2. Taken \subseteq Taken'
  BY <1>1 DEF Taken, Orders
<1>3. CASE order' = order
  BY <1>1, <1>2, <1>3 DEF OrderTypes, SightInv
<1>4. CASE T!Order(e)
  <2>1. e.do = "order" /\ order' = [id |-> e.id, until |-> e.until]
    BY <1>4 DEF T!Order
  <2>2. e \in Orders(setup) /\ e \notin todo' /\ setup \in TimeScenes
    BY <1>1, <2>1 DEF Orders, TimeTypes
  <2>3. e \in Taken'
    BY <1>1, <2>2 DEF Taken
  <2>4. OrderTypes'
    BY <1>1, <1>2, <2>1, <2>3 DEF OrderTypes
  <2>5. \A f \in Taken : f.id = e.id => e.id = None
    BY <1>1, <2>2, StandDownAssumption DEF Taken
  <2>6. seen # None => seen.id # None /\ seen.id # e.id
    BY <2>5 DEF OrderTypes
  <2>7. e.id # None => gracePin.id # e.id
    BY <2>5 DEF OrderTypes
  <2>8. SightInv'
    BY <1>1, <2>1, <2>6, <2>7 DEF SightInv
  <2> QED
    BY <2>4, <2>8
<1>5. order' = order \/ T!Order(e)
  BY DEF Arrives, T!Give, T!Take, T!GiveHours, T!SyncView, T!EditCap, T!Restart, T!ClockBack
<1> QED
  BY <1>3, <1>4, <1>5

\* A stand-down bites after an iteration (compute_remaining, apply_stand_down, decide).
LEMMA BitesAfter ==
    ASSUME TimeTypes, OrderTypes, SightInv,
           NEW use \in BOOLEAN, NEW elsewhere \in BOOLEAN, NEW lost \in BOOLEAN,
           T!Iterate(use, elsewhere, lost)
    PROVE  T!StandDownBites'
<1>1. order' = order /\ T!Clock' = After /\ meter' \in Meters
  <2>1. TimeTypes' /\ T!Clock' = After
    BY TypesIterate
  <2> QED
    BY <2>1, IterateIs, Zenon DEF TimeTypes
<1> DEFINE why == IF Shown.is = "core" THEN Rest.why
                  ELSE IF Shown.is = "locked" THEN "schedule" ELSE None
<1>2. /\ out'.locked <=> (IF Shown.is = "core" THEN Rest.locked ELSE Shown.is = "locked")
      /\ out'.why = why
  BY OutIs
<1>3. PICK schedule \in Limits, budget \in Limits :
        Rest = T!Breakdown(schedule, budget, T!Countdown(After))
  BY <1>1, RestIs
<1>4. /\ Rest.locked \in BOOLEAN
      /\ T!Countdown(After) = 0 => Rest.locked /\ Rest.why \in {"malformed", "standdown"}
      /\ Rest.why = "standdown" => T!Countdown(After) = 0
  BY <1>3, CountdownIs, BreakdownIs
<1>5. Verdict(Shown, Rest, Burnt, After)
  BY <1>1, ShownIs
<1>6. None # "standdown"
  BY NamesAssumption
<1>7. why = "standdown" => T!Countdown(After) = 0
  BY <1>4, <1>6
<1>8. T!Countdown(After) = 0 => out'.locked
  <2>1. T!Countdown(After) = 0 => Shown.is \in {"core", "locked"}
    BY <1>4, <1>5 DEF Verdict
  <2> QED
    BY <1>2, <1>4, <2>1
<1> HIDE DEF why
<1> QED
  BY <1>1, <1>2, <1>7, <1>8, GraceIs DEF T!StandDownBites

-----------------------------------------------------------------------------
(* Another device's use, as the guardian last told it. *)

\* A view of the other device is never ahead of its use: of its week, and of its day if it
\* is of today.
Behind(v, m, today) ==
  v # None =>
    /\ v.day <= today
    /\ v.week <= m.past + T!Used(m)
    /\ v.day = today =>
         v.used <= T!Used(m) /\ (v.slots # None => v.slots \subseteq T!Slots(m.own))

\* The view a guardian sent is such a one now.
ViewInv == Behind(view, away, T!Clock \div DayLen)

\* Who has used more has no slot the less.
LEMMA UseGrows ==
    ASSUME NEW m \in Meters, NEW n \in Meters, m.own \subseteq n.own, m.cross <= n.cross
    PROVE  T!Used(m) <= T!Used(n) /\ T!Slots(m.own) \subseteq T!Slots(n.own)
<1>1. /\ T!Used(m) = Cardinality(m.own) + m.cross /\ T!Used(n) = Cardinality(n.own) + n.cross
      /\ IsFiniteSet(n.own) /\ Cardinality(m.own) \in Nat /\ Cardinality(n.own) \in Nat
  BY UsedIs
<1>2. Cardinality(m.own) <= Cardinality(n.own)
  BY <1>1, FS_Subset
<1>3. m.cross \in Nat /\ n.cross \in Nat
  BY DEF Meters
<1> QED
  BY <1>1, <1>2, <1>3 DEF T!Slots

\* A view is left further behind by every minute.
LEMMA ViewIterates ==
    ASSUME TimeTypes, ViewInv, NEW use \in BOOLEAN, NEW elsewhere \in BOOLEAN, NEW lost \in BOOLEAN,
           T!Iterate(use, elsewhere, lost)
    PROVE  ViewInv' /\ Behind(view, away', After \div DayLen)
<1>1. /\ setup' = setup /\ view' = view
      /\ away' = T!Charged(T!RolledMeter(away, T!Clock, After), After, elsewhere)
  BY IterateIs, Zenon
<1>2. T!Clock' = After
  BY TypesIterate
<1>3. T!Clock \in Nat /\ After = T!Clock + 1
  BY ClockIs
<1> DEFINE was == T!Clock \div DayLen
           is == After \div DayLen
           rolled == T!RolledMeter(away, T!Clock, After)
<1>4. was \in Nat /\ is \in Nat /\ was <= is
  BY <1>3, DaysPass, DaysAre
<1>5. away \in Meters /\ rolled \in Meters
  BY <1>3, MeterRolls DEF TimeTypes
<1>6. away' \in Meters /\ rolled.own \subseteq away'.own /\ rolled.cross <= away'.cross
      /\ rolled.past = away'.past
  <2> HIDE DEF rolled
  <2> QED
    BY <1>1, <1>3, <1>5, MeterCharges DEF rolled
<1>7. T!Used(rolled) <= T!Used(away') /\ T!Slots(rolled.own) \subseteq T!Slots(away'.own)
  <2> HIDE DEF rolled
  <2> QED
    BY <1>5, <1>6, UseGrows
<1>8. T!Used(away) \in Nat /\ T!Used(away') \in Nat /\ T!Used(rolled) \in Nat
      /\ away.past \in Nat /\ away'.past \in Nat
  <2>1. T!Used(away) \in Nat /\ T!Used(away') \in Nat /\ T!Used(rolled) \in Nat
    <3> HIDE DEF rolled
    <3> QED
      BY <1>5, <1>6, UsedIs
  <2> QED
    BY <1>5, <1>6, <2>1 DEF Meters
<1>9. rolled = IF was # is THEN [own |-> {}, cross |-> 0, past |-> away.past + T!Used(away)]
               ELSE away
  BY DEF T!RolledMeter, T!NewDay
<1>10. Behind(view, away', is)
  <2> HIDE DEF rolled, was, is
  <2> SUFFICES ASSUME view # None
               PROVE  /\ view.day <= is
                      /\ view.week <= away'.past + T!Used(away')
                      /\ view.day = is =>
                           view.used <= T!Used(away')
                           /\ (view.slots # None => view.slots \subseteq T!Slots(away'.own))
    BY DEF Behind
  <2>1. view.day \in Nat /\ view.week \in Nat /\ view.used \in Nat
    BY DEF TimeTypes
  <2>2. /\ view.day <= was
        /\ view.week <= away.past + T!Used(away)
        /\ view.day = was =>
             view.used <= T!Used(away)
             /\ (view.slots # None => view.slots \subseteq T!Slots(away.own))
    BY DEF ViewInv, Behind, was
  <2>3. CASE was = is
    <3>1. rolled = away
      BY <1>9, <2>3
    <3> QED
      BY <1>4, <1>6, <1>7, <1>8, <2>1, <2>2, <2>3, <3>1
  <2>4. CASE was # is
    <3>1. rolled.past = away.past + T!Used(away)
      BY <1>9, <2>4
    <3>2. view.day < is
      BY <1>4, <2>1, <2>2, <2>4
    <3>3. view.week <= away'.past + T!Used(away')
      BY <1>6, <1>8, <2>1, <2>2, <3>1
    <3> QED
      BY <1>4, <2>1, <3>2, <3>3
  <2> QED
    BY <2>3, <2>4
<1>11. ViewInv'
  BY <1>1, <1>2, <1>10 DEF ViewInv, Behind, T!Slots, T!Used
<1> QED
  BY <1>10, <1>11

\* And a fresh one is even with what it is of.
LEMMA ViewArrives ==
    ASSUME TimeTypes, ViewInv, NEW e, Arrives(e)
    PROVE  ViewInv'
<1>1. setup' = setup /\ time' = time /\ away' = away
  BY ArrivalIs
<1>2. CASE T!SyncView(e)
  <2>1. slow' = slow
        /\ view' = [day |-> T!Clock \div DayLen, used |-> T!Used(away),
                    week |-> away.past + T!Used(away),
                    slots |-> IF e.journal THEN T!Slots(away.own) ELSE None]
    BY <1>2, Zenon DEF T!SyncView
  <2>2. T!Clock' = T!Clock /\ T!Clock \div DayLen \in Nat
    BY <1>1, <2>1, ClockIs, DaysAre DEF T!Clock
  <2>3. T!Used(away) \in Nat /\ away.past \in Nat
    BY UsedIs DEF TimeTypes, Meters
  <2>4. e.journal \in BOOLEAN
    <3>1. e \in setup.events /\ setup \in TimeScenes
      BY ArrivalIs DEF TimeTypes
    <3>2. e.do = "view"
      BY <1>2 DEF T!SyncView
    <3> QED
      BY <3>1, <3>2, ScenesAssumption
  <2>5. /\ view'.day = T!Clock \div DayLen /\ view'.used = T!Used(away)
        /\ view'.week = away.past + T!Used(away)
        /\ view'.slots # None => view'.slots = T!Slots(away.own)
    BY <2>1, <2>4
  <2>6. Behind(view', away', T!Clock' \div DayLen)
    BY <1>1, <2>2, <2>3, <2>5 DEF Behind
  <2> QED
    BY <1>1, <2>6 DEF ViewInv, Behind, T!Slots, T!Used
<1>3. CASE T!ClockBack(e)
  <2>1. T!Minute(T!Clock) > 0 /\ slow' = slow + 1 /\ view' = view
    BY <1>3 DEF T!ClockBack
  <2>2. T!Clock \in Nat /\ T!Clock' = T!Clock - 1
    BY <1>1, <2>1, ClockIs DEF T!Clock, TimeTypes
  <2>3. T!Clock' \div DayLen = T!Clock \div DayLen
    BY <2>1, <2>2, DaysPass DEF T!Minute
  <2> QED
    BY <1>1, <2>1, <2>3 DEF ViewInv, Behind, T!Slots, T!Used
<1>4. CASE view' = view /\ slow' = slow
  <2>1. T!Clock' = T!Clock
    BY <1>1, <1>4 DEF T!Clock
  <2> QED
    BY <1>1, <1>4, <2>1 DEF ViewInv, Behind, T!Slots, T!Used
<1>5. T!SyncView(e) \/ T!ClockBack(e) \/ (view' = view /\ slow' = slow)
  BY DEF Arrives, T!Give, T!Take, T!GiveHours, T!Order, T!EditCap, T!Restart
<1> QED
  BY <1>2, <1>3, <1>4, <1>5

\* What is pooled is at most what the child has used: a minute used on both devices is in
\* both journals (pooled_used: views only ever under-count).
LEMMA PooledBehind ==
    ASSUME TimeTypes, NEW m \in Meters, NEW a \in Meters, NEW clk, clk \div DayLen \in Nat,
           Behind(view, a, clk \div DayLen)
    PROVE  /\ T!Pooled(m, view, clk).day <=
                IF view # None /\ view.slots = None THEN T!Used(m) + T!Used(a)
                ELSE T!Cardinality(m.own \cup a.own) + m.cross + a.cross
           /\ T!Pooled(m, view, clk).week <= m.past + T!Used(m) + a.past + T!Used(a)
<1> DEFINE both == m.own \cup a.own
           union == T!Slots(m.own) \cup view.slots
           use == T!Used(m)
           uni == T!Cardinality(union)
           day == IF view = None \/ view.day # clk \div DayLen THEN use
                  ELSE IF view.slots # None /\ (m.own # {} \/ use = 0)
                    THEN T!Max({uni, use})
                  ELSE use + view.used
           week == m.past + use + (IF view = None THEN 0 ELSE view.week)
<1>1. T!Pooled(m, view, clk).day = day /\ T!Pooled(m, view, clk).week = week
  BY DEF T!Pooled
<1>2. /\ use = Cardinality(m.own) + m.cross /\ use \in Nat /\ IsFiniteSet(m.own)
      /\ T!Used(a) = Cardinality(a.own) + a.cross /\ T!Used(a) \in Nat /\ IsFiniteSet(a.own)
      /\ Cardinality(m.own) \in Nat /\ Cardinality(a.own) \in Nat
      /\ m.cross \in Nat /\ a.cross \in Nat /\ m.past \in Nat /\ a.past \in Nat
  BY UsedIs DEF Meters
<1>3. /\ IsFiniteSet(both) /\ Cardinality(both) \in Nat
      /\ Cardinality(m.own) <= Cardinality(both) /\ Cardinality(a.own) <= Cardinality(both)
      /\ m.own = {} => Cardinality(both) = Cardinality(a.own)
  <2>1. IsFiniteSet(both)
    BY <1>2, FS_Union
  <2> QED
    BY <2>1, FS_Subset, FS_CardinalityType
<1>4. week <= m.past + use + a.past + T!Used(a)
  <2> HIDE DEF use
  <2> QED
    BY <1>2 DEF Behind, TimeTypes
<1>5. day <= IF view # None /\ view.slots = None THEN use + T!Used(a)
             ELSE Cardinality(both) + m.cross + a.cross
  <2>1. CASE view = None \/ view.day # clk \div DayLen
    <3> HIDE DEF use, both, uni
    <3>1. day = use
      BY <2>1
    <3> HIDE DEF day
    <3> QED
      BY <1>2, <1>3, <3>1
  <2>2. CASE view # None /\ view.day = clk \div DayLen
    <3>1. /\ view.used \in Nat /\ view.used <= T!Used(a)
          /\ view.slots # None => view.slots \subseteq T!Slots(a.own) /\ IsFiniteSet(view.slots)
      BY <2>2 DEF Behind, TimeTypes
    <3>2. CASE view.slots = None
      <4> HIDE DEF use, both, uni
      <4>1. day = use + view.used
        BY <2>2, <3>2
      <4> HIDE DEF day
      <4> QED
        BY <1>2, <2>2, <3>1, <3>2, <4>1
    <3>3. CASE view.slots # None /\ (m.own # {} \/ use = 0)
      <4>1. union \subseteq T!Slots(both)
        BY <3>1, <3>3 DEF T!Slots
      <4>2. IsFiniteSet(T!Slots(both)) /\ Cardinality(T!Slots(both)) <= Cardinality(both)
            /\ Cardinality(T!Slots(both)) \in Nat
        <5> HIDE DEF both
        <5> QED
          BY <1>3, SlotsAre
      <4>3. IsFiniteSet(union) /\ Cardinality(union) <= Cardinality(T!Slots(both))
        BY <4>1, <4>2, FS_Subset
      <4>4. uni = Cardinality(union) /\ Cardinality(union) \in Nat
        BY <4>3, FS_CardinalityType, Counted
      <4> HIDE DEF use, both, uni, union
      <4>5. day = T!Max({uni, use})
        BY <2>2, <3>3
      <4> HIDE DEF day
      <4>6. uni \in Int /\ use \in Int
        BY <1>2, <4>4
      <4>7. T!Max({uni, use}) = IF uni >= use THEN uni ELSE use
        BY <4>6, OfTwo
      <4>8. uni <= Cardinality(both)
        BY <1>3, <4>2, <4>3, <4>4
      <4>9. day <= Cardinality(both) + m.cross + a.cross
        BY <1>2, <1>3, <4>4, <4>5, <4>7, <4>8
      <4> QED
        BY <3>3, <4>9
    <3>4. CASE view.slots # None /\ ~(m.own # {} \/ use = 0)
      <4> HIDE DEF use, both, uni
      <4>1. day = use + view.used
        BY <2>2, <3>4
      <4> HIDE DEF day
      <4>2. Cardinality(m.own) = 0
        BY <3>4, FS_EmptySet
      <4>3. use = m.cross /\ Cardinality(both) = Cardinality(a.own)
        BY <1>2, <1>3, <3>4, <4>2
      <4> QED
        BY <1>2, <1>3, <3>1, <3>4, <4>1, <4>3
    <3> QED
      BY <3>2, <3>3, <3>4
  <2> QED
    BY <2>1, <2>2
<1>6. T!Cardinality(both) = Cardinality(both)
  BY Counted
<1> HIDE DEF day, week, both
<1> QED
  BY <1>1, <1>4, <1>5, <1>6 DEF both

\* A budget lock is never early (NeverLocksEarly of TimeLeft), after an iteration.
LEMMA NeverEarlyAfter ==
    ASSUME TimeTypes, ViewInv, NEW use \in BOOLEAN, NEW elsewhere \in BOOLEAN, NEW lost \in BOOLEAN,
           T!Iterate(use, elsewhere, lost)
    PROVE  T!NeverLocksEarly'
<1>1. /\ view' = view /\ cap' = cap
      /\ ledger' = IF Spends THEN [Burnt EXCEPT !.pools[Shown.id].left = T!AtLeastZero(@ - 1)]
                   ELSE Burnt
  BY IterateIs, Zenon
<1>2. meter' \in Meters /\ away' \in Meters
  BY TypesIterate DEF TimeTypes
<1>3. Burnt \in Ledgers /\ After \div DayLen \in Nat
  BY BurntIs, ClockIs, DaysAre
<1>4. ledger'.give = Burnt.give /\ ledger'.take = Burnt.take
  <2> DEFINE f == [Burnt.pools EXCEPT ![Shown.id].left = T!AtLeastZero(@ - 1)]
  <2>1. ledger' = [Burnt EXCEPT !.pools = f] \/ ledger' = Burnt
    BY <1>1
  <2> HIDE DEF f
  <2> QED
    BY <1>3, <2>1 DEF Ledgers
<1> SUFFICES ASSUME out'.locked, out'.why = "budget", cap.is = "plain"
             PROVE  \/ cap.day # None /\ T!SpentAtMost' >= cap.day + (Burnt.give - Burnt.take)
                    \/ cap.week # None /\ T!SpentThisWeek' >= cap.week + (Burnt.give - Burnt.take)
  BY <1>1, <1>4 DEF T!NeverLocksEarly
<1>5. Shown.is = "core" /\ Rest.why = "budget"
  <2>1. out'.why = IF Shown.is = "core" THEN Rest.why
                   ELSE IF Shown.is = "locked" THEN "schedule" ELSE None
    BY OutIs
  <2>2. None # "budget"
    BY NamesAssumption
  <2> QED
    BY <2>1, <2>2
<1>6. PICK schedule \in Limits, budget \in Limits :
        /\ Rest = T!Breakdown(schedule, budget, T!Countdown(After))
        /\ budget = T!BudgetLeft(meter', view, Burnt, After)
  BY <1>2, RestIs
<1>7. budget = 0
  BY <1>5, <1>6, CountdownIs, BreakdownIs
<1> DEFINE p == T!Pooled(meter', view, After)
<1>8. \/ cap.day # None /\ p.day >= cap.day + (Burnt.give - Burnt.take)
      \/ cap.week # None /\ p.week >= cap.week + (Burnt.give - Burnt.take)
  BY <1>2, <1>3, <1>6, <1>7, BudgetIs
<1>9. Behind(view, away', After \div DayLen)
  BY ViewIterates
<1>10. p.day <= T!SpentAtMost' /\ p.week <= T!SpentThisWeek'
  <2>1. /\ p.day <= IF view # None /\ view.slots = None THEN T!Used(meter') + T!Used(away')
                    ELSE T!Cardinality(meter'.own \cup away'.own) + meter'.cross + away'.cross
        /\ p.week <= meter'.past + T!Used(meter') + away'.past + T!Used(away')
    BY <1>2, <1>3, <1>9, PooledBehind
  <2> QED
    BY <1>1, <2>1 DEF T!SpentAtMost, T!Spent, T!SpentThisWeek, T!Used, T!Cardinality
<1>11. /\ p.day \in Nat /\ p.week \in Nat /\ T!SpentAtMost' \in Nat /\ T!SpentThisWeek' \in Nat
       /\ Burnt.give \in Nat /\ Burnt.take \in Nat
       /\ cap.day \in Nat \cup {None} /\ cap.week \in Nat \cup {None}
  <2>1. p.day \in Nat /\ p.week \in Nat
    BY <1>2, PooledIs
  <2>2. /\ T!Used(meter') \in Nat /\ T!Used(away') \in Nat
        /\ meter'.past \in Nat /\ away'.past \in Nat
        /\ meter'.cross \in Nat /\ away'.cross \in Nat
        /\ IsFiniteSet(meter'.own) /\ IsFiniteSet(away'.own)
    BY <1>2, UsedIs DEF Meters
  <2>3. T!Cardinality(meter'.own \cup away'.own) \in Nat
    BY <2>2, FS_Union, FS_CardinalityType, Counted
  <2>4. T!SpentAtMost' \in Nat
    <3>1. T!SpentAtMost' =
            IF view' # None /\ view'.slots = None THEN T!Used(meter') + T!Used(away')
            ELSE T!Cardinality(meter'.own \cup away'.own) + meter'.cross + away'.cross
      BY DEF T!SpentAtMost, T!Spent, T!Used, T!Cardinality
    <3> QED
      BY <2>2, <2>3, <3>1
  <2>5. T!SpentThisWeek' \in Nat
    <3>1. T!SpentThisWeek' = meter'.past + T!Used(meter') + away'.past + T!Used(away')
      BY DEF T!SpentThisWeek, T!Used, T!Cardinality
    <3> QED
      BY <2>2, <3>1
  <2>6. Burnt.give \in Nat /\ Burnt.take \in Nat
    BY <1>3 DEF Ledgers
  <2>7. cap.day \in Nat \cup {None} /\ cap.week \in Nat \cup {None}
    BY DEF TimeTypes, Caps
  <2> QED
    BY <2>1, <2>4, <2>5, <2>6, <2>7
<1> HIDE DEF p
<1> QED
  BY <1>8, <1>10, <1>11

-----------------------------------------------------------------------------
(* Minutes outside the windows. *)

\* The minutes in the pools, each by its name and its number.
PoolMinutes(l) ==
  {p \in NamedTimes \X Nat : 1 <= p[2] /\ p[2] <= l.pools[p[1]].left}

\* The minutes begun outside the windows are of those given for it that are gone.
PaidInv ==
  /\ IsFiniteSet(PoolMinutes(ledger))
  /\ outside + ledger.hours + Cardinality(PoolMinutes(ledger)) <= 0

\* A day begins with no minute of a pool.
LEMMA NoPoolMinutes == PoolMinutes(T!NewLedger) = {}
<1>1. \A id \in NamedTimes : T!NewLedger.pools[id].left = 0
  BY DEF T!NewLedger, T!NoPool
<1> QED
  BY <1>1 DEF PoolMinutes

\* The same pools have the same minutes.
LEMMA SamePools ==
    ASSUME NEW l, NEW k, \A id \in NamedTimes : k.pools[id].left = l.pools[id].left
    PROVE  PoolMinutes(k) = PoolMinutes(l)
BY DEF PoolMinutes

\* One pool with more minutes has that many more.
LEMMA PoolGrows ==
    ASSUME NEW l \in Ledgers, NEW k \in Ledgers, NEW id \in NamedTimes, NEW n \in Nat,
           \A j \in NamedTimes : k.pools[j].left = l.pools[j].left + (IF j = id THEN n ELSE 0),
           IsFiniteSet(PoolMinutes(l))
    PROVE  /\ IsFiniteSet(PoolMinutes(k))
           /\ Cardinality(PoolMinutes(k)) = Cardinality(PoolMinutes(l)) + n
<1> DEFINE a == l.pools[id].left
           new == {p \in {id} \X Nat : a + 1 <= p[2] /\ p[2] <= a + n}
           f == [i \in 1 .. n |-> <<id, a + i>>]
<1>1. a \in Nat /\ \A j \in NamedTimes : l.pools[j].left \in Nat
  BY DEF Ledgers
<1>2. f \in Bijection(1 .. n, new)
  <2>1. f \in [1 .. n -> new]
    BY <1>1
  <2>2. \A i, j \in 1 .. n : f[i] = f[j] => i = j
    BY <1>1
  <2>3. \A p \in new : \E i \in 1 .. n : f[i] = p
    <3> TAKE p \in new
    <3>1. p[1] = id /\ p[2] \in Nat /\ a + 1 <= p[2] /\ p[2] <= a + n /\ p = <<p[1], p[2]>>
      OBVIOUS
    <3>2. p[2] - a \in 1 .. n /\ a + (p[2] - a) = p[2]
      BY <1>1, <3>1
    <3>3. f[p[2] - a] = p
      BY <3>1, <3>2
    <3> QED
      BY <3>2, <3>3
  <2> HIDE DEF f, new
  <2> QED
    BY <2>1, <2>2, <2>3 DEF Bijection, Injection, IsInjective, Surjection
<1>3. IsFiniteSet(1 .. n) /\ Cardinality(1 .. n) = n
  BY FS_Interval
<1>4. IsFiniteSet(new) /\ Cardinality(new) = n
  <2> HIDE DEF f, new
  <2> QED
    BY <1>2, <1>3, FS_Bijection DEF ExistsBijection
<1>5. PoolMinutes(k) = PoolMinutes(l) \cup new
  <2>1. ASSUME NEW p \in NamedTimes \X Nat
        PROVE  p \in PoolMinutes(k) <=> p \in PoolMinutes(l) \cup new
    <3>1. p[1] \in NamedTimes /\ p[2] \in Nat /\ p = <<p[1], p[2]>>
      BY <2>1
    <3>2. p \in new <=> p[1] = id /\ a + 1 <= p[2] /\ p[2] <= a + n
      BY <3>1
    <3>3. k.pools[p[1]].left = l.pools[p[1]].left + (IF p[1] = id THEN n ELSE 0)
          /\ l.pools[p[1]].left \in Nat
      BY <1>1, <3>1
    <3> HIDE DEF new
    <3>4. CASE p[1] = id
      <4>1. l.pools[p[1]].left = a /\ k.pools[p[1]].left = a + n
        BY <3>3, <3>4
      <4> HIDE DEF a
      <4> QED
        BY <1>1, <3>1, <3>2, <3>4, <4>1 DEF PoolMinutes
    <3>5. CASE p[1] # id
      <4>1. k.pools[p[1]].left = l.pools[p[1]].left
        BY <3>3, <3>5
      <4> QED
        BY <3>2, <3>5, <4>1 DEF PoolMinutes
    <3> QED
      BY <3>4, <3>5
  <2>2. new \subseteq NamedTimes \X Nat
    OBVIOUS
  <2>3. PoolMinutes(k) \subseteq NamedTimes \X Nat /\ PoolMinutes(l) \subseteq NamedTimes \X Nat
    BY DEF PoolMinutes
  <2> HIDE DEF new
  <2> QED
    BY <2>1, <2>2, <2>3
<1>6. PoolMinutes(l) \cap new = {}
  <2>1. ASSUME NEW p \in new PROVE p \notin PoolMinutes(l)
    <3>1. p[1] = id /\ p[2] \in Nat /\ a + 1 <= p[2]
      BY <2>1
    <3>2. ~(p[2] <= l.pools[p[1]].left)
      BY <1>1, <3>1
    <3> QED
      BY <3>2 DEF PoolMinutes
  <2> HIDE DEF new
  <2> QED
    BY <2>1
<1>7. Cardinality(PoolMinutes(l)) \in Nat /\ Cardinality({}) = 0
  BY FS_CardinalityType, FS_EmptySet
<1> HIDE DEF new
<1>8. /\ IsFiniteSet(PoolMinutes(l) \cup new)
      /\ Cardinality(PoolMinutes(l) \cup new)
           = Cardinality(PoolMinutes(l)) + Cardinality(new) - Cardinality(PoolMinutes(l) \cap new)
  BY <1>4, FS_Union
<1>9. Cardinality(PoolMinutes(l) \cap new) = 0
  BY <1>6, <1>7
<1>10. Cardinality(PoolMinutes(l) \cup new) = Cardinality(PoolMinutes(l)) + n
  BY <1>4, <1>7, <1>8, <1>9
<1> QED
  BY <1>5, <1>8, <1>10

\* A minute a pool pays is one the less.
LEMMA PoolSpent ==
    ASSUME NEW l \in Ledgers, NEW k \in Ledgers, NEW id \in NamedTimes,
           \A j \in NamedTimes : l.pools[j].left = k.pools[j].left + (IF j = id THEN 1 ELSE 0),
           IsFiniteSet(PoolMinutes(l))
    PROVE  /\ IsFiniteSet(PoolMinutes(k))
           /\ Cardinality(PoolMinutes(l)) = Cardinality(PoolMinutes(k)) + 1
<1>1. PoolMinutes(k) \subseteq PoolMinutes(l)
  <2>1. \A j \in NamedTimes : k.pools[j].left \in Nat /\ k.pools[j].left <= l.pools[j].left
    BY DEF Ledgers
  <2>2. \A j \in NamedTimes : l.pools[j].left \in Nat
    BY DEF Ledgers
  <2> QED
    BY <2>1, <2>2 DEF PoolMinutes
<1>2. IsFiniteSet(PoolMinutes(k))
  BY <1>1, FS_Subset
<1>3. 1 \in Nat
  OBVIOUS
<1> QED
  BY <1>2, <1>3, PoolGrows

\* An iteration pays for the minute it begins outside the windows, with an hour's or a
\* pool's (burn_schedule_extension, charge_pool).
LEMMA PaidIterates ==
    ASSUME TimeTypes, PaidInv, NEW use \in BOOLEAN, NEW elsewhere \in BOOLEAN, NEW lost \in BOOLEAN,
           T!Iterate(use, elsewhere, lost)
    PROVE  PaidInv'
<1> DEFINE left == IF T!NewDay(T!Clock, After) THEN 0 ELSE outside
           open == ~out'.locked /\ T!ScheduleClosed(After)
<1>1. /\ outside' = left + (IF open THEN 1 ELSE 0)
      /\ ledger' = IF Spends THEN [Burnt EXCEPT !.pools[Shown.id].left = T!AtLeastZero(@ - 1)]
                   ELSE Burnt
  BY IterateIs, Zenon
<1>2. meter' \in Meters /\ ledger' \in Ledgers /\ ledger \in Ledgers /\ outside \in Int
  BY TypesIterate DEF TimeTypes
<1>3. /\ Rolled \in Ledgers /\ Burnt \in Ledgers /\ Burnt.pools = Rolled.pools
      /\ Burnt.hours <= Rolled.hours /\ Burnt.hours \in Nat /\ Rolled.hours \in Nat
      /\ T!ScheduleClosed(After) /\ Rolled.hours > 0 => Burnt.hours = Rolled.hours - 1
  BY BurntIs DEF Ledgers
<1> DEFINE paid == Cardinality(PoolMinutes(Burnt))
<1>4. PoolMinutes(Burnt) = PoolMinutes(Rolled)
  BY <1>3, SamePools
<1>5. IsFiniteSet(PoolMinutes(Burnt)) /\ paid \in Nat /\ left + Rolled.hours + paid <= 0
      /\ left \in Int
  <2>1. CASE T!NewDay(T!Clock, After)
    <3>1. Rolled = T!NewLedger /\ left = 0
      BY <2>1 DEF Rolled, T!RolledLedger
    <3>2. Rolled.hours = 0 /\ PoolMinutes(Burnt) = {}
      BY <1>4, <3>1, NoPoolMinutes DEF T!NewLedger
    <3> QED
      BY <3>1, <3>2, FS_EmptySet
  <2>2. CASE ~T!NewDay(T!Clock, After)
    <3>1. Rolled = ledger /\ left = outside
      BY <2>2 DEF Rolled, T!RolledLedger
    <3> QED
      BY <1>2, <1>4, <3>1, FS_CardinalityType DEF PaidInv
  <2> QED
    BY <2>1, <2>2
<1>6. Verdict(Shown, Rest, Burnt, After)
      /\ (Spends => Shown.id \in NamedTimes /\ Burnt.pools[Shown.id].left > 0)
  BY <1>2, ShownIs
<1>7. CASE Spends
  <2> DEFINE id == Shown.id
             n == Burnt.pools[id].left - 1
  <2>1. id \in NamedTimes /\ Burnt.pools[id].left \in Nat /\ n \in Nat
    BY <1>3, <1>6, <1>7 DEF Ledgers
  <2>2. ledger' = [Burnt EXCEPT !.pools[id].left = n]
    BY <1>1, <1>7, <2>1 DEF T!AtLeastZero
  <2>3. /\ ledger'.hours = Burnt.hours
        /\ \A j \in NamedTimes :
             Burnt.pools[j].left = ledger'.pools[j].left + (IF j = id THEN 1 ELSE 0)
    <3>1. \A j \in NamedTimes : Burnt.pools[j].left \in Nat
      BY <1>3 DEF Ledgers
    <3> DEFINE b == Burnt.pools[id].left
    <3>2. n = b - 1 /\ b = Burnt.pools[id].left
      OBVIOUS
    <3> HIDE DEF n, id, b
    <3>3. ledger'.hours = Burnt.hours
          /\ \A j \in NamedTimes : ledger'.pools[j].left = IF j = id THEN n ELSE Burnt.pools[j].left
      BY <1>3, <2>1, <2>2 DEF Ledgers
    <3> QED
      BY <2>1, <3>1, <3>2, <3>3
  <2> HIDE DEF id, n
  <2>4. Burnt \in Ledgers /\ ledger' \in Ledgers
    BY <1>2, <1>3
  <2>5. IsFiniteSet(PoolMinutes(Burnt))
    BY <1>5
  <2>6. IsFiniteSet(PoolMinutes(ledger'))
        /\ Cardinality(PoolMinutes(Burnt)) = Cardinality(PoolMinutes(ledger')) + 1
    BY <2>1, <2>3, <2>4, <2>5, PoolSpent
  <2>7. Cardinality(PoolMinutes(ledger')) \in Nat
    BY <2>6, FS_CardinalityType
  <2> HIDE DEF left, open
  <2>8. outside' <= left + 1 /\ outside' \in Int
    BY <1>1, <1>5
  <2>9. outside' + ledger'.hours + Cardinality(PoolMinutes(ledger')) <= 0
    BY <1>3, <1>5, <2>3, <2>6, <2>7, <2>8
  <2> QED
    BY <2>6, <2>9 DEF PaidInv, PoolMinutes
<1>8. CASE ~Spends
  <2>1. ledger' = Burnt
    BY <1>1, <1>8
  <2>2. open => Burnt.hours = Rolled.hours - 1
    <3> SUFFICES ASSUME open PROVE Burnt.hours = Rolled.hours - 1
      OBVIOUS
    <3>1. Shown.is = "core" /\ ~Rest.locked
      <4>1. out'.locked <=> (IF Shown.is = "core" THEN Rest.locked ELSE Shown.is = "locked")
        BY OutIs
      <4> QED
        BY <1>6, <1>8, <4>1 DEF Verdict, Spends
    <3>2. PICK schedule \in Limits, budget \in Limits :
            /\ Rest = T!Breakdown(schedule, budget, T!Countdown(After))
            /\ T!ScheduleClosed(After) /\ schedule # 0 => Burnt.hours > 0
      BY <1>2, RestIs
    <3>3. schedule # 0
      BY <3>1, <3>2, CountdownIs, BreakdownIs
    <3> QED
      BY <1>3, <3>2, <3>3
  <2> HIDE DEF left, open, paid
  <2>3. outside' + ledger'.hours + paid <= 0
    BY <1>1, <1>3, <1>5, <2>1, <2>2
  <2> QED
    BY <1>5, <2>1, <2>3 DEF PaidInv, PoolMinutes, paid
<1> QED
  BY <1>7, <1>8

\* What is given for the hours outside the windows, or to a pool, pays as much as it says.
LEMMA PaidArrives ==
    ASSUME TimeTypes, PaidInv, NEW e, Arrives(e)
    PROVE  PaidInv'
<1>0. ledger \in Ledgers /\ outside \in Int /\ ledger.hours \in Nat
  BY DEF TimeTypes, Ledgers
<1>00. Cardinality(PoolMinutes(ledger)) \in Nat
  BY FS_CardinalityType DEF PaidInv
<1>1. CASE T!GiveHours(e)
  <2>0. e \in todo
    BY ArrivalIs
  <2>1. /\ ledger' \in Ledgers /\ e.n \in Nat /\ outside' = outside - e.n
        /\ \/ ledger'.hours = ledger.hours + e.n /\ ledger'.pools = ledger.pools
           \/ /\ ledger'.hours = ledger.hours /\ e.id \in NamedTimes
              /\ \A j \in NamedTimes :
                   ledger'.pools[j].left = ledger.pools[j].left + (IF j = e.id THEN e.n ELSE 0)
    BY <1>1, <2>0, TypesGiveHours
  <2>2. CASE ledger'.hours = ledger.hours + e.n /\ ledger'.pools = ledger.pools
    <3>1. PoolMinutes(ledger') = PoolMinutes(ledger)
      BY <2>2, SamePools
    <3>2. outside' + ledger'.hours + Cardinality(PoolMinutes(ledger')) <= 0
      BY <1>0, <1>00, <2>1, <2>2, <3>1 DEF PaidInv
    <3> QED
      BY <3>1, <3>2 DEF PaidInv, PoolMinutes
  <2>3. CASE /\ ledger'.hours = ledger.hours /\ e.id \in NamedTimes
             /\ \A j \in NamedTimes :
                  ledger'.pools[j].left = ledger.pools[j].left + (IF j = e.id THEN e.n ELSE 0)
    <3>1. IsFiniteSet(PoolMinutes(ledger'))
          /\ Cardinality(PoolMinutes(ledger')) = Cardinality(PoolMinutes(ledger)) + e.n
      BY <1>0, <2>1, <2>3, PoolGrows DEF PaidInv
    <3>2. outside' + ledger'.hours + Cardinality(PoolMinutes(ledger')) <= 0
      BY <1>0, <1>00, <2>1, <2>3, <3>1 DEF PaidInv
    <3> QED
      BY <3>1, <3>2 DEF PaidInv, PoolMinutes
  <2> QED
    BY <2>1, <2>2, <2>3
<1>2. CASE outside' = outside /\ ledger'.hours = ledger.hours /\ ledger'.pools = ledger.pools
  <2>1. PoolMinutes(ledger') = PoolMinutes(ledger)
    BY <1>2, SamePools
  <2>2. outside' + ledger'.hours + Cardinality(PoolMinutes(ledger')) <= 0
    BY <1>2, <2>1 DEF PaidInv
  <2> QED
    BY <2>1, <2>2 DEF PaidInv, PoolMinutes
<1>3. \/ T!GiveHours(e)
      \/ outside' = outside /\ ledger'.hours = ledger.hours /\ ledger'.pools = ledger.pools
  <2>1. CASE T!Give(e)
    <3> DEFINE base == IF ledger.base # None THEN ledger.base
                       ELSE [day |-> T!Used(meter), week |-> meter.past + T!Used(meter)]
               given == ledger.give + e.n
    <3>1. outside' = outside /\ ledger' = [ledger EXCEPT !.give = given, !.base = base]
      BY <2>1 DEF T!Give
    <3> HIDE DEF base, given
    <3> QED
      BY <1>0, <3>1 DEF Ledgers
  <2>2. CASE T!Take(e)
    <3>1. outside' = outside /\ ledger' = IF e.do = "take" THEN [ledger EXCEPT !.take = @ + e.n]
                                          ELSE [ledger EXCEPT !.cut = @ + e.n]
      BY <2>2, Zenon DEF T!Take
    <3> QED
      BY <1>0, <3>1 DEF Ledgers
  <2>3. CASE UNCHANGED <<ledger, outside>>
    BY <2>3
  <2> QED
    BY <2>1, <2>2, <2>3 DEF Arrives, T!SyncView, T!Order, T!EditCap, T!Restart, T!ClockBack
<1> QED
  BY <1>1, <1>2, <1>3

\* On a budget nothing lifts, a child has no more than a named time of their own.
LEMMA ProofAfter ==
    ASSUME TimeTypes, NEW use \in BOOLEAN, NEW elsewhere \in BOOLEAN, NEW lost \in BOOLEAN,
           T!Iterate(use, elsewhere, lost), T!PoolProof, ~out'.locked
    PROVE  out'.named /\ ~out'.pool
<1>1. meter' \in Meters /\ Burnt \in Ledgers
  BY TypesIterate, BurntIs DEF TimeTypes
<1>2. PICK schedule \in Limits, budget \in Limits :
        /\ Rest = T!Breakdown(schedule, budget, T!Countdown(After))
        /\ budget = T!BudgetLeft(meter', view, Burnt, After)
  BY <1>1, RestIs
<1>3. budget = 0
  BY <1>1, <1>2, BudgetIs DEF T!PoolProof
<1>4. Rest.locked
  BY <1>2, <1>3, CountdownIs, BreakdownIs
<1>5. Verdict(Shown, Rest, Burnt, After)
  BY <1>1, ShownIs
<1>6. /\ out'.locked <=> (IF Shown.is = "core" THEN Rest.locked ELSE Shown.is = "locked")
      /\ out'.named <=> Shown.is = "named"
      /\ out'.pool <=> Spends
      /\ out'.named \in BOOLEAN /\ out'.pool \in BOOLEAN
  BY OutIs
<1>7. Shown.is = "named"
  BY <1>4, <1>5, <1>6 DEF Verdict
<1>8. ~Spends
  BY <1>5 DEF Verdict, Spends
<1> QED
  BY <1>6, <1>7, <1>8
-----------------------------------------------------------------------------
(* The time a child has: the inductive invariant and its theorems. *)

\* A budget nothing lifts leaves a named time of the child's own, at most.
ProofLocks == quiet /\ T!PoolProof /\ ~out.locked => out.named /\ ~out.pool

\* The inductive invariant of a child's time.
TimeInv ==
  /\ TimeTypes /\ OrderTypes /\ SightInv /\ ViewInv /\ PaidInv
  /\ T!StandDownBites /\ T!NeverLocksEarly /\ ProofLocks

\* The first minute of a computer satisfies the invariant.
LEMMA TimeInit == T!Init => TimeInv
<1> SUFFICES ASSUME T!Init PROVE TimeInv
  OBVIOUS
<1>1. TimeTypes
  BY TimeTypesInit
<1>2. /\ order = None /\ seen = None /\ gracePin.id = None /\ view = None /\ ~quiet
      /\ ledger = T!NewLedger /\ outside = 0
  BY DEF T!Init
<1>3. OrderTypes /\ SightInv
  BY <1>2 DEF OrderTypes, SightInv
<1>4. ViewInv
  BY <1>2 DEF ViewInv, Behind
<1>5. PaidInv
  <2>1. PoolMinutes(ledger) = {} /\ ledger.hours = 0
    BY <1>2, NoPoolMinutes DEF T!NewLedger
  <2>2. IsFiniteSet(PoolMinutes(ledger)) /\ Cardinality(PoolMinutes(ledger)) = 0
    BY <2>1, FS_EmptySet
  <2> QED
    BY <1>2, <2>1, <2>2 DEF PaidInv
<1> QED
  BY <1>1, <1>2, <1>3, <1>4, <1>5 DEF TimeInv, ProofLocks, T!StandDownBites, T!NeverLocksEarly

\* Every minute, and all that arrives between two, keeps it.
LEMMA TimeStep ==
    ASSUME TimeInv, T!Next
    PROVE  TimeInv'
<1>1. ASSUME NEW use \in BOOLEAN, NEW elsewhere \in BOOLEAN, NEW lost \in BOOLEAN,
             T!Iterate(use, elsewhere, lost)
      PROVE  TimeInv'
  <2>1. TimeTypes /\ OrderTypes /\ SightInv /\ ViewInv /\ PaidInv
    BY DEF TimeInv
  <2>2. TimeTypes'
    BY <1>1, <2>1, TypesIterate
  <2>3. OrderTypes' /\ SightInv'
    BY <1>1, <2>1, OrderIterates
  <2>4. ViewInv'
    BY <1>1, <2>1, ViewIterates
  <2>5. PaidInv'
    BY <1>1, <2>1, PaidIterates
  <2>6. T!StandDownBites'
    BY <1>1, <2>1, BitesAfter
  <2>7. T!NeverLocksEarly'
    BY <1>1, <2>1, NeverEarlyAfter
  <2>8. T!PoolProof' /\ ~out'.locked => out'.named /\ ~out'.pool
    <3>1. T!PoolProof' <=> T!PoolProof
      <4>1. cap' = cap
        BY <1>1, IterateIs, Zenon
      <4> QED
        BY <4>1 DEF T!PoolProof
    <3>2. T!PoolProof /\ ~out'.locked => out'.named /\ ~out'.pool
      BY <1>1, <2>1, ProofAfter
    <3> QED
      BY <3>1, <3>2
  <2> QED
    BY <2>2, <2>3, <2>4, <2>5, <2>6, <2>7, <2>8 DEF TimeInv, ProofLocks
<1>2. ASSUME NEW e, Arrives(e) PROVE TimeInv'
  <2>1. TimeTypes /\ OrderTypes /\ SightInv /\ ViewInv /\ PaidInv
    BY DEF TimeInv
  <2>2. TimeTypes' /\ OrderTypes' /\ SightInv' /\ ViewInv' /\ PaidInv'
    BY <1>2, <2>1, TypesArrive, OrderArrives, ViewArrives, PaidArrives
  <2>3. ~quiet'
    BY <1>2, ArrivalIs
  <2> QED
    BY <2>2, <2>3 DEF TimeInv, ProofLocks, T!StandDownBites, T!NeverLocksEarly
<1> QED
  BY <1>1, <1>2 DEF T!Next, Arrives

\* And a computer of which another part moves.
LEMMA TimeRests ==
    ASSUME TimeInv, UNCHANGED timeVars
    PROVE  TimeInv'
<1>0. /\ setup' = setup /\ todo' = todo /\ time' = time /\ slow' = slow /\ meter' = meter
      /\ away' = away /\ view' = view /\ ledger' = ledger /\ cap' = cap /\ order' = order
      /\ gracePin' = gracePin /\ out' = out /\ seen' = seen /\ outside' = outside /\ quiet' = quiet
  BY DEF timeVars
<1>1. TimeTypes'
  BY <1>0 DEF TimeInv, TimeTypes, Numbered
<1>2. OrderTypes' /\ SightInv'
  BY <1>0 DEF TimeInv, OrderTypes, SightInv, Taken
<1>3. ViewInv'
  BY <1>0 DEF TimeInv, ViewInv, Behind, T!Clock, T!Used, T!Slots
<1>4. PaidInv'
  BY <1>0 DEF TimeInv, PaidInv, PoolMinutes
<1>5. T!StandDownBites'
  BY <1>0 DEF TimeInv, T!StandDownBites, T!Clock, T!Stands
<1>6. T!NeverLocksEarly'
  BY <1>0 DEF TimeInv, T!NeverLocksEarly, T!SpentAtMost, T!Spent, T!SpentThisWeek, T!Used
<1>7. ProofLocks'
  BY <1>0 DEF TimeInv, ProofLocks, T!PoolProof
<1> QED
  BY <1>1, <1>2, <1>3, <1>4, <1>5, <1>6, <1>7 DEF TimeInv

\* The minutes given for it pay for every minute outside the windows.
LEMMA OutsideIsPaid ==
    ASSUME TimeTypes, PaidInv
    PROVE  outside <= 0
<1>1. outside \in Int /\ ledger.hours \in Nat
  BY DEF TimeTypes, Ledgers
<1>2. Cardinality(PoolMinutes(ledger)) \in Nat
  BY FS_CardinalityType DEF PaidInv
<1> QED
  BY <1>1, <1>2 DEF PaidInv

\* The inductive invariant of a child's time, on a computer of whatever parts.
THEOREM TimeInvHolds == DeviceSpec => []TimeInv
<1>1. DeviceInit => TimeInv
  BY TimeInit DEF DeviceInit
<1>2. TimeInv /\ [DeviceNext]_<<part, vars, timeVars, pairingVars>> => TimeInv'
  BY TimeStep, TimeRests DEF DeviceNext
<1> QED
  BY <1>1, <1>2, PTL DEF DeviceSpec

\* The ledgers, the clauses and the pin keep their types: the minutes used are of the day, no
\* count of minutes goes below zero, and the clock never runs ahead of the time gone by
\* (the usage and times ledgers, the stand-down's pin).
THEOREM TimeTypesHold == DeviceSpec => []TimeTypes
<1>1. TimeInv => TimeTypes
  BY DEF TimeInv
<1> QED
  BY <1>1, TimeInvHolds, PTL

\* A stand-down bites after its grace and not before it, counted from where it was first
\* seen and pinned, whatever is granted, restarted, re-ordered or set back in between
\* (stand_down_now, grace_started_at, pin_first_sight, compute_remaining).
THEOREM StandDownHolds == DeviceSpec => []StandDownBites
<1>1. TimeInv => StandDownBites
  BY DEF TimeInv, StandDownBites
<1> QED
  BY <1>1, TimeInvHolds, PTL

\* No child is locked over a budget they have not used up, however old the view of their
\* other device is, and none has more minutes outside the windows than they were given for
\* it: for any day, cap, scene and order of what arrives (pooled_used, quota_parts,
\* decide, fall_through, charge_pool, burn_schedule_extension).
THEOREM LockedInTimeHolds == DeviceSpec => []LockedInTime
<1>1. TimeInv => LockedInTime
  BY OutsideIsPaid DEF TimeInv, ProofLocks, LockedInTime, T!LockedInTime, T!OutsideIsGiven
<1> QED
  BY <1>1, TimeInvHolds, PTL

-----------------------------------------------------------------------------
(* Warnings: what a verdict says of the minutes left. *)

\* The core's own verdict carries its span.
LEMMA CoreSays == \A s : T!Core(s).is = "core" /\ T!Core(s).span = s
BY DEF T!Core

\* What a named time allows is known, where it matters (run_named).
Runs(id) == id \notin OnlyThese \/ setup.inventory

\* A named time runs for the minutes it was found to have, or locks.
LEMMA RunNamedSays ==
    ASSUME NEW id, NEW pool, NEW span, NEW left, NEW v, v = T!RunNamed(id, pool, span, left)
    PROVE  /\ ~Runs(id) => v = T!LockedOut
           /\ Runs(id) => v.is = "named" /\ v.id = id /\ v.pool = pool /\ v.left = left
BY DEF T!RunNamed, Runs

\* The pool topped up last, run for its minutes.
PoolRun(l) ==
  T!RunNamed(T!RecentPool(l), TRUE, l.pools[T!RecentPool(l)].left, l.pools[T!RecentPool(l)].left)

\* fall_through runs a pool that has minutes, or says nothing.
LEMMA FallThroughSays ==
    ASSUME NEW l, NEW c, NEW whys, NEW v, v = T!FallThrough(c, l, whys)
    PROVE  \/ v = T!Core(None) /\ (T!PoolProof \/ c.why \notin whys \/ T!Pools(l) = {})
           \/ v = PoolRun(l) /\ ~T!PoolProof /\ c.why \in whys /\ T!Pools(l) # {}
BY DEF T!FallThrough, PoolRun

\* The first of some later minutes of the day, or its end.
LEMMA FirstIs ==
    ASSUME NEW m \in 0 .. DayLen - 1, NEW E, E \subseteq m + 1 .. DayLen - 1,
           NEW n, n = (IF E = {} THEN DayLen ELSE T!Min(E)) - m
    PROVE  /\ n \in Nat \ {0} /\ m + n <= DayLen
           /\ \A i \in m + 1 .. m + n - 1 : i \notin E
           /\ m + n < DayLen => m + n \in E
<1>1. CASE E = {}
  BY <1>1, DayLenAssumption
<1>2. CASE E # {}
  <2>1. E \subseteq Nat
    OBVIOUS
  <2>2. PICK k \in E : \A j \in E : k <= j
    BY <1>2, <2>1, Least
  <2>3. T!Min(E) \in E /\ \A j \in E : T!Min(E) <= j
    <3>1. /\ (CHOOSE x \in E : \A y \in E : x =< y) \in E
          /\ \A j \in E : (CHOOSE x \in E : \A y \in E : x =< y) =< j
      BY <2>2
    <3> QED
      BY <3>1 DEF T!Min
  <2> DEFINE a == T!Min(E)
  <2>4. a \in E /\ (\A j \in E : a <= j) /\ n = a - m
    BY <1>2, <2>3
  <2> HIDE DEF a
  <2>5. a \in Int /\ m + 1 <= a /\ a <= DayLen - 1
    <3>1. a \in m + 1 .. DayLen - 1
      BY <2>4
    <3> QED
      BY <3>1, DayLenAssumption
  <2>6. n \in Nat \ {0} /\ m + n = a /\ m + n <= DayLen
    BY <2>4, <2>5, DayLenAssumption
  <2>7. \A i \in m + 1 .. m + n - 1 : i \notin E
    BY <2>4, <2>5, <2>6
  <2> QED
    BY <2>4, <2>6, <2>7
<1> QED
  BY <1>1, <1>2

\* The label the verdict is about, the minutes it goes on, and those until the window closes.
Tag(clk) == IF setup.sched = "set" THEN T!Label(clk) ELSE "free"
Span(clk) == T!Until(clk, LAMBDA b : b # Tag(clk))
Closing(clk) == T!Until(clk, LAMBDA b : b = "closed")

\* A label goes on until another follows, or the day ends.
LEMMA SpanIs ==
    ASSUME NEW clk \in Nat
    PROVE  /\ Span(clk) \in Nat \ {0}
           /\ T!Minute(clk) + Span(clk) <= DayLen
           /\ Span(clk) # 1 => T!Minute(clk) + 1 < DayLen /\ setup.label[T!Minute(clk) + 1] = Tag(clk)
           /\ T!Minute(clk) + Span(clk) < DayLen =>
                setup.label[T!Minute(clk) + Span(clk)] # Tag(clk)
<1> DEFINE m == T!Minute(clk)
           E == {i \in m + 1 .. DayLen - 1 : setup.label[i] # Tag(clk)}
           n == (IF E = {} THEN DayLen ELSE T!Min(E)) - m
<1>1. m \in 0 .. DayLen - 1
  BY DaysAre DEF T!Minute
<1>2. Span(clk) = n
  BY DEF Span, T!Until
<1>3. E \subseteq m + 1 .. DayLen - 1
  OBVIOUS
<1>4. /\ n \in Nat \ {0} /\ m + n <= DayLen
      /\ \A i \in m + 1 .. m + n - 1 : i \notin E
      /\ m + n < DayLen => m + n \in E
  <2> HIDE DEF m, E
  <2> QED
    BY <1>1, <1>3, FirstIs
<1>5. n # 1 => m + 1 < DayLen /\ m + 1 \notin E
  <2> HIDE DEF n, E
  <2> QED
    BY <1>1, <1>4, DayLenAssumption
<1>6. n # 1 => m + 1 < DayLen /\ setup.label[m + 1] = Tag(clk)
  <2> HIDE DEF n
  <2> QED
    BY <1>1, <1>5, DayLenAssumption
<1>7. m + n < DayLen => setup.label[m + n] # Tag(clk)
  <2> HIDE DEF n
  <2> QED
    BY <1>4
<1> HIDE DEF n
<1> QED
  BY <1>2, <1>4, <1>6, <1>7

\* And so does an open window until it closes.
LEMMA ClosingIs ==
    ASSUME NEW clk \in Nat
    PROVE  /\ Closing(clk) \in Nat \ {0}
           /\ Closing(clk) = 1 /\ T!Minute(clk) + 1 < DayLen => setup.label[T!Minute(clk) + 1] = "closed"
           /\ T!Minute(clk) + Closing(clk) <= DayLen
           /\ \A i \in T!Minute(clk) + 1 .. T!Minute(clk) + Closing(clk) - 1 : setup.label[i] # "closed"
           /\ T!Minute(clk) + Closing(clk) < DayLen =>
                setup.label[T!Minute(clk) + Closing(clk)] = "closed"
<1> DEFINE m == T!Minute(clk)
           E == {i \in m + 1 .. DayLen - 1 : setup.label[i] = "closed"}
           n == (IF E = {} THEN DayLen ELSE T!Min(E)) - m
<1>1. m \in 0 .. DayLen - 1
  BY DaysAre DEF T!Minute
<1>2. Closing(clk) = n
  BY DEF Closing, T!Until
<1>3. E \subseteq m + 1 .. DayLen - 1
  OBVIOUS
<1>4. /\ n \in Nat \ {0} /\ m + n <= DayLen
      /\ \A i \in m + 1 .. m + n - 1 : i \notin E
      /\ m + n < DayLen => m + n \in E
  <2> HIDE DEF m, E
  <2> QED
    BY <1>1, <1>3, FirstIs
<1>5. /\ \A i \in m + 1 .. m + n - 1 : setup.label[i] # "closed"
      /\ m + n < DayLen => setup.label[m + n] = "closed"
  <2> HIDE DEF n
  <2>1. ASSUME NEW i \in m + 1 .. m + n - 1 PROVE setup.label[i] # "closed"
    <3>1. i \in m + 1 .. DayLen - 1 /\ i \notin E
      BY <1>1, <1>4, <2>1, DayLenAssumption
    <3> QED
      BY <3>1
  <2> QED
    BY <1>4, <2>1
<1> HIDE DEF n
<1> QED
  BY <1>2, <1>4, <1>5

\* A time is its day's first minute and the minutes since.
LEMMA MinuteIs ==
    ASSUME NEW t \in Nat, NEW d \in Nat, d * DayLen <= t, t < (d + 1) * DayLen
    PROVE  t % DayLen = t - d * DayLen
<1>1. t \div DayLen = d
  BY DayIs
<1>2. t % DayLen = t - DayLen * (t \div DayLen)
  BY DaysAre
<1>3. DayLen * d = d * DayLen
  BY DayLenAssumption
<1> QED
  BY <1>1, <1>2, <1>3

\* Some minutes on, it is as many minutes later in the day, unless the day is over; then, one
\* minute on, it was the day's last.
LEMMA MinutesPass ==
    ASSUME NEW t \in Nat, NEW k \in Nat
    PROVE  /\ T!Minute(t) \in 0 .. DayLen - 1
           /\ T!Minute(t) + k < DayLen => T!Minute(t + k) = T!Minute(t) + k
           /\ T!Minute(t) + 1 < DayLen => ~T!NewDay(t, t + 1)
           /\ T!NewDay(t, t + 1) => T!Minute(t) + 1 = DayLen /\ T!Minute(t + 1) = 0
           /\ ~T!NewDay(t, t + 1) => T!Minute(t) + 1 < DayLen
<1> DEFINE q == t \div DayLen
           a == q * DayLen
           r == t % DayLen
<1>1. q \in Nat /\ r \in 0 .. DayLen - 1 /\ a <= t /\ t < (q + 1) * DayLen
  BY DaysAre
<1>2. a \in Nat /\ (q + 1) * DayLen = a + DayLen /\ (q + 2) * DayLen = a + DayLen + DayLen
  <2> HIDE DEF q
  <2> QED
    BY <1>1, DayLenAssumption
<1>3. r = t - a
  <2>1. t \div DayLen = q
    OBVIOUS
  <2> HIDE DEF q
  <2> QED
    BY <1>1, MinuteIs
<1>4. T!Minute(t) = r
  BY DEF T!Minute
<1>5. ASSUME NEW j \in Nat, r + j < DayLen
      PROVE  (t + j) % DayLen = r + j /\ (t + j) \div DayLen = q
  <2> HIDE DEF r
  <2>1. q * DayLen <= t + j /\ t + j < (q + 1) * DayLen /\ t + j \in Nat
    <3> HIDE DEF a, q
    <3>1. a <= t + j /\ t + j < a + DayLen /\ t + j \in Nat
      BY <1>1, <1>2, <1>3, <1>5, DayLenAssumption
    <3> QED
      BY <1>2, <3>1 DEF a
  <2> HIDE DEF q
  <2> DEFINE n == t + j
  <2>0. n \in Nat /\ q * DayLen <= n /\ n < (q + 1) * DayLen
    BY <2>1
  <2> HIDE DEF n
  <2>2. n \div DayLen = q
    BY <1>1, <2>0, DayIs
  <2>3. n % DayLen = n - q * DayLen
    BY <1>1, <2>0, MinuteIs
  <2> DEFINE x == n % DayLen
  <2>4. x = n - a
    BY <2>3
  <2> HIDE DEF a, x
  <2>5. x = r + j
    BY <1>2, <1>3, <2>4 DEF n
  <2> QED
    BY <2>2, <2>5 DEF x, n
<1>6. ASSUME r + 1 = DayLen
      PROVE  (t + 1) % DayLen = 0 /\ (t + 1) \div DayLen = q + 1
  <2> HIDE DEF r
  <2>1. t + 1 = a + DayLen
    <3> HIDE DEF a, q
    <3> QED
      BY <1>1, <1>2, <1>3, <1>6, DayLenAssumption
  <2>2. (q + 1) * DayLen <= t + 1 /\ t + 1 < (q + 2) * DayLen /\ t + 1 \in Nat
    <3> HIDE DEF a, q
    <3> QED
      BY <1>2, <2>1, DayLenAssumption
  <2>3. q + 1 \in Nat /\ (q + 1) + 1 = q + 2
    <3> HIDE DEF q
    <3> QED
      BY <1>1
  <2> DEFINE d == q + 1
  <2>4. d \in Nat /\ d * DayLen <= t + 1 /\ t + 1 < (d + 1) * DayLen /\ t + 1 \in Nat
    BY <2>2, <2>3
  <2> DEFINE n == t + 1
  <2>5. n \in Nat /\ d * DayLen <= n /\ n < (d + 1) * DayLen /\ d * DayLen = n
    BY <1>2, <2>1, <2>4
  <2>6. d \in Nat
    BY <2>4
  <2> HIDE DEF d, n
  <2>7. n \div DayLen = d
    BY <2>5, <2>6, DayIs
  <2>8. n % DayLen = n - d * DayLen
    BY <2>5, <2>6, MinuteIs
  <2>9. n % DayLen = 0
    BY <2>5, <2>8
  <2> QED
    BY <2>7, <2>9 DEF d, n
<1>7. q # q + 1
  <2> HIDE DEF q
  <2> QED
    BY <1>1
<1>8. r + 1 < DayLen \/ r + 1 = DayLen
  <2> HIDE DEF r
  <2> QED
    BY <1>1, DayLenAssumption
<1>9. /\ r + 1 < DayLen => (t + 1) \div DayLen = q
      /\ r + k < DayLen => (t + k) % DayLen = r + k
  BY <1>5
<1>10. T!NewDay(t, t + 1) <=> q # (t + 1) \div DayLen
  BY DEF T!NewDay
<1>11. T!NewDay(t, t + 1) <=> r + 1 = DayLen
  <2> HIDE DEF q, r, a
  <2> QED
    BY <1>1, <1>6, <1>7, <1>8, <1>9, <1>10, DayLenAssumption
<1>12. T!Minute(t + k) = (t + k) % DayLen /\ T!Minute(t + 1) = (t + 1) % DayLen
  BY DEF T!Minute
<1> HIDE DEF q, r, a
<1> QED
  BY <1>1, <1>4, <1>6, <1>8, <1>9, <1>11, <1>12, DayLenAssumption

\* The minutes of a named time of one's own: of the span, and of the budget if it counts.
OwnLeft(c, clk) ==
  IF Tag(clk) \in Counts THEN T!Min({Span(clk), T!MinUnbounded(c.budget, Span(clk))})
  ELSE Span(clk)

\* A named time of one's own, and one the spent budget does not count for.
Own(c, clk) == T!RunNamed(Tag(clk), FALSE, Span(clk), OwnLeft(c, clk))
Whole(clk) == T!RunNamed(Tag(clk), FALSE, Span(clk), Span(clk))

\* One case for each kind of minute.
Decided(v, c, l, clk) ==
  /\ setup.sched = "unreadable" => v = T!Core(None)
  /\ setup.sched = "paused" \/ Tag(clk) = "closed" =>
       v = T!FallThrough(c, l, {"schedule", "budget"})
  /\ Tag(clk) = "unknown" => v = T!LockedOut
  /\ setup.sched \in {"none", "set"} /\ Tag(clk) = "free" =>
       /\ c.locked => v = T!FallThrough(c, l, {"budget"})
       /\ ~c.locked => v = T!Core(IF setup.sched = "none" THEN None ELSE Span(clk))
  /\ Tag(clk) \in NamedTimes =>
       /\ ~c.locked => v = Own(c, clk)
       /\ c.locked /\ c.why = "budget" /\ Tag(clk) \notin Counts => v = Whole(clk)
       /\ c.locked /\ c.why = "budget" /\ Tag(clk) \in Counts =>
            v = T!FallThrough(c, l, {"budget"})
       /\ c.locked /\ c.why # "budget" => v = T!Core(None)

\* The verdict is by the kind of minute it is (decide).
LEMMA DecideSays ==
    ASSUME setup \in TimeScenes, NEW l, NEW c, c.locked \in BOOLEAN, NEW clk,
           NEW v, v = T!Decide(c, l, clk)
    PROVE  Decided(v, c, l, clk)
<1> DEFINE label == Tag(clk)
           span == Span(clk)
           own == Own(c, clk)
           whole == Whole(clk)
<1>0. /\ setup.sched \in {"none", "paused", "unreadable", "set"}
      /\ "closed" \notin NamedTimes /\ "free" \notin NamedTimes /\ "unknown" \notin NamedTimes
  BY ScenesAssumption, NamesAssumption
<1>1. setup.sched # "set" => label = "free"
  BY DEF Tag
<1>2. v = CASE setup.sched = "unreadable" -> T!Core(None)
            [] label = "closed" \/ setup.sched = "paused" ->
                 T!FallThrough(c, l, {"schedule", "budget"})
            [] setup.sched \in {"none", "set"} /\ label = "unknown" -> T!LockedOut
            [] setup.sched \in {"none", "set"} /\ label = "free" ->
                 IF c.locked THEN T!FallThrough(c, l, {"budget"})
                 ELSE T!Core(IF setup.sched = "none" THEN None ELSE span)
            [] label \in NamedTimes ->
                 IF ~c.locked THEN own
                 ELSE IF c.why = "budget" /\ label \notin Counts THEN whole
                 ELSE IF c.why = "budget" THEN T!FallThrough(c, l, {"budget"})
                 ELSE T!Core(None)
            [] OTHER -> T!Core(None)
  BY DEF T!Decide, Tag, Span, OwnLeft, Own, Whole
<1> HIDE DEF label, own, whole, span
<1> USE DEF Decided
<1>3. CASE setup.sched = "unreadable"
  <2>1. v = T!Core(None)
    BY <1>0, <1>1, <1>2, <1>3
  <2> QED
    BY <1>0, <1>1, <1>3, <2>1 DEF label
<1>4. CASE setup.sched # "unreadable" /\ (label = "closed" \/ setup.sched = "paused")
  <2>1. v = T!FallThrough(c, l, {"schedule", "budget"})
    BY <1>0, <1>1, <1>2, <1>4
  <2> QED
    BY <1>0, <1>1, <1>4, <2>1 DEF label
<1>5. CASE setup.sched \notin {"unreadable", "paused"} /\ label = "unknown"
  <2>1. v = T!LockedOut
    BY <1>0, <1>2, <1>5
  <2> QED
    BY <1>0, <1>1, <1>5, <2>1 DEF label
<1>6. CASE setup.sched \notin {"unreadable", "paused"} /\ label = "free"
  <2>1. v = IF c.locked THEN T!FallThrough(c, l, {"budget"})
            ELSE T!Core(IF setup.sched = "none" THEN None ELSE span)
    BY <1>0, <1>2, <1>6
  <2> QED
    BY <1>0, <1>1, <1>6, <2>1 DEF label, span
<1>7. CASE setup.sched \notin {"unreadable", "paused"} /\ label \in NamedTimes
  <2>0. label # "closed" /\ label # "free" /\ label # "unknown"
    BY <1>0, <1>7
  <2>1. v = IF ~c.locked THEN own
            ELSE IF c.why = "budget" /\ label \notin Counts THEN whole
            ELSE IF c.why = "budget" THEN T!FallThrough(c, l, {"budget"})
            ELSE T!Core(None)
    BY <1>2, <1>7, <2>0
  <2> QED
    BY <1>0, <1>7, <2>0, <2>1 DEF label, span, own, whole
<1>8. CASE setup.sched \notin {"unreadable", "paused"}
             /\ label \notin NamedTimes \cup {"closed", "free", "unknown"}
  BY <1>0, <1>8 DEF label
<1> QED
  BY <1>0, <1>3, <1>4, <1>5, <1>6, <1>7, <1>8

\* Nothing more runs after the label that is on (resolve).
Ends(clk) ==
  \/ T!Minute(clk) + Span(clk) = DayLen
  \/ T!Label(clk + Span(clk)) = "closed"

\* The known labels.
LEMMA TagIs ==
    ASSUME setup \in TimeScenes, NEW clk \in Nat
    PROVE  /\ Tag(clk) \in NamedTimes \cup {"closed", "free", "unknown"}
           /\ setup.sched # "set" => Tag(clk) = "free"
           /\ setup.sched \in {"none", "paused", "unreadable", "set"}
           /\ setup.inventory \in BOOLEAN
           /\ {"closed", "free", "unknown"} \cap NamedTimes = {}
<1>1. setup.label \in [0 .. DayLen - 1 -> NamedTimes \cup {"closed", "free", "unknown"}]
      /\ setup.sched \in {"none", "paused", "unreadable", "set"}
      /\ setup.inventory \in BOOLEAN
  BY ScenesAssumption
<1>2. T!Minute(clk) \in 0 .. DayLen - 1
  BY DaysAre DEF T!Minute
<1>3. T!Label(clk) \in NamedTimes \cup {"closed", "free", "unknown"}
  BY <1>1, <1>2 DEF T!Label
<1> QED
  BY <1>1, <1>3, NamesAssumption DEF Tag

\* What resolve leaves of a verdict.
LEMMA ResolveSays ==
    ASSUME NEW c, NEW l, NEW clk, NEW d, d = T!Decide(c, l, clk),
           NEW v, v = T!Resolved(c, l, clk)
    PROVE  /\ d.is # "core" \/ d.span = None => v = d
           /\ d.is = "core" /\ d.span = Span(clk) /\ d.span # None =>
                v = IF Ends(clk) THEN T!Core(None) ELSE d
<1>1. v = IF d.is = "core" /\ d.span # None
            THEN IF T!Minute(clk) + d.span = DayLen \/ T!Label(clk + d.span) = "closed"
                   THEN T!Core(None) ELSE d
          ELSE d
  BY DEF T!Resolved
<1> QED
  BY <1>1 DEF Ends

\* What a pool says is resolved.
LEMMA FallsResolved ==
    ASSUME NEW l, NEW c, NEW whys, NEW d, d = T!FallThrough(c, l, whys)
    PROVE  d.is # "core" \/ d.span = None
<1> DEFINE n == l.pools[T!RecentPool(l)].left
           i == T!RecentPool(l)
           t == TRUE
           r == PoolRun(l)
<1>1. r = T!RunNamed(i, t, n, n)
  BY DEF PoolRun
<1>2. d = T!Core(None) \/ d = r
  BY FallThroughSays
<1>3. r.is # "core"
  <2> HIDE DEF n, i, t
  <2> QED
    BY <1>1, RunNamedIs
<1> HIDE DEF r
<1> QED
  BY <1>2, <1>3, CoreSays

\* And what resolve leaves of it.
Said(v, c, l, clk) ==
  /\ setup.sched = "unreadable" => v = T!Core(None)
  /\ setup.sched = "paused" \/ Tag(clk) = "closed" =>
       v = T!FallThrough(c, l, {"schedule", "budget"})
  /\ Tag(clk) = "unknown" => v = T!LockedOut
  /\ setup.sched \in {"none", "set"} /\ Tag(clk) = "free" =>
       /\ c.locked => v = T!FallThrough(c, l, {"budget"})
       /\ ~c.locked /\ setup.sched = "none" => v = T!Core(None)
       /\ ~c.locked /\ setup.sched = "set" =>
            v = T!Core(IF Ends(clk) THEN None ELSE Span(clk))
  /\ Tag(clk) \in NamedTimes =>
       /\ ~c.locked => v = Own(c, clk)
       /\ c.locked /\ c.why = "budget" /\ Tag(clk) \notin Counts => v = Whole(clk)
       /\ c.locked /\ c.why = "budget" /\ Tag(clk) \in Counts =>
            v = T!FallThrough(c, l, {"budget"})
       /\ c.locked /\ c.why # "budget" => v = T!Core(None)

\* The verdict of an iteration (decide, resolve).
LEMMA VerdictSays ==
    ASSUME setup \in TimeScenes, NEW l, NEW c, c.locked \in BOOLEAN, NEW clk \in Nat,
           NEW v, v = T!Resolved(c, l, clk)
    PROVE  Said(v, c, l, clk)
<1> DEFINE d == T!Decide(c, l, clk)
           w == T!Resolved(c, l, clk)
           own == Own(c, clk)
           whole == Whole(clk)
<1>1. /\ setup.sched = "unreadable" => d = T!Core(None)
      /\ setup.sched = "paused" \/ Tag(clk) = "closed" =>
           d = T!FallThrough(c, l, {"schedule", "budget"})
      /\ Tag(clk) = "unknown" => d = T!LockedOut
      /\ setup.sched \in {"none", "set"} /\ Tag(clk) = "free" =>
           /\ c.locked => d = T!FallThrough(c, l, {"budget"})
           /\ ~c.locked => d = T!Core(IF setup.sched = "none" THEN None ELSE Span(clk))
      /\ Tag(clk) \in NamedTimes =>
           /\ ~c.locked => d = own
           /\ c.locked /\ c.why = "budget" /\ Tag(clk) \notin Counts => d = whole
           /\ c.locked /\ c.why = "budget" /\ Tag(clk) \in Counts =>
                d = T!FallThrough(c, l, {"budget"})
           /\ c.locked /\ c.why # "budget" => d = T!Core(None)
  <2> HIDE DEF d, w
  <2>1. d = T!Decide(c, l, clk)
    BY DEF d
  <2>2. Decided(d, c, l, clk)
    BY <2>1, DecideSays
  <2> QED
    BY <2>2 DEF Decided
<1>2. /\ d.is # "core" \/ d.span = None => v = d
      /\ d.is = "core" /\ d.span = Span(clk) /\ d.span # None =>
           v = IF Ends(clk) THEN T!Core(None) ELSE d
  <2> HIDE DEF d, w
  <2>1. d = T!Decide(c, l, clk) /\ v = T!Resolved(c, l, clk)
    BY DEF d
  <2> QED
    BY <2>1, ResolveSays
<1>3. own.is # "core" /\ whole.is # "core"
  <2> DEFINE no == FALSE
  <2>1. /\ own = T!RunNamed(Tag(clk), no, Span(clk), OwnLeft(c, clk))
        /\ whole = T!RunNamed(Tag(clk), no, Span(clk), Span(clk))
    BY DEF Own, Whole
  <2> HIDE DEF no
  <2> QED
    BY <2>1, RunNamedIs
<1>4. T!LockedOut.is # "core"
  BY LockedOutIs
<1>5. \A whys : T!FallThrough(c, l, whys).is # "core" \/ T!FallThrough(c, l, whys).span = None
  BY FallsResolved
<1>6. T!Core(None).span = None /\ T!Core(Span(clk)).is = "core" /\ T!Core(Span(clk)).span = Span(clk)
  BY CoreSays
<1>7. Span(clk) # None
  BY SpanIs, NamesAssumption
<1> HIDE DEF d, w, own, whole
<1>8. /\ d = own => v = own
      /\ d = whole => v = whole
      /\ d = T!LockedOut => v = d
      /\ d = T!Core(None) => v = d
      /\ \A whys : d = T!FallThrough(c, l, whys) => v = d
      /\ d = T!Core(Span(clk)) => v = T!Core(IF Ends(clk) THEN None ELSE Span(clk))
  BY <1>2, <1>3, <1>4, <1>5, <1>6, <1>7
<1>9. Tag(clk) \in NamedTimes =>
        /\ ~c.locked => v = own
        /\ c.locked /\ c.why = "budget" /\ Tag(clk) \notin Counts => v = whole
        /\ c.locked /\ c.why = "budget" /\ Tag(clk) \in Counts =>
             v = T!FallThrough(c, l, {"budget"})
        /\ c.locked /\ c.why # "budget" => v = T!Core(None)
  BY <1>1, <1>8
<1>10. /\ setup.sched = "unreadable" => v = T!Core(None)
       /\ setup.sched = "paused" \/ Tag(clk) = "closed" =>
            v = T!FallThrough(c, l, {"schedule", "budget"})
       /\ Tag(clk) = "unknown" => v = T!LockedOut
  BY <1>1, <1>8
<1>11. setup.sched \in {"none", "set"} /\ Tag(clk) = "free" =>
         /\ c.locked => v = T!FallThrough(c, l, {"budget"})
         /\ ~c.locked /\ setup.sched = "none" => v = T!Core(None)
         /\ ~c.locked /\ setup.sched = "set" =>
              v = T!Core(IF Ends(clk) THEN None ELSE Span(clk))
  BY <1>1, <1>8
<1> QED
  BY <1>9, <1>10, <1>11 DEF own, whole, Said

\* A pool that runs.
LEMMA PoolSays ==
    ASSUME NEW l, NEW c, NEW whys, NEW v, v = T!FallThrough(c, l, whys), v.is # "core"
    PROVE  /\ v.is \in {"named", "locked"}
           /\ v.is = "named" =>
                /\ v.pool /\ ~T!PoolProof /\ c.why \in whys /\ T!Pools(l) # {}
                /\ v.left = l.pools[T!RecentPool(l)].left
<1> DEFINE n == l.pools[T!RecentPool(l)].left
           i == T!RecentPool(l)
           yes == TRUE
           r == PoolRun(l)
<1>1. v # T!Core(None)
  BY CoreSays
<1>2. ~T!PoolProof /\ c.why \in whys /\ T!Pools(l) # {} /\ v = r
  BY <1>1, FallThroughSays
<1>3. v.is = "locked" \/ (v.is = "named" /\ v.pool = yes /\ v.left = n)
  <2>1. v = T!RunNamed(i, yes, n, n)
    BY <1>2 DEF PoolRun
  <2> HIDE DEF n, i, yes
  <2>2. ~Runs(i) => v = T!LockedOut
    BY <2>1, RunNamedSays
  <2>3. Runs(i) => v.is = "named" /\ v.pool = yes /\ v.left = n
    BY <2>1, RunNamedSays
  <2> QED
    BY <2>2, <2>3, LockedOutIs
<1> HIDE DEF n, i, r
<1> QED
  BY <1>2, <1>3 DEF n, i

\* A named time of one's own that runs, or does not.
LEMMA OwnSays ==
    ASSUME NEW c, NEW clk
    PROVE  /\ Runs(Tag(clk)) =>
                /\ Own(c, clk).is = "named" /\ ~Own(c, clk).pool
                /\ Own(c, clk).left = OwnLeft(c, clk)
                /\ Whole(clk).is = "named" /\ ~Whole(clk).pool /\ Whole(clk).left = Span(clk)
           /\ ~Runs(Tag(clk)) => Own(c, clk).is = "locked" /\ Whole(clk).is = "locked"
<1> DEFINE no == FALSE
           i == Tag(clk)
           s == Span(clk)
           n == OwnLeft(c, clk)
           o == Own(c, clk)
           w == Whole(clk)
<1>1. o = T!RunNamed(i, no, s, n) /\ w = T!RunNamed(i, no, s, s)
  BY DEF Own, Whole
<1> HIDE DEF no, i, s, n, o, w
<1>2. /\ ~Runs(i) => o = T!LockedOut /\ w = T!LockedOut
      /\ Runs(i) => /\ o.is = "named" /\ o.pool = no /\ o.left = n
                    /\ w.is = "named" /\ w.pool = no /\ w.left = s
  BY <1>1, RunNamedSays
<1> QED
  BY <1>2, LockedOutIs DEF no, i, s, n, o, w

\* Under the core's verdict a child is in a window without a named time, or outside, and
\* what is announced is the end of a free span that anything but a closed one follows.
LEMMA CoreOpens ==
    ASSUME setup \in TimeScenes, NEW l, NEW c, c.locked \in BOOLEAN, NEW clk \in Nat,
           NEW v, v = T!Resolved(c, l, clk), v.is = "core", ~c.locked,
           setup.sched # "unreadable"
    PROVE  /\ Tag(clk) \in {"closed", "free"}
           /\ v.span = None \/ (setup.sched = "set" /\ v.span = Span(clk))
           /\ setup.sched = "set" /\ Tag(clk) = "free" /\ v.span = None => Ends(clk)
<1>1. Said(v, c, l, clk)
  BY VerdictSays
<1>2. /\ Tag(clk) \in NamedTimes \cup {"closed", "free", "unknown"}
      /\ setup.sched # "set" => Tag(clk) = "free"
      /\ setup.sched \in {"none", "paused", "unreadable", "set"}
  BY TagIs
<1>3. Tag(clk) # "unknown"
  BY <1>1, LockedOutIs DEF Said
<1>4. Tag(clk) \notin NamedTimes
  <2>1. Own(c, clk).is # "core"
    BY OwnSays
  <2> QED
    BY <1>1, <2>1 DEF Said
<1>5. Span(clk) # None
  BY SpanIs, NamesAssumption
<1>6. CASE setup.sched = "paused" \/ Tag(clk) = "closed"
  <2>1. v = T!FallThrough(c, l, {"schedule", "budget"})
    BY <1>1, <1>6 DEF Said
  <2>2. v.span = None
    BY <2>1, FallsResolved
  <2> QED
    BY <1>2, <1>3, <1>4, <1>6, <2>2, NamesAssumption
<1>7. CASE setup.sched # "paused" /\ Tag(clk) # "closed"
  <2>1. Tag(clk) = "free" /\ setup.sched \in {"none", "set"}
    BY <1>2, <1>3, <1>4, <1>7
  <2>2. CASE setup.sched = "none"
    <3>1. v = T!Core(None)
      BY <1>1, <2>1, <2>2 DEF Said
    <3> QED
      BY <2>1, <2>2, <3>1, CoreSays
  <2>3. CASE setup.sched = "set"
    <3>1. v = T!Core(IF Ends(clk) THEN None ELSE Span(clk))
      BY <1>1, <2>1, <2>3 DEF Said
    <3>2. v.span = IF Ends(clk) THEN None ELSE Span(clk)
      BY <3>1, CoreSays
    <3> QED
      BY <1>5, <2>1, <2>3, <3>2
  <2> QED
    BY <2>1, <2>2, <2>3
<1> QED
  BY <1>6, <1>7

\* What a named time of one's own that runs says, and what a pool does.
OwnOpens(v, c, clk) ==
  /\ setup.sched = "set" /\ Tag(clk) \in NamedTimes /\ Runs(Tag(clk))
  /\ c.locked => c.why = "budget" /\ Tag(clk) \notin Counts /\ v.left = Span(clk)
  /\ ~c.locked => v.left = OwnLeft(c, clk)
PoolOpens(v, c, l, clk) ==
  /\ ~T!PoolProof /\ T!Pools(l) # {} /\ v.left = l.pools[T!RecentPool(l)].left
  /\ setup.sched # "unreadable" /\ Tag(clk) # "unknown"
  /\ c.why \in {"schedule", "budget"}

\* A named time that runs is the label's, for the minutes of it, or a pool's.
LEMMA NamedOpens ==
    ASSUME setup \in TimeScenes, NEW l, NEW c, c.locked \in BOOLEAN, NEW clk \in Nat,
           NEW v, v = T!Resolved(c, l, clk), v.is = "named"
    PROVE  (~v.pool => OwnOpens(v, c, clk)) /\ (v.pool => PoolOpens(v, c, l, clk))
<1> USE DEF OwnOpens, PoolOpens
<1>1. Said(v, c, l, clk)
  BY VerdictSays
<1>2. /\ Tag(clk) \in NamedTimes \cup {"closed", "free", "unknown"}
      /\ setup.sched # "set" => Tag(clk) = "free"
      /\ setup.sched \in {"none", "paused", "unreadable", "set"}
      /\ {"closed", "free", "unknown"} \cap NamedTimes = {}
  BY TagIs
<1>3. Tag(clk) # "unknown"
  BY <1>1, LockedOutIs DEF Said
<1>4. \A s : v # T!Core(s)
  BY CoreIs
<1>5. setup.sched # "unreadable"
  BY <1>1, <1>4 DEF Said
<1>6. ASSUME NEW whys \in SUBSET {"schedule", "budget"}, v = T!FallThrough(c, l, whys)
      PROVE  /\ v.pool /\ ~T!PoolProof /\ T!Pools(l) # {}
             /\ v.left = l.pools[T!RecentPool(l)].left /\ c.why \in {"schedule", "budget"}
  BY <1>6, PoolSays
<1>7. {"schedule", "budget"} \in SUBSET {"schedule", "budget"}
      /\ {"budget"} \in SUBSET {"schedule", "budget"}
  OBVIOUS
<1>8. CASE setup.sched = "paused" \/ Tag(clk) = "closed"
  <2>1. v = T!FallThrough(c, l, {"schedule", "budget"})
    BY <1>1, <1>8 DEF Said
  <2> QED
    BY <1>3, <1>5, <1>6, <1>7, <2>1
<1>9. CASE setup.sched # "paused" /\ Tag(clk) = "free"
  <2>1. v = T!FallThrough(c, l, {"budget"})
    BY <1>1, <1>2, <1>4, <1>5, <1>9 DEF Said
  <2> QED
    BY <1>3, <1>5, <1>6, <1>7, <2>1
<1>10. CASE Tag(clk) \in NamedTimes
  <2>0. setup.sched = "set"
    BY <1>2, <1>10
  <2>1. CASE c.locked /\ c.why = "budget" /\ Tag(clk) \in Counts
    <3>1. v = T!FallThrough(c, l, {"budget"})
      BY <1>1, <1>10, <2>1 DEF Said
    <3> QED
      BY <1>3, <1>5, <1>6, <1>7, <3>1
  <2>2. CASE ~c.locked
    <3>1. v = Own(c, clk)
      BY <1>1, <1>10, <2>2 DEF Said
    <3> QED
      BY <1>10, <2>0, <2>2, <3>1, OwnSays
  <2>3. CASE c.locked /\ c.why = "budget" /\ Tag(clk) \notin Counts
    <3>1. v = Whole(clk)
      BY <1>1, <1>10, <2>3 DEF Said
    <3> QED
      BY <1>10, <2>0, <2>3, <3>1, OwnSays
  <2>4. CASE c.locked /\ c.why # "budget"
    BY <1>1, <1>4, <1>10, <2>4 DEF Said
  <2> QED
    BY <2>1, <2>2, <2>3, <2>4
<1> QED
  BY <1>2, <1>3, <1>8, <1>9, <1>10

\* Who is not locked by either layer: a child with time in an open window whose label runs,
\* one whose budget is spent in a named time that does not count, and one with a pool.
StaysOpen(c, l, clk) ==
  /\ setup.sched # "unreadable" /\ Tag(clk) # "unknown"
  /\ Tag(clk) \in NamedTimes => Runs(Tag(clk))
  /\ ~c.locked => c.why = None
  /\ c.locked =>
       \/ c.why = "budget" /\ Tag(clk) \in NamedTimes \ Counts
       \/ /\ ~T!PoolProof /\ T!Pools(l) # {} /\ setup.inventory
          /\ \/ c.why = "budget"
             \/ c.why = "schedule" /\ (setup.sched = "paused" \/ Tag(clk) = "closed")

LEMMA RunsOn ==
    ASSUME setup \in TimeScenes, NEW l, NEW c, c.locked \in BOOLEAN, NEW clk \in Nat,
           NEW v, v = T!Resolved(c, l, clk), StaysOpen(c, l, clk)
    PROVE  ~T!LockedNow(c, v)
<1>0. /\ setup.sched # "unreadable" /\ Tag(clk) # "unknown"
      /\ Tag(clk) \in NamedTimes => Runs(Tag(clk))
      /\ ~c.locked => c.why = None
      /\ c.locked =>
           \/ c.why = "budget" /\ Tag(clk) \in NamedTimes \ Counts
           \/ /\ ~T!PoolProof /\ T!Pools(l) # {} /\ setup.inventory
              /\ \/ c.why = "budget"
                 \/ c.why = "schedule" /\ (setup.sched = "paused" \/ Tag(clk) = "closed")
  BY DEF StaysOpen
<1> USE <1>0
<1>1. Said(v, c, l, clk)
  BY VerdictSays
<1>2. /\ Tag(clk) \in NamedTimes \cup {"closed", "free"}
      /\ setup.sched # "set" => Tag(clk) = "free"
      /\ setup.sched \in {"none", "paused", "set"}
      /\ {"closed", "free", "unknown"} \cap NamedTimes = {}
  BY TagIs
<1>3. T!LockedNow(c, v) <=> (v.is = "core" /\ c.locked) \/ v.is = "locked"
  BY DEF T!LockedNow
<1>4. ASSUME ~c.locked, NEW s, v = T!Core(s) PROVE ~T!LockedNow(c, v)
  <2>1. v.is = "core"
    BY <1>4, CoreIs
  <2> QED
    BY <1>3, <1>4, <2>1
<1>5. ASSUME v.is = "named" PROVE ~T!LockedNow(c, v)
  BY <1>3, <1>5
<1>6. ASSUME c.locked, setup.inventory, ~T!PoolProof, T!Pools(l) # {}, NEW whys, c.why \in whys,
             v = T!FallThrough(c, l, whys)
      PROVE  ~T!LockedNow(c, v)
  <2> DEFINE i == T!RecentPool(l)
             n == l.pools[T!RecentPool(l)].left
             yes == TRUE
  <2>1. v = T!RunNamed(i, yes, n, n)
    BY <1>6 DEF T!FallThrough
  <2> HIDE DEF i, n, yes
  <2>2. v.is = "named"
    BY <1>6, <2>1, RunNamedSays DEF Runs
  <2> QED
    BY <1>5, <2>2
<1>7. CASE setup.sched = "paused" \/ Tag(clk) = "closed"
  <2>1. v = T!FallThrough(c, l, {"schedule", "budget"})
    BY <1>1, <1>7 DEF Said
  <2>2. CASE ~c.locked
    <3>1. c.why \notin {"schedule", "budget"}
      BY <2>2, NamesAssumption
    <3>2. v = T!Core(None)
      BY <2>1, <3>1, FallThroughSays
    <3> QED
      BY <1>4, <2>2, <3>2
  <2>3. CASE c.locked
    <3>1. /\ ~T!PoolProof /\ T!Pools(l) # {} /\ setup.inventory
          /\ c.why \in {"schedule", "budget"}
      BY <1>2, <1>7, <2>3
    <3> QED
      BY <1>6, <2>1, <2>3, <3>1
  <2> QED
    BY <2>2, <2>3
<1>8. CASE setup.sched \in {"none", "set"} /\ Tag(clk) = "free"
  <2>1. CASE ~c.locked
    <3>1. \E s : v = T!Core(s)
      BY <1>1, <1>8, <2>1 DEF Said
    <3> QED
      BY <1>4, <2>1, <3>1
  <2>2. CASE c.locked
    <3>1. v = T!FallThrough(c, l, {"budget"})
      BY <1>1, <1>8, <2>2 DEF Said
    <3>2. /\ ~T!PoolProof /\ T!Pools(l) # {} /\ setup.inventory /\ c.why \in {"budget"}
      BY <1>2, <1>8, <2>2
    <3> QED
      BY <1>6, <2>2, <3>1, <3>2
  <2> QED
    BY <2>1, <2>2
<1>9. CASE setup.sched = "set" /\ Tag(clk) \in NamedTimes
  <2>1. Own(c, clk).is = "named" /\ Whole(clk).is = "named"
    BY <1>9, OwnSays
  <2>2. CASE ~c.locked
    <3>1. v = Own(c, clk)
      BY <1>1, <1>9, <2>2 DEF Said
    <3> QED
      BY <1>5, <2>1, <3>1
  <2>3. CASE c.locked /\ Tag(clk) \notin Counts
    <3>1. c.why = "budget"
      BY <1>2, <1>9, <2>3
    <3>2. v = Whole(clk)
      BY <1>1, <1>9, <2>3, <3>1 DEF Said
    <3> QED
      BY <1>5, <2>1, <3>2
  <2>4. CASE c.locked /\ Tag(clk) \in Counts
    <3>1. /\ ~T!PoolProof /\ T!Pools(l) # {} /\ setup.inventory /\ c.why \in {"budget"}
      BY <1>2, <1>9, <2>4
    <3>2. v = T!FallThrough(c, l, {"budget"})
      BY <1>1, <1>9, <2>4, <3>1 DEF Said
    <3> QED
      BY <1>6, <2>4, <3>1, <3>2
  <2> QED
    BY <2>2, <2>3, <2>4
<1> QED
  BY <1>2, <1>7, <1>8, <1>9

\* More than a minute, or no limit.
Lasting == Limits \ {0, 1}

\* Of two limits that last none is a minute, and a number limits.
LEMMA LastingIs ==
    ASSUME NEW a \in Limits, NEW b \in Limits
    PROVE  /\ T!MinUnbounded(a, b) \in Lasting => a \in Lasting /\ b \in Lasting
           /\ a \in Nat \/ b \in Nat => T!MinUnbounded(a, b) \in Nat
BY OfTwo DEF T!MinUnbounded, Limits, Lasting

\* What is left is the least of what the schedule, the budget and a stand-down leave, and a
\* lock has the first of them for its reason that left nothing (compute_remaining).
LEMMA LeftIs ==
    ASSUME NEW schedule \in Limits, NEW budget \in Limits, NEW down \in Countdowns,
           NEW c, c = T!Breakdown(schedule, budget, down)
    PROVE  /\ c.left \in Limits /\ c.locked \in BOOLEAN /\ (c.locked <=> c.left = 0)
           /\ c.schedule = schedule /\ c.budget = budget
           /\ schedule \in Nat => c.left \in Nat
           /\ c.left \in Lasting => schedule \in Lasting /\ budget \in Lasting /\ down \notin {0, 1}
           /\ ~c.locked => schedule # 0 /\ budget # 0 /\ down # 0 /\ c.why = None
           /\ schedule # 0 /\ budget # 0 /\ down # 0 => ~c.locked
           /\ c.locked /\ setup.sched # "unreadable" =>
                c.why = IF down = 0 THEN "standdown"
                        ELSE IF schedule = 0 THEN "schedule" ELSE "budget"
<1> DEFINE charter == T!MinUnbounded(schedule, budget)
           left == IF down = None THEN charter ELSE T!MinUnbounded(charter, down)
           why == IF left # 0 THEN None
                  ELSE IF setup.sched = "unreadable" THEN "malformed"
                  ELSE IF down = 0 THEN "standdown"
                  ELSE IF schedule = 0 THEN "schedule"
                  ELSE "budget"
           nil == left = 0
<1>1. None \notin Int
  BY NamesAssumption
<1>2. /\ charter \in Limits /\ (charter = 0 <=> schedule = 0 \/ budget = 0)
      /\ charter \in Lasting => schedule \in Lasting /\ budget \in Lasting
      /\ schedule \in Nat => charter \in Nat
  BY MinUnboundedIs, LastingIs
<1>3. /\ left \in Limits /\ (left = 0 <=> charter = 0 \/ down = 0)
      /\ left \in Lasting => charter \in Lasting /\ down \notin {0, 1}
      /\ charter \in Nat => left \in Nat
  <2> HIDE DEF charter
  <2>1. CASE down = None
    BY <1>1, <1>2, <2>1
  <2>2. CASE down # None
    <3>1. down \in Limits
      BY <2>2 DEF Countdowns, Limits
    <3>2. /\ T!MinUnbounded(charter, down) \in Limits
          /\ T!MinUnbounded(charter, down) = 0 <=> charter = 0 \/ down = 0
          /\ T!MinUnbounded(charter, down) \in Lasting => charter \in Lasting /\ down \in Lasting
          /\ charter \in Nat => T!MinUnbounded(charter, down) \in Nat
      BY <1>2, <3>1, MinUnboundedIs, LastingIs
    <3> QED
      BY <2>2, <3>2 DEF Lasting
  <2> QED
    BY <2>1, <2>2
<1>4. c = [schedule |-> schedule, budget |-> budget, left |-> left, locked |-> nil, why |-> why]
  BY DEF T!Breakdown
<1>5. /\ c.schedule = schedule /\ c.budget = budget /\ c.left = left /\ c.locked = nil
      /\ c.why = why
  <2>1. nil \in BOOLEAN
    OBVIOUS
  <2> HIDE DEF left, nil, why
  <2> QED
    BY <1>4, <2>1
<1> HIDE DEF left, charter
<1>6. nil \in BOOLEAN /\ (nil <=> left = 0)
  OBVIOUS
<1>7. /\ ~nil => why = None
      /\ nil /\ setup.sched # "unreadable" =>
           why = IF down = 0 THEN "standdown" ELSE IF schedule = 0 THEN "schedule" ELSE "budget"
  OBVIOUS
<1> HIDE DEF nil, why
<1>8. c.locked \in BOOLEAN /\ (c.locked <=> left = 0)
  BY <1>5, <1>6
<1>9. /\ ~c.locked => c.why = None
      /\ c.locked /\ setup.sched # "unreadable" =>
           c.why = IF down = 0 THEN "standdown" ELSE IF schedule = 0 THEN "schedule" ELSE "budget"
  BY <1>5, <1>7
<1> QED
  BY <1>2, <1>3, <1>5, <1>8, <1>9

\* What a child has left: the verdict's minutes, and of a stand-down's grace no more than
\* it has (adjusted_remaining).
LEMMA ShownLeftIs ==
    ASSUME NEW c, c.left \in Limits, NEW v, NEW down \in Countdowns
    PROVE  /\ v.is = "core" /\ (c.locked \/ v.span = None) => T!Left(c, v, down) = c.left
           /\ v.is = "core" /\ ~c.locked /\ v.span # None /\ v.span \in Nat =>
                /\ T!Left(c, v, down) \in Limits
                /\ T!Left(c, v, down) = 0 <=> c.left = 0 \/ v.span = 0
                /\ c.left \in Nat => T!Left(c, v, down) \in Nat
                /\ T!Left(c, v, down) \in Lasting => c.left \in Lasting /\ v.span \in Lasting
           /\ v.is = "named" /\ v.left \in Nat =>
                /\ T!Left(c, v, down) \in Nat
                /\ v.left # 0 /\ down # 0 => T!Left(c, v, down) # 0
                /\ T!Left(c, v, down) \in Lasting => v.left \in Lasting /\ down \notin {0, 1}
<1> DEFINE x == T!Left(c, v, down)
<1>1. None \notin Int
  BY NamesAssumption
<1>2. CASE v.is = "core"
  <2>1. x = IF c.locked \/ v.span = None THEN c.left ELSE T!MinUnbounded(c.left, v.span)
    BY <1>2 DEF T!Left
  <2>2. ASSUME v.span \in Nat
        PROVE  /\ T!MinUnbounded(c.left, v.span) \in Limits
               /\ T!MinUnbounded(c.left, v.span) = 0 <=> c.left = 0 \/ v.span = 0
               /\ c.left \in Nat => T!MinUnbounded(c.left, v.span) \in Nat
               /\ T!MinUnbounded(c.left, v.span) \in Lasting =>
                    c.left \in Lasting /\ v.span \in Lasting
    <3>1. v.span \in Limits
      BY <2>2 DEF Limits
    <3> QED
      BY <2>2, <3>1, MinUnboundedIs, LastingIs
  <2> HIDE DEF x
  <2> QED
    BY <1>2, <2>1, <2>2 DEF x
<1>3. CASE v.is = "named"
  <2>1. x = IF down = None THEN v.left ELSE T!Min({v.left, down})
    BY <1>3 DEF T!Left
  <2> HIDE DEF x
  <2>2. ASSUME v.left \in Nat
        PROVE  /\ x \in Nat
               /\ v.left # 0 /\ down # 0 => x # 0
               /\ x \in Lasting => v.left \in Lasting /\ down \notin {0, 1}
    <3>1. CASE down = None
      BY <1>1, <2>1, <2>2, <3>1
    <3>2. CASE down # None
      <4>1. down \in Nat /\ v.left \in Int
        BY <2>2, <3>2 DEF Countdowns
      <4>2. x = IF v.left <= down THEN v.left ELSE down
        BY <2>1, <3>2, <4>1, OfTwo
      <4> QED
        BY <2>2, <4>1, <4>2 DEF Lasting, Limits
    <3> QED
      BY <3>1, <3>2
  <2> QED
    BY <1>3, <2>2 DEF x
<1> QED
  BY <1>2, <1>3

\* The minutes of the window that is open, if one is.
Base(clk) == IF T!ScheduleClosed(clk) THEN 0 ELSE Closing(clk)

\* The window's minutes, with the hours given and cut.
LEMMA WindowsAre ==
    ASSUME setup \in TimeScenes, NEW l \in Ledgers, NEW clk \in Nat,
           NEW w, w = T!ScheduleLeft(T!ScheduleBase(clk), l, clk)
    PROVE  /\ Base(clk) \in Nat
           /\ setup.sched = "none" => w = -1
           /\ setup.sched = "unreadable" => w = 0
           /\ setup.sched \in {"paused", "set"} =>
                /\ w \in Nat /\ w <= DayLen - T!Minute(clk)
                /\ w <= Base(clk) + l.hours - l.cut \/ w = 0
                /\ Base(clk) + l.hours > l.cut => w # 0
           /\ T!ScheduleClosed(clk) <=> setup.sched = "paused" \/ Tag(clk) = "closed"
<1> DEFINE base == T!ScheduleBase(clk)
           m == T!Minute(clk)
           b == Base(clk)
           more == T!AtLeastZero(base + l.hours - l.cut)
<1>1. m \in 0 .. DayLen - 1
  BY DaysAre DEF T!Minute
<1>2. setup.sched \in {"none", "paused", "unreadable", "set"}
  BY ScenesAssumption
<1>3. b \in Nat
  BY ClosingIs DEF Base
<1>4. base = IF setup.sched = "none" THEN -1
             ELSE IF setup.sched \in {"paused", "unreadable"} THEN 0
             ELSE b
  <2>1. CASE setup.sched = "none"
    BY <2>1 DEF T!ScheduleBase, T!Unlimited
  <2>2. CASE setup.sched \in {"paused", "unreadable"}
    BY <2>2 DEF T!ScheduleBase
  <2>3. CASE setup.sched = "set"
    BY <2>3 DEF T!ScheduleBase, T!ScheduleClosed, Base, Closing
  <2> QED
    BY <1>2, <2>1, <2>2, <2>3
<1>5. setup.sched = "paused" => b = 0
  BY DEF Base, T!ScheduleClosed
<1>6. l.hours \in Nat /\ l.cut \in Nat
  BY DEF Ledgers
<1>7. w = IF setup.sched = "unreadable" \/ base < 0 THEN base ELSE T!Min({DayLen - m, more})
  BY DEF T!ScheduleLeft
<1>8. T!ScheduleClosed(clk) <=> setup.sched = "paused" \/ Tag(clk) = "closed"
  BY <1>2 DEF T!ScheduleClosed, Tag
<1>9. setup.sched \in {"paused", "set"} => base = b
  BY <1>4, <1>5
<1> HIDE DEF base, b
<1>10. setup.sched \in {"paused", "set"} =>
         more = IF b + l.hours - l.cut < 0 THEN 0 ELSE b + l.hours - l.cut
  BY <1>3, <1>6, <1>9 DEF T!AtLeastZero
<1> HIDE DEF more, m
<1>11. CASE setup.sched \in {"paused", "set"}
  <2>1. w = T!Min({DayLen - m, more}) /\ more \in Nat
    BY <1>3, <1>6, <1>7, <1>9, <1>10, <1>11
  <2>2. w = IF DayLen - m <= more THEN DayLen - m ELSE more
    <3> DEFINE d == DayLen - m
    <3>1. d \in Int /\ more \in Int /\ w = T!Min({d, more})
      BY <1>1, <2>1, DayLenAssumption
    <3> HIDE DEF d
    <3>2. w = IF d <= more THEN d ELSE more
      BY <3>1, OfTwo
    <3> QED
      BY <3>2 DEF d
  <2> DEFINE h == l.hours
             k == l.cut
             d == DayLen - m
  <2>3. more = IF b + h - k < 0 THEN 0 ELSE b + h - k
    BY <1>10, <1>11
  <2>4. h \in Nat /\ k \in Nat /\ d \in Nat \ {0} /\ w = (IF d <= more THEN d ELSE more)
    BY <1>1, <1>6, <2>2, DayLenAssumption
  <2> HIDE DEF h, k, d
  <2>5. w \in Nat /\ w <= d /\ (w <= b + h - k \/ w = 0) /\ (b + h > k => w # 0)
    BY <1>3, <2>3, <2>4
  <2> QED
    BY <1>3, <1>8, <1>11, <2>5 DEF b, m, h, k, d
<1>12. CASE setup.sched \in {"none", "unreadable"}
  <2>1. /\ setup.sched = "none" => w = -1
        /\ setup.sched = "unreadable" => w = 0
    BY <1>4, <1>7, <1>12
  <2> QED
    BY <1>3, <1>8, <1>12, <2>1 DEF b
<1> QED
  BY <1>2, <1>11, <1>12

\* A window that is open a minute on closes a minute sooner at most, and one that is not
\* closed now closes then.
LEMMA ClosesSooner ==
    ASSUME setup \in TimeScenes, NEW clk \in Nat, ~T!NewDay(clk, clk + 1),
           setup.sched \in {"paused", "set"}
    PROVE  /\ ~T!ScheduleClosed(clk) /\ ~T!ScheduleClosed(clk + 1) =>
                Base(clk + 1) >= Base(clk) - 1
           /\ ~T!ScheduleClosed(clk) /\ T!ScheduleClosed(clk + 1) => Base(clk) = 1
<1> DEFINE m == T!Minute(clk)
           n == T!Minute(clk + 1)
           a == Closing(clk)
           b == Closing(clk + 1)
<1>1. n = m + 1 /\ m \in 0 .. DayLen - 1 /\ m + 1 < DayLen
  <2>0. 1 \in Nat
    OBVIOUS
  <2>1. m \in 0 .. DayLen - 1 /\ m + 1 < DayLen
    BY <2>0, MinutesPass
  <2>2. m + 1 < DayLen => n = m + 1
    BY <2>0, MinutesPass
  <2> QED
    BY <2>1, <2>2
<1>2. /\ a \in Nat \ {0} /\ m + a <= DayLen
      /\ \A i \in m + 1 .. m + a - 1 : setup.label[i] # "closed"
  BY ClosingIs
<1>3. /\ b \in Nat \ {0} /\ n + b <= DayLen
      /\ n + b < DayLen => setup.label[n + b] = "closed"
  <2>1. clk + 1 \in Nat
    OBVIOUS
  <2> DEFINE t == clk + 1
  <2>2. /\ Closing(t) \in Nat \ {0} /\ T!Minute(t) + Closing(t) <= DayLen
        /\ T!Minute(t) + Closing(t) < DayLen => setup.label[T!Minute(t) + Closing(t)] = "closed"
    <3> HIDE DEF t
    <3>1. t \in Nat
      BY <2>1 DEF t
    <3> QED
      BY <3>1, ClosingIs
  <2> QED
    BY <2>2
<1>4. setup.sched = "paused" => T!ScheduleClosed(clk)
  BY DEF T!ScheduleClosed
<1>5. setup.sched = "set" => (T!ScheduleClosed(clk + 1) <=> setup.label[n] = "closed")
  BY DEF T!ScheduleClosed, T!Label
<1>6. /\ ~T!ScheduleClosed(clk) => Base(clk) = a
      /\ ~T!ScheduleClosed(clk + 1) => Base(clk + 1) = b
  BY DEF Base
<1> HIDE DEF m, n, a, b
<1>7. b >= a - 1
  <2>1. CASE n + b = DayLen
    BY <1>1, <1>2, <1>3, <2>1, DayLenAssumption
  <2>2. CASE n + b < DayLen
    <3>1. n + b \notin m + 1 .. m + a - 1
      BY <1>2, <1>3, <2>2
    <3> QED
      BY <1>1, <1>2, <1>3, <3>1, DayLenAssumption
  <2> QED
    BY <1>1, <1>3, <2>1, <2>2, DayLenAssumption
<1>8. setup.label[n] = "closed" => a = 1
  <2> SUFFICES ASSUME setup.label[n] = "closed" PROVE a = 1
    OBVIOUS
  <2>1. n \notin m + 1 .. m + a - 1
    BY <1>2
  <2> QED
    BY <1>1, <1>2, <2>1, DayLenAssumption
<1> QED
  BY <1>4, <1>5, <1>6, <1>7, <1>8

\* What the windows, the budget and a stand-down leave at the minute it is.
Windows == T!ScheduleLeft(T!ScheduleBase(T!Clock), ledger, T!Clock)
Allowance == T!BudgetLeft(meter, view, ledger, T!Clock)
Warning == T!Countdown(T!Clock)

\* What a day's ledger becomes.
LEMMA BurntKeeps ==
    ASSUME TimeTypes
    PROVE  /\ Rolled = IF T!NewDay(T!Clock, After) THEN T!NewLedger ELSE ledger
           /\ Burnt.cut = Rolled.cut /\ Burnt.base = Rolled.base
<1>1. Rolled = IF T!NewDay(T!Clock, After) THEN T!NewLedger ELSE ledger
  BY DEF Rolled, T!RolledLedger
<1>2. Rolled \in Ledgers
  BY BurntIs
<1>3. Burnt = IF T!ScheduleClosed(After)
                THEN [Rolled EXCEPT !.hours = T!AtLeastZero(Rolled.hours - 1)]
              ELSE Rolled
  BY DEF Burnt
<1> QED
  BY <1>1, <1>2, <1>3 DEF Ledgers

\* A window with more than a minute left has some left a minute on, unless hours were given
\* and it opens or closes in between: one of them is burnt outside.
LEMMA WindowsLast ==
    ASSUME TimeTypes, Windows \in Lasting,
           ledger.hours > 0 => (T!ScheduleClosed(T!Clock) <=> T!ScheduleClosed(After)),
           NEW w, w = T!ScheduleLeft(T!ScheduleBase(After), Burnt, After)
    PROVE  w # 0 /\ setup.sched # "unreadable"
           /\ (setup.sched # "none" => ~T!NewDay(T!Clock, After))
<1> DEFINE c == T!Clock
<1>1. c \in Nat /\ After \in Nat /\ After = c + 1 /\ setup \in TimeScenes
      /\ ledger \in Ledgers /\ Burnt \in Ledgers
  BY ClockIs, BurntIs DEF TimeTypes
<1>2. setup.sched \in {"none", "paused", "unreadable", "set"}
  BY <1>1, ScenesAssumption
<1>3. /\ Base(c) \in Nat
      /\ setup.sched = "unreadable" => Windows = 0
      /\ setup.sched \in {"paused", "set"} =>
           /\ Windows \in Nat /\ Windows <= DayLen - T!Minute(c)
           /\ Windows <= Base(c) + ledger.hours - ledger.cut \/ Windows = 0
  <2> DEFINE x == Windows
  <2>1. x = T!ScheduleLeft(T!ScheduleBase(c), ledger, c)
    BY DEF Windows
  <2> HIDE DEF x, c
  <2> QED
    BY <1>1, <2>1, WindowsAre DEF x
<1>4. /\ Base(After) \in Nat
      /\ setup.sched = "none" => w = -1
      /\ setup.sched \in {"paused", "set"} => (Base(After) + Burnt.hours > Burnt.cut => w # 0)
  BY <1>1, WindowsAre
<1>5. Windows # 0 /\ Windows # 1
  BY DEF Lasting
<1>6. CASE setup.sched \in {"paused", "set"}
  <2>0. T!Minute(c) \in 0 .. DayLen - 1 /\ (T!Minute(c) + 1 < DayLen => ~T!NewDay(c, c + 1))
    <3>1. 1 \in Nat
      OBVIOUS
    <3> HIDE DEF c
    <3> QED
      BY <1>1, <3>1, MinutesPass
  <2>1. ~T!NewDay(c, After)
    <3> HIDE DEF c
    <3>1. T!Minute(c) + 1 < DayLen
      BY <1>3, <1>5, <1>6, <2>0, DayLenAssumption
    <3> QED
      BY <1>1, <2>0, <3>1
  <2>2. /\ Burnt.cut = ledger.cut
        /\ T!ScheduleClosed(After) /\ ledger.hours > 0 => Burnt.hours = ledger.hours - 1
        /\ ~T!ScheduleClosed(After) => Burnt.hours = ledger.hours
    BY <2>1, BurntIs, BurntKeeps
  <2>3. /\ T!ScheduleClosed(c) => Base(c) = 0
        /\ T!ScheduleClosed(After) => Base(After) = 0
        /\ ~T!ScheduleClosed(c) /\ ~T!ScheduleClosed(After) => Base(After) >= Base(c) - 1
        /\ ~T!ScheduleClosed(c) /\ T!ScheduleClosed(After) => Base(c) = 1
    <3>1. /\ ~T!ScheduleClosed(c) /\ ~T!ScheduleClosed(c + 1) => Base(c + 1) >= Base(c) - 1
          /\ ~T!ScheduleClosed(c) /\ T!ScheduleClosed(c + 1) => Base(c) = 1
      <4>1. ~T!NewDay(c, c + 1)
        BY <1>1, <2>1
      <4> HIDE DEF c
      <4> QED
        BY <1>1, <1>6, <4>1, ClosesSooner
    <3> QED
      BY <1>1, <3>1 DEF Base
  <2> DEFINE h == ledger.hours
             k == ledger.cut
             g == Burnt.hours
             x == Windows
             was == T!ScheduleClosed(c)
             is == T!ScheduleClosed(After)
  <2>4. h \in Nat /\ k \in Nat /\ g \in Nat /\ x \in Nat
    BY <1>1, <1>3, <1>6 DEF Ledgers
  <2>5. x <= Base(c) + h - k /\ x >= 2
    <3> HIDE DEF x
    <3>1. x <= Base(c) + h - k /\ x # 0 /\ x # 1
      BY <1>3, <1>5, <1>6 DEF x
    <3> QED
      BY <2>4, <3>1
  <2>6. /\ h > 0 => (was <=> is)
        /\ is /\ h > 0 => g = h - 1
        /\ ~is => g = h
    BY <2>2
  <2>7. /\ was => Base(c) = 0
        /\ is => Base(After) = 0
        /\ ~was /\ ~is => Base(After) >= Base(c) - 1
        /\ ~was /\ is => Base(c) = 1
    BY <2>3
  <2>8. Base(c) \in Nat /\ Base(After) \in Nat
    BY <1>3, <1>4
  <2> HIDE DEF h, k, g, x, was, is
  <2>9. Base(After) + g > k
    BY <2>4, <2>5, <2>6, <2>7, <2>8
  <2>10. Base(After) + Burnt.hours > Burnt.cut
    BY <2>2, <2>9 DEF g, k
  <2> QED
    BY <1>4, <1>6, <2>1, <2>10
<1>7. CASE setup.sched = "none"
  BY <1>4, <1>7
<1> QED
  BY <1>2, <1>3, <1>5, <1>6, <1>7

\* A window that is open has some minutes left when none of them were taken back.
LEMMA WindowsOpen ==
    ASSUME TimeTypes, ledger.cut = 0, setup.sched \in {"none", "set"}, Tag(After) # "closed",
           NEW w, w = T!ScheduleLeft(T!ScheduleBase(After), Burnt, After)
    PROVE  w # 0
<1>1. After \in Nat /\ setup \in TimeScenes /\ Burnt \in Ledgers /\ Burnt.cut = Rolled.cut
      /\ Rolled = IF T!NewDay(T!Clock, After) THEN T!NewLedger ELSE ledger
  BY ClockIs, BurntIs, BurntKeeps DEF TimeTypes
<1>2. Burnt.cut = 0
  BY <1>1 DEF T!NewLedger
<1>3. /\ setup.sched = "none" => w = -1
      /\ setup.sched \in {"paused", "set"} => (Base(After) + Burnt.hours > Burnt.cut => w # 0)
      /\ T!ScheduleClosed(After) <=> setup.sched = "paused" \/ Tag(After) = "closed"
  BY <1>1, WindowsAre
<1>4. Closing(After) \in Nat \ {0}
  BY <1>1, ClosingIs
<1>5. CASE setup.sched = "set"
  <2>1. Base(After) = Closing(After)
    BY <1>3, <1>5 DEF Base
  <2>2. Burnt.hours \in Nat
    BY <1>1 DEF Ledgers
  <2>3. Base(After) + Burnt.hours > 0
    BY <1>4, <2>1, <2>2
  <2> QED
    BY <1>2, <1>3, <1>5, <2>3
<1> QED
  BY <1>3, <1>5

\* A stand-down whose grace has more than a minute left has some left a minute on.
LEMMA WarningLasts ==
    ASSUME TimeTypes, Warning \notin {0, 1}
    PROVE  T!Countdown(After) # 0
<1> DEFINE c == T!Clock
           g(t) == LET s == IF gracePin.id = order.id THEN gracePin.at ELSE t
                       gone == IF t - s < 0 THEN 0 ELSE t - s
                   IN IF Grace - gone < 0 THEN 0 ELSE Grace - gone
<1>1. c \in Nat /\ After = c + 1 /\ gracePin.at \in Nat /\ Grace \in Nat \ {0} /\ None \notin Int
  BY ClockIs, StandDownAssumption, NamesAssumption DEF TimeTypes
<1>2. \A t : T!Countdown(t) = IF T!Stands(order, t) THEN g(t) ELSE None
  BY DEF T!Countdown, T!AtLeastZero, T!Started
<1>3. T!Stands(order, After) => T!Stands(order, c)
  <2>1. order # None => order.until \in Nat
    BY DEF TimeTypes
  <2> QED
    BY <1>1, <2>1 DEF T!Stands
<1>4. CASE T!Stands(order, After)
  <2>1. g(c) # 0 /\ g(c) # 1
    BY <1>2, <1>3, <1>4 DEF Warning
  <2>2. g(After) # 0
    <3> HIDE DEF c
    <3> QED
      BY <1>1, <2>1
  <2> QED
    BY <1>2, <1>4, <2>2
<1>5. CASE ~T!Stands(order, After)
  BY <1>1, <1>2, <1>5
<1> QED
  BY <1>4, <1>5

\* The minutes of each cap that are left.
NoFloor == [day |-> None, week |-> None]
FloorOf(l) == IF l.base = None THEN NoFloor ELSE l.base
DayPart(m, l, clk) ==
  T!Part(cap.day, FloorOf(l).day, l.give - l.take, T!Pooled(m, view, clk).day)
WeekPart(m, l, clk) ==
  T!Part(cap.week, FloorOf(l).week, l.give - l.take, T!Pooled(m, view, clk).week)

\* A plain budget's minutes are the least of what its caps leave (quota_parts_signed_pooled).
LEMMA BudgetBy ==
    ASSUME TimeTypes, NEW m \in Meters, NEW l \in Ledgers, NEW clk,
           NEW budget, budget = T!BudgetLeft(m, view, l, clk),
           NEW d, d = DayPart(m, l, clk), NEW w, w = WeekPart(m, l, clk)
    PROVE  /\ cap.is \in {"paused", "unread"} => budget = 0
           /\ cap.is \in {"none", "revoked"} => budget = -1
           /\ cap.day # None => d \in Int
           /\ cap.week # None => w \in Int
           /\ cap.is = "plain" =>
                /\ cap.day = None /\ cap.week = None => budget = -1
                /\ cap.day # None /\ cap.week = None => budget = T!AtLeastZero(d)
                /\ cap.day = None /\ cap.week # None => budget = T!AtLeastZero(w)
                /\ cap.day # None /\ cap.week # None =>
                     budget = T!AtLeastZero(IF d <= w THEN d ELSE w)
<1> DEFINE p == T!Pooled(m, view, clk)
           base == FloorOf(l)
           net == l.give - l.take
           parts == T!QuotaParts(m, view, l, clk)
<1>1. cap.is \in {"none", "revoked", "paused", "unread", "plain"}
      /\ cap.day \in Nat \cup {None} /\ cap.week \in Nat \cup {None}
  BY DEF TimeTypes, Caps
<1>2. net \in Int /\ base.day \in Nat \cup {None} /\ base.week \in Nat \cup {None}
  BY DEF Ledgers, FloorOf, NoFloor
<1>3. p.day \in Nat /\ p.week \in Nat
  BY PooledIs
<1>4. parts = IF cap.is = "unread" THEN {0}
              ELSE IF cap.is \in {"none", "revoked"} THEN {}
              ELSE IF cap.is = "paused" THEN {0}
              ELSE {d, w} \ {None}
  BY DEF T!QuotaParts, DayPart, WeekPart, FloorOf, NoFloor
<1>5. budget = IF parts = {} THEN -1 ELSE T!AtLeastZero(T!Min(parts))
  BY DEF T!BudgetLeft, T!Unlimited
<1>6. d = T!Part(cap.day, base.day, net, p.day) /\ w = T!Part(cap.week, base.week, net, p.week)
  BY DEF DayPart, WeekPart
<1>7. /\ cap.day = None => d = None
      /\ cap.day # None => d \in Int
  <2> DEFINE a == cap.day
             b == base.day
             u == p.day
  <2>1. a \in Nat \cup {None} /\ b \in Nat \cup {None} /\ net \in Int /\ u \in Nat
        /\ d = T!Part(a, b, net, u)
    BY <1>1, <1>2, <1>3, <1>6
  <2> HIDE DEF a, b, u, p, base, net
  <2>2. (a = None => d = None) /\ (a # None => d \in Int)
    BY <2>1, PartIs
  <2> QED
    BY <2>2 DEF a
<1>8. /\ cap.week = None => w = None
      /\ cap.week # None => w \in Int
  <2> DEFINE a == cap.week
             b == base.week
             u == p.week
  <2>1. a \in Nat \cup {None} /\ b \in Nat \cup {None} /\ net \in Int /\ u \in Nat
        /\ w = T!Part(a, b, net, u)
    BY <1>1, <1>2, <1>3, <1>6
  <2> HIDE DEF a, b, u, p, base, net
  <2>2. (a = None => w = None) /\ (a # None => w \in Int)
    BY <2>1, PartIs
  <2> QED
    BY <2>2 DEF a
<1>9. None \notin Int
  BY NamesAssumption
<1> HIDE DEF p, base, net, parts
<1>10. T!Min({0}) = 0
  <2>1. {0} = {0, 0}
    OBVIOUS
  <2> QED
    BY <2>1, OfTwo
<1>11. CASE cap.is \in {"paused", "unread"}
  <2>1. budget = 0
    BY <1>4, <1>5, <1>10, <1>11 DEF T!AtLeastZero
  <2> QED
    BY <1>7, <1>8, <1>11, <2>1
<1>12. CASE cap.is \in {"none", "revoked"}
  <2>1. budget = -1
    BY <1>4, <1>5, <1>12
  <2> QED
    BY <1>7, <1>8, <1>12, <2>1
<1>13. CASE cap.is = "plain"
  <2>0. parts = {d, w} \ {None}
    BY <1>4, <1>13
  <2>1. ASSUME cap.day = None, cap.week = None PROVE budget = -1
    BY <1>5, <1>7, <1>8, <2>0, <2>1
  <2>2. ASSUME cap.day # None, cap.week = None PROVE budget = T!AtLeastZero(d)
    <3>1. parts = {d, d} /\ parts # {}
      BY <1>7, <1>8, <1>9, <2>0, <2>2
    <3>2. T!Min(parts) = d
      BY <1>7, <2>2, <3>1, OfTwo
    <3> QED
      BY <1>5, <3>1, <3>2
  <2>3. ASSUME cap.day = None, cap.week # None PROVE budget = T!AtLeastZero(w)
    <3>1. parts = {w, w} /\ parts # {}
      BY <1>7, <1>8, <1>9, <2>0, <2>3
    <3>2. T!Min(parts) = w
      BY <1>8, <2>3, <3>1, OfTwo
    <3> QED
      BY <1>5, <3>1, <3>2
  <2>4. ASSUME cap.day # None, cap.week # None
        PROVE  budget = T!AtLeastZero(IF d <= w THEN d ELSE w)
    <3>1. parts = {d, w} /\ parts # {}
      BY <1>7, <1>8, <1>9, <2>0, <2>4
    <3>2. T!Min(parts) = IF d <= w THEN d ELSE w
      BY <1>7, <1>8, <2>4, <3>1, OfTwo
    <3> QED
      BY <1>5, <3>1, <3>2
  <2> QED
    BY <1>7, <1>8, <1>13, <2>1, <2>2, <2>3, <2>4
<1> QED
  BY <1>1, <1>11, <1>12, <1>13

\* What a cap leaves, by what it is raised to.
LEMMA PartBy ==
    ASSUME NEW limit \in Nat, NEW floor \in Nat \cup {None}, NEW net \in Int, NEW used \in Nat
    PROVE  T!Part(limit, floor, net, used)
             = (IF floor = None \/ limit >= floor THEN limit ELSE floor) + net - used
<1>1. None \notin Int
  BY NamesAssumption
<1>2. CASE floor = None
  BY <1>1, <1>2 DEF T!Part
<1>3. CASE floor # None
  <2>1. T!Max({limit, floor}) = IF limit >= floor THEN limit ELSE floor
    BY <1>3, OfTwo
  <2> QED
    BY <1>1, <1>3, <2>1 DEF T!Part
<1> QED
  BY <1>2, <1>3

\* A journal has no more slots than its device has used minutes.
SlotsInv == view # None /\ view.slots # None => Cardinality(view.slots) <= view.used

\* What a day and a week have used, as a view is of the day, has a journal, or has not.
PooledDay(m, today) ==
  IF view = None \/ view.day # today THEN T!Used(m)
  ELSE IF view.slots # None /\ (m.own # {} \/ T!Used(m) = 0)
    THEN T!Max({Cardinality(T!Slots(m.own) \cup view.slots), T!Used(m)})
  ELSE T!Used(m) + view.used
PooledWeek(m) == m.past + T!Used(m) + (IF view = None THEN 0 ELSE view.week)

LEMMA PooledBy ==
    ASSUME NEW m, NEW clk
    PROVE  /\ T!Pooled(m, view, clk).day = PooledDay(m, clk \div DayLen)
           /\ T!Pooled(m, view, clk).week = PooledWeek(m)
<1> DEFINE q == clk \div DayLen
           x == PooledDay(m, q)
           y == PooledWeek(m)
<1>1. T!Pooled(m, view, clk) = [day |-> x, week |-> y]
  BY Counted DEF T!Pooled, PooledDay, PooledWeek
<1> HIDE DEF x, y
<1> QED
  BY <1>1 DEF x, y

\* One more minute used is one more at most, of each of them.
LEMMA MinuteMore ==
    ASSUME TimeTypes, SlotsInv, NEW m \in Meters, NEW i \in 0 .. DayLen - 1, NEW today,
           NEW n, n = [m EXCEPT !.own = @ \cup {i}]
    PROVE  PooledDay(n, today) <= PooledDay(m, today) + 1 /\ PooledWeek(n) <= PooledWeek(m) + 1
<1>1. n \in Meters /\ n.own = m.own \cup {i} /\ n.cross = m.cross /\ n.past = m.past
  BY DEF Meters
<1>2. /\ T!Used(m) = Cardinality(m.own) + m.cross /\ T!Used(m) \in Nat /\ IsFiniteSet(m.own)
      /\ T!Used(n) = Cardinality(n.own) + n.cross /\ T!Used(n) \in Nat
      /\ Cardinality(m.own) \in Nat /\ Cardinality(n.own) \in Nat /\ m.cross \in Nat /\ m.past \in Nat
  <2>1. /\ T!Used(m) = Cardinality(m.own) + m.cross /\ T!Used(m) \in Nat /\ IsFiniteSet(m.own)
        /\ Cardinality(m.own) \in Nat
    BY UsedIs
  <2>2. n \in Meters
    BY <1>1
  <2>3. T!Used(n) = Cardinality(n.own) + n.cross /\ T!Used(n) \in Nat /\ Cardinality(n.own) \in Nat
    BY <2>2, UsedIs
  <2>4. m.cross \in Nat /\ m.past \in Nat
    BY DEF Meters
  <2> QED
    BY <2>1, <2>3, <2>4
<1>3. \A S, e : IsFiniteSet(S) =>
        /\ IsFiniteSet(S \cup {e}) /\ Cardinality(S) \in Nat
        /\ Cardinality(S \cup {e}) \in Nat /\ Cardinality(S \cup {e}) <= Cardinality(S) + 1
  <2> SUFFICES ASSUME NEW S, NEW e, IsFiniteSet(S)
               PROVE  /\ IsFiniteSet(S \cup {e}) /\ Cardinality(S) \in Nat
                      /\ Cardinality(S \cup {e}) \in Nat
                      /\ Cardinality(S \cup {e}) <= Cardinality(S) + 1
    OBVIOUS
  <2>1. Cardinality(S) \in Nat
    BY FS_CardinalityType
  <2>2. /\ IsFiniteSet(S \cup {e})
        /\ Cardinality(S \cup {e}) = Cardinality(S) \/ Cardinality(S \cup {e}) = Cardinality(S) + 1
    BY FS_AddElement
  <2> QED
    BY <2>1, <2>2
<1>4. T!Used(n) <= T!Used(m) + 1
  <2>1. Cardinality(n.own) <= Cardinality(m.own) + 1
    BY <1>1, <1>2, <1>3
  <2> QED
    BY <1>1, <1>2, <2>1
<1>5. view # None => view.used \in Nat /\ view.week \in Nat
                     /\ (view.slots # None => IsFiniteSet(view.slots))
  BY DEF TimeTypes
<1>6. ASSUME view # None, view.day = today, view.slots # None
      PROVE  PooledDay(n, today) <= PooledDay(m, today) + 1
  <2> DEFINE V == view.slots
             S == T!Slots(m.own)
             e == setup.slot[i]
             a == Cardinality(S \cup V)
             b == Cardinality((S \cup V) \cup {e})
             u == T!Used(m)
             r == T!Used(n)
             x == PooledDay(m, today)
             y == PooledDay(n, today)
             t == view.used
  <2>1. T!Slots(n.own) \cup V = (S \cup V) \cup {e}
    BY <1>1 DEF T!Slots
  <2>2. IsFiniteSet(S) /\ IsFiniteSet(V)
    BY <1>2, <1>5, <1>6, SlotsAre
  <2>3. IsFiniteSet(S \cup V)
    BY <2>2, FS_Union
  <2>4. a \in Nat /\ b \in Nat /\ b <= a + 1
    <3> HIDE DEF S, V, e
    <3> QED
      BY <1>3, <2>3
  <2>5. n.own # {}
    BY <1>1
  <2>6. PooledDay(n, today) = IF b >= r THEN b ELSE r
    <3>1. PooledDay(n, today) = T!Max({b, r})
      BY <1>6, <2>1, <2>5 DEF PooledDay
    <3>2. b \in Int /\ r \in Int
      BY <1>2, <2>4
    <3> HIDE DEF b, r
    <3> QED
      BY <3>1, <3>2, OfTwo
  <2>7. CASE m.own # {} \/ u = 0
    <3>1. PooledDay(m, today) = T!Max({a, u})
      BY <1>6, <2>7 DEF PooledDay
    <3>2. a \in Int /\ u \in Int
      BY <1>2, <2>4
    <3>3. r \in Nat /\ u \in Nat /\ r <= u + 1
      BY <1>2, <1>4
    <3> HIDE DEF a, u, b, r
    <3>4. PooledDay(m, today) = IF a >= u THEN a ELSE u
      BY <3>1, <3>2, OfTwo
    <3>5. x = (IF a >= u THEN a ELSE u) /\ y = (IF b >= r THEN b ELSE r)
      BY <2>6, <3>4
    <3> HIDE DEF x, y
    <3>6. y <= x + 1
      BY <2>4, <3>3, <3>5
    <3> QED
      BY <3>6 DEF x, y
  <2>8. CASE m.own = {} /\ u # 0
    <3>1. PooledDay(m, today) = u + view.used
      BY <1>6, <2>8 DEF PooledDay
    <3>2. S \cup V = V
      BY <2>8 DEF T!Slots
    <3>3. a <= view.used
      BY <1>6, <3>2 DEF SlotsInv
    <3>4. r \in Nat /\ u \in Nat /\ r <= u + 1 /\ view.used \in Nat
      BY <1>2, <1>4, <1>5, <1>6
    <3>5. x = u + t /\ y = (IF b >= r THEN b ELSE r) /\ a <= t /\ t \in Nat
      BY <2>6, <3>1, <3>3, <3>4
    <3>6. r \in Nat /\ u \in Nat /\ r <= u + 1
      BY <3>4
    <3> HIDE DEF a, b, u, r, x, y, t
    <3>7. y <= x + 1
      BY <2>4, <3>5, <3>6
    <3> QED
      BY <3>7 DEF x, y
  <2> QED
    BY <2>7, <2>8
<1>7. ASSUME ~(view # None /\ view.day = today /\ view.slots # None)
      PROVE  PooledDay(n, today) <= PooledDay(m, today) + 1
  <2> DEFINE x == PooledDay(m, today)
             y == PooledDay(n, today)
             u == T!Used(m)
             r == T!Used(n)
             t == view.used
  <2>1. u \in Nat /\ r \in Nat /\ r <= u + 1
    BY <1>2, <1>4
  <2>2. \/ x = u /\ y = r
        \/ x = u + t /\ y = r + t /\ t \in Nat
    BY <1>5, <1>7 DEF PooledDay
  <2> HIDE DEF x, y, u, r, t
  <2>3. y <= x + 1
    BY <2>1, <2>2
  <2> QED
    BY <2>3 DEF x, y
<1>8. PooledDay(n, today) <= PooledDay(m, today) + 1
  BY <1>6, <1>7
<1>9. PooledWeek(n) <= PooledWeek(m) + 1
  BY <1>1, <1>2, <1>4, <1>5 DEF PooledWeek
<1> QED
  BY <1>8, <1>9

\* An iteration adds one minute at most to what is used, of a new day as of the same.
LEMMA OneMinuteMore ==
    ASSUME TimeTypes, ViewInv, SlotsInv, NEW b,
           NEW n, n = T!Charged(T!RolledMeter(meter, T!Clock, After), After, b)
    PROVE  /\ PooledDay(n, After \div DayLen) <= PooledDay(meter, T!Clock \div DayLen) + 1
           /\ PooledWeek(n) <= PooledWeek(meter) + 1
<1> DEFINE c == T!Clock
           was == c \div DayLen
           is == After \div DayLen
           m == T!Minute(After)
<1>1. c \in Nat /\ After = c + 1 /\ After \in Nat /\ meter \in Meters /\ n \in Meters
  <2>1. c \in Nat /\ After = c + 1 /\ After \in Nat /\ meter \in Meters
    BY ClockIs DEF TimeTypes
  <2>2. T!RolledMeter(meter, c, After) \in Meters
    <3> HIDE DEF c
    <3> QED
      BY <2>1, MeterRolls
  <2>3. n \in Meters
    BY <2>1, <2>2, MeterCharges
  <2> QED
    BY <2>1, <2>3
<1>2. /\ T!NewDay(c, c + 1) => T!Minute(c + 1) = 0
      /\ ~T!NewDay(c, c + 1) => T!Minute(c + 1) = T!Minute(c) + 1
      /\ T!Minute(c) \in 0 .. DayLen - 1 /\ (~T!NewDay(c, c + 1) => T!Minute(c) + 1 < DayLen)
  <2>0. 1 \in Nat
    OBVIOUS
  <2> HIDE DEF c
  <2> QED
    BY <1>1, <2>0, MinutesPass
<1>3. T!NewDay(c, c + 1) <=> was # is
  BY <1>1 DEF T!NewDay
<1>4. /\ PooledDay(meter, was) \in Nat /\ PooledWeek(meter) \in Nat
      /\ PooledDay(n, is) \in Nat /\ PooledWeek(n) \in Nat
  <2>1. T!Pooled(meter, view, c).day \in Nat /\ T!Pooled(meter, view, c).week \in Nat
    BY <1>1, PooledIs
  <2>2. T!Pooled(n, view, After).day \in Nat /\ T!Pooled(n, view, After).week \in Nat
    BY <1>1, PooledIs
  <2> QED
    BY <2>1, <2>2, PooledBy
<1>5. ASSUME ~T!NewDay(c, c + 1)
      PROVE  PooledDay(n, is) <= PooledDay(meter, was) + 1 /\ PooledWeek(n) <= PooledWeek(meter) + 1
  <2>1. T!RolledMeter(meter, c, After) = meter /\ is = was
    BY <1>1, <1>3, <1>5 DEF T!RolledMeter
  <2>2. m # 0 /\ m - 1 \in 0 .. DayLen - 1
    <3> DEFINE k == T!Minute(c)
    <3>1. m = k + 1 /\ k \in 0 .. DayLen - 1
      BY <1>1, <1>2, <1>5
    <3> HIDE DEF k, m, c
    <3> QED
      BY <3>1, DayLenAssumption
  <2>3. n = meter \/ n = [meter EXCEPT !.own = @ \cup {m - 1}]
    BY <2>1, <2>2 DEF T!Charged
  <2>4. CASE n = meter
    <3> DEFINE x == PooledDay(meter, was)
               y == PooledWeek(meter)
    <3>1. x \in Nat /\ y \in Nat
      BY <1>4
    <3>2. x <= x + 1 /\ y <= y + 1
      <4> HIDE DEF x, y
      <4> QED
        BY <3>1
    <3> QED
      BY <2>1, <2>4, <3>2
  <2>5. CASE n = [meter EXCEPT !.own = @ \cup {m - 1}]
    <3> DEFINE i == m - 1
    <3>1. i \in 0 .. DayLen - 1 /\ n = [meter EXCEPT !.own = @ \cup {i}]
      BY <2>2, <2>5
    <3> HIDE DEF i, m
    <3>2. PooledDay(n, was) <= PooledDay(meter, was) + 1 /\ PooledWeek(n) <= PooledWeek(meter) + 1
      BY <1>1, <3>1, MinuteMore
    <3> QED
      BY <2>1, <3>2
  <2> QED
    BY <2>3, <2>4, <2>5
<1>6. ASSUME T!NewDay(c, c + 1)
      PROVE  PooledDay(n, is) <= PooledDay(meter, was) + 1 /\ PooledWeek(n) <= PooledWeek(meter) + 1
  <2> DEFINE r == [own |-> {}, cross |-> 0, past |-> meter.past + T!Used(meter)]
             u == T!Used(meter)
  <2>1. T!RolledMeter(meter, c, After) = r
    BY <1>1, <1>6 DEF T!RolledMeter
  <2>2. m = 0
    BY <1>1, <1>2, <1>6
  <2>3. n = r \/ n = [r EXCEPT !.cross = 1]
    BY <2>1, <2>2 DEF T!Charged
  <2>4. n.own = {} /\ n.cross \in {0, 1} /\ n.past = meter.past + u
    BY <2>3
  <2>5. T!Used(n) \in {0, 1}
    <3>1. T!Used(n) = Cardinality(n.own) + n.cross
      BY <1>1, UsedIs
    <3> QED
      BY <2>4, <3>1, FS_EmptySet
  <2>6. view = None \/ view.day # is
    <3>1. was \in Nat /\ is \in Nat
      BY <1>1, DaysAre
    <3>2. is >= was
      <4>1. (c + 1) \div DayLen >= c \div DayLen
        <5> HIDE DEF c
        <5> QED
          BY <1>1, DaysPass
      <4> QED
        BY <1>1, <4>1
    <3>3. view # None => view.day <= was /\ view.day \in Nat
      BY DEF ViewInv, Behind, TimeTypes
    <3>4. was # is
      BY <1>3, <1>6
    <3> HIDE DEF was, is
    <3> QED
      BY <3>1, <3>2, <3>3, <3>4
  <2>7. PooledDay(n, is) = T!Used(n)
    BY <2>6 DEF PooledDay
  <2>8. meter.past \in Nat /\ u \in Nat /\ (view # None => view.week \in Nat)
    BY <1>1, UsedIs DEF Meters, TimeTypes
  <2>9. PooledWeek(n) <= PooledWeek(meter) + 1
    <3> DEFINE x == PooledWeek(meter)
               y == PooledWeek(n)
               k == T!Used(n)
               z == IF view = None THEN 0 ELSE view.week
               p == meter.past
    <3>1. z \in Nat /\ x = p + u + z /\ y = p + u + k + z /\ k \in {0, 1} /\ p \in Nat /\ u \in Nat
      BY <2>4, <2>5, <2>8 DEF PooledWeek
    <3> HIDE DEF x, y, k, z, p, u
    <3>2. y <= x + 1
      BY <3>1
    <3> QED
      BY <3>2 DEF x, y
  <2>10. PooledDay(n, is) <= PooledDay(meter, was) + 1
    <3> DEFINE x == PooledDay(meter, was)
               y == PooledDay(n, is)
    <3>1. x \in Nat /\ y \in {0, 1}
      BY <1>4, <2>5, <2>7
    <3> HIDE DEF x, y
    <3>2. y <= x + 1
      BY <3>1
    <3> QED
      BY <3>2 DEF x, y
  <2> QED
    BY <2>9, <2>10
<1> QED
  BY <1>5, <1>6

\* What one more minute leaves of a cap is a minute less at most.
LEMMA PartDrops ==
    ASSUME NEW limit \in Nat \cup {None}, limit # None, NEW floor \in Nat \cup {None},
           NEW net \in Int, NEW used \in Nat, NEW then \in Nat, then <= used + 1
    PROVE  /\ T!Part(limit, floor, net, used) \in Int /\ T!Part(limit, floor, net, then) \in Int
           /\ T!Part(limit, floor, net, then) >= T!Part(limit, floor, net, used) - 1
<1> DEFINE k == IF floor = None \/ limit >= floor THEN limit ELSE floor
<1>1. limit \in Nat
  OBVIOUS
<1>2. T!Part(limit, floor, net, used) = k + net - used
      /\ T!Part(limit, floor, net, then) = k + net - then
  BY <1>1, PartBy
<1>3. k \in Nat
  BY <1>1
<1> HIDE DEF k
<1> QED
  BY <1>2, <1>3

\* A budget with more than a minute left has some left a minute on, unless what was given
\* lapses at midnight.
LEMMA AllowanceLasts ==
    ASSUME TimeTypes, ViewInv, SlotsInv, Allowance \in Lasting,
           T!NewDay(T!Clock, After) => ledger = T!NewLedger,
           NEW b, NEW n, n = T!Charged(T!RolledMeter(meter, T!Clock, After), After, b),
           NEW budget, budget = T!BudgetLeft(n, view, Burnt, After)
    PROVE  budget # 0
<1> DEFINE c == T!Clock
           has == Allowance
           d == DayPart(meter, ledger, c)
           w == WeekPart(meter, ledger, c)
           x == DayPart(n, Burnt, After)
           y == WeekPart(n, Burnt, After)
<1>1. c \in Nat /\ After = c + 1 /\ After \in Nat /\ meter \in Meters /\ ledger \in Ledgers
      /\ Burnt \in Ledgers
  BY ClockIs, BurntIs DEF TimeTypes
<1>2. n \in Meters
  <2> DEFINE r == T!RolledMeter(meter, c, After)
  <2>1. r \in Meters
    BY <1>1, MeterRolls
  <2> HIDE DEF c, r
  <2>2. T!Charged(r, c + 1, b) \in Meters
    BY <1>1, <2>1, MeterCharges
  <2> QED
    BY <1>1, <2>2 DEF c, r
<1>3. FloorOf(Burnt) = FloorOf(ledger) /\ Burnt.give - Burnt.take = ledger.give - ledger.take
  <2>1. Rolled = ledger
    BY BurntKeeps
  <2> QED
    BY <2>1, BurntIs, BurntKeeps DEF FloorOf
<1>4. /\ cap.is \in {"paused", "unread"} => has = 0
      /\ cap.is \in {"none", "revoked"} => has = -1
      /\ cap.is = "plain" =>
           /\ cap.day = None /\ cap.week = None => has = -1
           /\ cap.day # None /\ cap.week = None => has = T!AtLeastZero(d)
           /\ cap.day = None /\ cap.week # None => has = T!AtLeastZero(w)
           /\ cap.day # None /\ cap.week # None =>
                has = T!AtLeastZero(IF d <= w THEN d ELSE w)
  <2>1. has = T!BudgetLeft(meter, view, ledger, c)
    BY DEF Allowance
  <2> HIDE DEF has, c
  <2> QED
    BY <1>1, <2>1, BudgetBy DEF d, w
<1>5. /\ cap.is \in {"none", "revoked"} => budget = -1
      /\ cap.is = "plain" =>
           /\ cap.day = None /\ cap.week = None => budget = -1
           /\ cap.day # None /\ cap.week = None => budget = T!AtLeastZero(x)
           /\ cap.day = None /\ cap.week # None => budget = T!AtLeastZero(y)
           /\ cap.day # None /\ cap.week # None =>
                budget = T!AtLeastZero(IF x <= y THEN x ELSE y)
  BY <1>1, <1>2, BudgetBy
<1>6. /\ cap.is \in {"none", "revoked", "paused", "unread", "plain"}
      /\ cap.day \in Nat \cup {None} /\ cap.week \in Nat \cup {None}
  BY DEF TimeTypes, Caps
<1> DEFINE floor == FloorOf(ledger)
           net == ledger.give - ledger.take
           u == T!Pooled(meter, view, c)
           v == T!Pooled(n, view, After)
<1>7. /\ net \in Int /\ floor.day \in Nat \cup {None} /\ floor.week \in Nat \cup {None}
  BY <1>1 DEF Ledgers, FloorOf, NoFloor
<1>8. /\ u.day \in Nat /\ u.week \in Nat /\ v.day \in Nat /\ v.week \in Nat
      /\ v.day <= u.day + 1 /\ v.week <= u.week + 1
  <2>1. u.day \in Nat /\ u.week \in Nat /\ v.day \in Nat /\ v.week \in Nat
    BY <1>1, <1>2, PooledIs
  <2>2. /\ u.day = PooledDay(meter, c \div DayLen) /\ u.week = PooledWeek(meter)
        /\ v.day = PooledDay(n, After \div DayLen) /\ v.week = PooledWeek(n)
    BY PooledBy
  <2>3. /\ PooledDay(n, After \div DayLen) <= PooledDay(meter, c \div DayLen) + 1
        /\ PooledWeek(n) <= PooledWeek(meter) + 1
    BY OneMinuteMore
  <2> HIDE DEF u, v, c
  <2> QED
    BY <2>1, <2>2, <2>3
<1>9. /\ d = T!Part(cap.day, floor.day, net, u.day) /\ w = T!Part(cap.week, floor.week, net, u.week)
      /\ x = T!Part(cap.day, floor.day, net, v.day) /\ y = T!Part(cap.week, floor.week, net, v.week)
  BY <1>3 DEF DayPart, WeekPart
<1> HIDE DEF d, w, x, y, u, v, net, floor, has
<1>10. cap.day # None => d \in Int /\ x \in Int /\ x >= d - 1
  <2> DEFINE a == cap.day
             f == floor.day
             i == u.day
             j == v.day
  <2>1. a \in Nat \cup {None} /\ f \in Nat \cup {None} /\ i \in Nat /\ j \in Nat /\ j <= i + 1
        /\ d = T!Part(a, f, net, i) /\ x = T!Part(a, f, net, j)
    BY <1>6, <1>7, <1>8, <1>9
  <2> HIDE DEF a, f, i, j
  <2>2. a # None => d \in Int /\ x \in Int /\ x >= d - 1
    BY <1>7, <2>1, PartDrops
  <2> QED
    BY <2>2 DEF a
<1>11. cap.week # None => w \in Int /\ y \in Int /\ y >= w - 1
  <2> DEFINE a == cap.week
             f == floor.week
             i == u.week
             j == v.week
  <2>1. a \in Nat \cup {None} /\ f \in Nat \cup {None} /\ i \in Nat /\ j \in Nat /\ j <= i + 1
        /\ w = T!Part(a, f, net, i) /\ y = T!Part(a, f, net, j)
    BY <1>6, <1>7, <1>8, <1>9
  <2> HIDE DEF a, f, i, j
  <2>2. a # None => w \in Int /\ y \in Int /\ y >= w - 1
    BY <1>7, <2>1, PartDrops
  <2> QED
    BY <2>2 DEF a
<1>12. has # 0 /\ has # 1
  BY DEF has, Lasting
<1> QED
  BY <1>4, <1>5, <1>6, <1>10, <1>11, <1>12 DEF T!AtLeastZero

\* What an iteration decides, says and remembers of what it said.
LEMMA IterateSays ==
    ASSUME NEW use \in BOOLEAN, NEW elsewhere \in BOOLEAN, NEW lost \in BOOLEAN,
           T!Iterate(use, elsewhere, lost)
    PROVE  /\ core' = T!CoreTick(Rest)
           /\ tracker' = T!Observed(Shown, T!Left(Rest, Shown, T!Countdown(After)),
                                    T!LockedNow(Rest, Shown))
           /\ told' = (/\ ~T!LockedNow(Rest, Shown)
                       /\ \/ (IF T!InPlay(Shown) THEN tracker'.says ELSE core'.says) = "one"
                          \/ /\ told
                             /\ T!Left(Rest, Shown, T!Countdown(After)) \in 0 .. One + T!Slack(Shown))
<1>1. T!Concluded(Rest, Burnt, After, T!Countdown(After))
  BY Zenon DEF T!Iterate, After, Rolled, Burnt, Rest
<1> QED
  BY <1>1, Zenon DEF T!Concluded, T!Conclude, Shown

\* What is left when the iteration is over is what it found: the pool it charges and the pin
\* it writes change nothing of it.
LEMMA NowIs ==
    ASSUME TimeTypes, NEW use \in BOOLEAN, NEW elsewhere \in BOOLEAN, NEW lost \in BOOLEAN,
           T!Iterate(use, elsewhere, lost)
    PROVE  /\ T!Clock' = After
           /\ Windows' = T!ScheduleLeft(T!ScheduleBase(After), Burnt, After)
           /\ Allowance' = T!BudgetLeft(meter', view, Burnt, After)
           /\ Warning' = T!Countdown(After)
           /\ Tag(T!Clock)' = Tag(After) /\ Span(T!Clock)' = Span(After)
           /\ Ends(T!Clock)' = Ends(After)
<1>1. /\ setup' = setup /\ view' = view /\ cap' = cap /\ order' = order
      /\ gracePin' = T!Pinned(After, lost)
      /\ ledger' = IF Spends THEN [Burnt EXCEPT !.pools[Shown.id].left = T!AtLeastZero(@ - 1)]
                   ELSE Burnt
  BY IterateIs, Zenon
<1>2. T!Clock' = After
  BY TypesIterate
<1>3. /\ ledger'.give = Burnt.give /\ ledger'.take = Burnt.take /\ ledger'.base = Burnt.base
      /\ ledger'.hours = Burnt.hours /\ ledger'.cut = Burnt.cut
  <2> DEFINE f == [Burnt.pools EXCEPT ![Shown.id].left = T!AtLeastZero(@ - 1)]
  <2>1. ledger' = [Burnt EXCEPT !.pools = f] \/ ledger' = Burnt
    BY <1>1
  <2>2. Burnt \in Ledgers
    BY BurntIs
  <2> HIDE DEF f
  <2> QED
    BY <2>1, <2>2 DEF Ledgers
<1>4. Windows' = T!ScheduleLeft(T!ScheduleBase(After), Burnt, After)
  <2>1. T!Minute(T!Clock)' = T!Minute(After) /\ T!Label(T!Clock)' = T!Label(After)
    BY <1>1, <1>2 DEF T!Minute, T!Label
  <2>2. Closing(T!Clock)' = Closing(After)
    BY <1>1, <1>2 DEF Closing, T!Until, T!Minute
  <2>3. T!ScheduleBase(T!Clock)' = T!ScheduleBase(After)
    BY <1>1, <2>1, <2>2 DEF T!ScheduleBase, Closing, T!Unlimited
  <2>4. Windows' = IF setup'.sched = "unreadable" \/ T!ScheduleBase(T!Clock)' < 0
                     THEN T!ScheduleBase(T!Clock)'
                   ELSE T!Min({DayLen - T!Minute(T!Clock)',
                               T!AtLeastZero(T!ScheduleBase(T!Clock)' + ledger'.hours - ledger'.cut)})
    BY DEF Windows, T!ScheduleLeft
  <2> QED
    BY <1>1, <1>3, <2>1, <2>3, <2>4 DEF T!ScheduleLeft
<1>5. Allowance' = T!BudgetLeft(meter', view, Burnt, After)
  BY <1>1, <1>2, <1>3 DEF Allowance, T!BudgetLeft, T!QuotaParts, T!Pooled, T!Used, T!Slots
<1>6. Warning' = T!Countdown(After)
  <2>1. Warning' = IF order' # None /\ order'.until > T!Clock'
                     THEN T!AtLeastZero(Grace - T!AtLeastZero(T!Clock' -
                            (IF gracePin'.id = order'.id THEN gracePin'.at ELSE T!Clock')))
                   ELSE None
    BY DEF Warning, T!Countdown, T!Stands, T!Started
  <2>2. T!Countdown(After) = IF order # None /\ order.until > After
                     THEN T!AtLeastZero(Grace - T!AtLeastZero(After -
                            (IF gracePin.id = order.id THEN gracePin.at ELSE After)))
                   ELSE None
    BY DEF T!Countdown, T!Stands, T!Started
  <2>3. T!Stands(order, After) /\ gracePin' # gracePin =>
          gracePin.id # order.id /\ gracePin'.id = order.id /\ gracePin'.at = After
    BY <1>1 DEF T!Pinned
  <2> QED
    BY <1>1, <1>2, <2>1, <2>2, <2>3 DEF T!Stands
<1>7. Tag(T!Clock)' = Tag(After)
  BY <1>1, <1>2 DEF Tag, T!Label, T!Minute
<1>8. Span(T!Clock)' = Span(After)
  BY <1>1, <1>2, <1>7 DEF Span, T!Until, Tag, T!Label, T!Minute
<1>9. Ends(T!Clock)' = Ends(After)
  <2>1. Ends(T!Clock)' = ((T!Clock' % DayLen) + Span(T!Clock)' = DayLen
                          \/ setup'.label[(T!Clock' + Span(T!Clock)') % DayLen] = "closed")
    BY DEF Ends, T!Minute, T!Label
  <2>2. Ends(After) = ((After % DayLen) + Span(After) = DayLen
                          \/ setup.label[(After + Span(After)) % DayLen] = "closed")
    BY DEF Ends, T!Minute, T!Label
  <2> QED
    BY <1>1, <1>2, <1>8, <2>1, <2>2
<1> QED
  BY <1>2, <1>4, <1>5, <1>6, <1>7, <1>8, <1>9

\* What an iteration finds, by what is left when it is over.
LEMMA RestSays ==
    ASSUME TimeTypes, NEW use \in BOOLEAN, NEW elsewhere \in BOOLEAN, NEW lost \in BOOLEAN,
           T!Iterate(use, elsewhere, lost)
    PROVE  /\ Windows' \in Limits /\ Allowance' \in Limits /\ Warning' \in Countdowns
           /\ Rest.left \in Limits /\ Rest.locked \in BOOLEAN /\ (Rest.locked <=> Rest.left = 0)
           /\ Rest.budget = Allowance'
           /\ setup.sched = "set" => Rest.left \in Nat
           /\ setup.sched = "unreadable" => Rest.locked
           /\ Rest.left \in Lasting => Windows' \in Lasting /\ Allowance' \in Lasting
                                       /\ Warning' \notin {0, 1}
           /\ ~Rest.locked => Windows' # 0 /\ Allowance' # 0 /\ Warning' # 0 /\ Rest.why = None
           /\ Windows' # 0 /\ Allowance' # 0 /\ Warning' # 0 => ~Rest.locked
           /\ Rest.locked /\ setup.sched # "unreadable" =>
                Rest.why = IF Warning' = 0 THEN "standdown"
                           ELSE IF Windows' = 0 THEN "schedule" ELSE "budget"
<1>1. After \in Nat /\ Burnt \in Ledgers /\ meter' \in Meters /\ setup \in TimeScenes
  BY ClockIs, BurntIs, TypesIterate DEF TimeTypes
<1> DEFINE s == T!ScheduleLeft(T!ScheduleBase(After), Burnt, After)
           b == T!BudgetLeft(meter', view, Burnt, After)
           d == T!Countdown(After)
<1>2. Windows' = s /\ Allowance' = b /\ Warning' = d
  BY NowIs
<1>3. Rest = T!Breakdown(s, b, d)
  BY DEF Rest, T!Remaining
<1>4. s \in Limits
  <2> HIDE DEF s
  <2> QED
    BY <1>1, ScheduleIs DEF s
<1>5. b \in Limits
  <2> HIDE DEF b
  <2> QED
    BY <1>1, BudgetIs DEF b
<1>6. d \in Countdowns
  BY CountdownIs
<1>7. (setup.sched = "set" => s \in Nat) /\ (setup.sched = "unreadable" => s = 0)
  BY <1>1, WindowsAre
<1> DEFINE c == Rest
<1>8. c = T!Breakdown(s, b, d)
  BY <1>3
<1> HIDE DEF s, b, d, c
<1>9. /\ c.left \in Limits /\ c.locked \in BOOLEAN /\ (c.locked <=> c.left = 0)
      /\ c.schedule = s /\ c.budget = b
      /\ s \in Nat => c.left \in Nat
      /\ c.left \in Lasting => s \in Lasting /\ b \in Lasting /\ d \notin {0, 1}
      /\ ~c.locked => s # 0 /\ b # 0 /\ d # 0 /\ c.why = None
      /\ s # 0 /\ b # 0 /\ d # 0 => ~c.locked
      /\ c.locked /\ setup.sched # "unreadable" =>
           c.why = IF d = 0 THEN "standdown" ELSE IF s = 0 THEN "schedule" ELSE "budget"
  BY <1>4, <1>5, <1>6, <1>8, LeftIs
<1> QED
  BY <1>2, <1>4, <1>5, <1>6, <1>7, <1>9 DEF c

-----------------------------------------------------------------------------
(* Warnings: what an unlocked minute leaves to run on. *)

\* Under the core, in a named time of one's own, and on a pool.
CoreRuns ==
  /\ setup.sched # "unreadable" /\ Warning \notin {0, 1}
  /\ Windows \in Lasting /\ Allowance \in Lasting
  /\ Tag(T!Clock) \in {"closed", "free"}
  /\ setup.sched = "set" /\ Tag(T!Clock) = "free" /\ Span(T!Clock) = 1 => Ends(T!Clock)
OwnRuns ==
  /\ setup.sched = "set" /\ Warning \notin {0, 1}
  /\ Tag(T!Clock) \in NamedTimes /\ Runs(Tag(T!Clock)) /\ Span(T!Clock) # 1
  /\ Tag(T!Clock) \in Counts => Allowance \in Lasting
PoolRuns ==
  /\ setup.sched # "unreadable" /\ Warning \notin {0, 1}
  /\ Tag(T!Clock) # "unknown" /\ T!Pools(ledger) # {} /\ ~T!PoolProof

\* What an iteration shows is the verdict's minutes.
LEMMA OutLeftIs ==
    ASSUME TimeTypes, NEW use \in BOOLEAN, NEW elsewhere \in BOOLEAN, NEW lost \in BOOLEAN,
           T!Iterate(use, elsewhere, lost)
    PROVE  /\ out'.left = T!Left(Rest, Shown, Warning')
           /\ out'.locked \in BOOLEAN /\ (out'.locked <=> T!LockedNow(Rest, Shown))
<1>1. T!Countdown(After) = Warning'
  BY NowIs
<1> DEFINE a == T!LockedNow(Rest, Shown)
           b == T!Left(Rest, Shown, Warning')
           why == IF Shown.is = "core" THEN Rest.why
                  ELSE IF Shown.is = "locked" THEN "schedule" ELSE None
           named == Shown.is = "named"
           pool == Shown.is = "named" /\ Shown.pool
<1>2. out' = [locked |-> a, left |-> b, budget |-> Rest.budget, why |-> why, named |-> named,
              pool |-> pool]
  BY <1>1, IterateIs, Zenon
<1>3. Rest.locked \in BOOLEAN
  BY RestSays
<1>4. a \in BOOLEAN
  BY <1>3 DEF T!LockedNow
<1> HIDE DEF a, b, why, named, pool
<1>5. out'.locked = a /\ out'.left = b
  BY <1>2, <1>4
<1> QED
  BY <1>4, <1>5 DEF a, b

\* Under the core's verdict.
LEMMA OpensCore ==
    ASSUME TimeTypes, NEW use \in BOOLEAN, NEW elsewhere \in BOOLEAN, NEW lost \in BOOLEAN,
           T!Iterate(use, elsewhere, lost), ~out'.locked, Shown.is = "core"
    PROVE  /\ out'.left \in Limits \ {0} /\ (setup.sched = "set" => out'.left \in Nat)
           /\ out'.left \in Lasting => CoreRuns'
<1> DEFINE c == Rest
           v == Shown
           l == Burnt
<1>1. setup \in TimeScenes /\ After \in Nat /\ v = T!Resolved(c, l, After)
  BY ClockIs DEF TimeTypes, Shown
<1>2. ~c.locked /\ out'.left = T!Left(c, v, Warning')
  BY OutLeftIs DEF T!LockedNow
<1>3. /\ Warning' \in Countdowns /\ c.left \in Limits /\ c.locked \in BOOLEAN
      /\ (c.locked <=> c.left = 0)
      /\ setup.sched = "set" => c.left \in Nat
      /\ setup.sched = "unreadable" => c.locked
      /\ c.left \in Lasting => Windows' \in Lasting /\ Allowance' \in Lasting /\ Warning' \notin {0, 1}
  BY RestSays
<1>4. v.is = "core"
  OBVIOUS
<1>5. /\ Tag(T!Clock)' = Tag(After) /\ Span(T!Clock)' = Span(After)
      /\ Ends(T!Clock)' = Ends(After)
  BY NowIs
<1>6. setup' = setup
  BY IterateIs, Zenon
<1>7. Span(After) \in Nat \ {0} /\ None \notin Int
  BY <1>1, SpanIs, NamesAssumption
<1> DEFINE down == Warning'
           left == out'.left
<1> HIDE DEF c, v, l, down, left
<1>8. /\ Tag(After) \in {"closed", "free"}
      /\ v.span = None \/ (setup.sched = "set" /\ v.span = Span(After))
      /\ setup.sched = "set" /\ Tag(After) = "free" /\ v.span = None => Ends(After)
  BY <1>1, <1>2, <1>3, <1>4, CoreOpens
<1>9. left = T!Left(c, v, down) /\ down \in Countdowns
  BY <1>2, <1>3 DEF left, down
<1>10. CASE v.span = None
  <2>1. left = c.left
    BY <1>3, <1>4, <1>9, <1>10, ShownLeftIs
  <2>2. left \in Limits \ {0} /\ (setup.sched = "set" => left \in Nat)
    BY <1>2, <1>3, <2>1
  <2>3. ASSUME left \in Lasting PROVE CoreRuns'
    <3>1. Windows' \in Lasting /\ Allowance' \in Lasting /\ Warning' \notin {0, 1}
      BY <1>3, <2>1, <2>3
    <3> QED
      BY <1>2, <1>3, <1>5, <1>6, <1>8, <1>10, <3>1 DEF CoreRuns
  <2> QED
    BY <2>2, <2>3 DEF left
<1>11. CASE v.span # None
  <2>1. v.span = Span(After) /\ setup.sched = "set" /\ v.span \in Nat
    BY <1>7, <1>8, <1>11
  <2>2. /\ left \in Limits
        /\ left = 0 <=> c.left = 0 \/ v.span = 0
        /\ c.left \in Nat => left \in Nat
        /\ left \in Lasting => c.left \in Lasting /\ v.span \in Lasting
    BY <1>2, <1>3, <1>4, <1>9, <1>11, <2>1, ShownLeftIs
  <2>3. left \in Limits \ {0} /\ left \in Nat
    BY <1>2, <1>3, <1>7, <2>1, <2>2
  <2>4. ASSUME left \in Lasting PROVE CoreRuns'
    <3>1. Windows' \in Lasting /\ Allowance' \in Lasting /\ Warning' \notin {0, 1}
      BY <1>3, <2>2, <2>4
    <3>2. Span(After) # 1
      BY <2>1, <2>2, <2>4 DEF Lasting
    <3> QED
      BY <1>2, <1>3, <1>5, <1>6, <1>8, <3>1, <3>2 DEF CoreRuns
  <2> QED
    BY <2>3, <2>4 DEF left
<1> QED
  BY <1>10, <1>11

\* The minutes of a named time of one's own are some, while the budget has some.
LEMMA OwnLeftIs ==
    ASSUME NEW c, NEW clk \in Nat, c.budget \in Limits
    PROVE  /\ OwnLeft(c, clk) \in Nat
           /\ c.budget # 0 => OwnLeft(c, clk) # 0
           /\ OwnLeft(c, clk) \in Lasting =>
                Span(clk) # 1 /\ (Tag(clk) \in Counts => c.budget \in Lasting)
<1> DEFINE s == Span(clk)
           b == c.budget
           m == T!MinUnbounded(b, s)
           x == OwnLeft(c, clk)
<1>1. s \in Nat \ {0} /\ s \in Limits /\ b \in Limits
  BY SpanIs DEF Limits
<1>2. x = IF Tag(clk) \in Counts THEN T!Min({s, m}) ELSE s
  BY DEF OwnLeft
<1> HIDE DEF s, b, x
<1>3. /\ m \in Nat /\ (m = 0 <=> b = 0)
      /\ m \in Lasting => b \in Lasting
  <2>1. s \in Nat
    BY <1>1
  <2> QED
    BY <1>1, <2>1, MinUnboundedIs, LastingIs
<1> HIDE DEF m
<1>4. T!Min({s, m}) = IF s <= m THEN s ELSE m
  BY <1>1, <1>3, OfTwo
<1>5. x \in Nat /\ (b # 0 => x # 0)
  BY <1>1, <1>2, <1>3, <1>4
<1>6. x \in Lasting => s # 1 /\ (Tag(clk) \in Counts => b \in Lasting)
  BY <1>1, <1>2, <1>3, <1>4 DEF Lasting, Limits
<1> QED
  BY <1>5, <1>6 DEF s, b, x

\* In a named time of one's own.
LEMMA OpensOwn ==
    ASSUME TimeTypes, NEW use \in BOOLEAN, NEW elsewhere \in BOOLEAN, NEW lost \in BOOLEAN,
           T!Iterate(use, elsewhere, lost), Shown.is = "named", ~Shown.pool
    PROVE  /\ out'.left \in Nat \ {0}
           /\ out'.left \in Lasting => OwnRuns'
<1> DEFINE c == Rest
           v == Shown
           l == Burnt
           down == Warning'
           left == out'.left
<1>1. setup \in TimeScenes /\ After \in Nat /\ v = T!Resolved(c, l, After)
  BY ClockIs DEF TimeTypes, Shown
<1>2. left = T!Left(c, v, down)
  BY OutLeftIs
<1>3. /\ down \in Countdowns /\ c.left \in Limits /\ c.locked \in BOOLEAN
      /\ Allowance' \in Limits /\ c.budget = Allowance'
      /\ ~c.locked => Allowance' # 0 /\ down # 0
      /\ c.locked /\ setup.sched # "unreadable" =>
           c.why = IF down = 0 THEN "standdown" ELSE IF Windows' = 0 THEN "schedule" ELSE "budget"
  BY RestSays
<1>4. v.is = "named" /\ ~v.pool
  OBVIOUS
<1>5. Tag(T!Clock)' = Tag(After) /\ Span(T!Clock)' = Span(After)
  BY NowIs
<1>6. setup' = setup
  BY IterateIs, Zenon
<1> HIDE DEF c, v, l, down, left
<1>7. /\ setup.sched = "set" /\ Tag(After) \in NamedTimes /\ Runs(Tag(After))
      /\ c.locked => c.why = "budget" /\ Tag(After) \notin Counts /\ v.left = Span(After)
      /\ ~c.locked => v.left = OwnLeft(c, After)
  <2>1. c.locked \in BOOLEAN /\ v.is = "named"
    BY <1>3, <1>4
  <2>2. ~v.pool => OwnOpens(v, c, After)
    BY <1>1, <2>1, NamedOpens
  <2> QED
    BY <1>4, <2>2 DEF OwnOpens
<1>8. down # 0
  BY <1>3, <1>7
<1>9. v.left \in Nat /\ v.left # 0
  BY <1>1, <1>3, <1>7, SpanIs, OwnLeftIs
<1>10. /\ left \in Nat /\ left # 0
       /\ left \in Lasting => v.left \in Lasting /\ down \notin {0, 1}
  BY <1>2, <1>3, <1>4, <1>8, <1>9, ShownLeftIs
<1>11. v.left \in Lasting => Span(After) # 1 /\ (Tag(After) \in Counts => Allowance' \in Lasting)
  <2>1. CASE c.locked
    BY <1>7, <2>1 DEF Lasting
  <2>2. CASE ~c.locked
    BY <1>1, <1>3, <1>7, <2>2, OwnLeftIs
  <2> QED
    BY <1>3, <2>1, <2>2
<1>12. ASSUME left \in Lasting PROVE OwnRuns'
  <2>1. Runs(Tag(T!Clock))' <=> Runs(Tag(After))
    BY <1>5, <1>6 DEF Runs
  <2>2. down \notin {0, 1} /\ Span(After) # 1 /\ (Tag(After) \in Counts => Allowance' \in Lasting)
    BY <1>10, <1>11, <1>12
  <2> QED
    BY <1>5, <1>6, <1>7, <2>1, <2>2 DEF OwnRuns, down
<1> QED
  BY <1>10, <1>12 DEF left

\* On a pool.
LEMMA OpensPool ==
    ASSUME TimeTypes, NEW use \in BOOLEAN, NEW elsewhere \in BOOLEAN, NEW lost \in BOOLEAN,
           T!Iterate(use, elsewhere, lost), Spends
    PROVE  /\ out'.left \in Nat \ {0}
           /\ out'.left \in Lasting => PoolRuns'
<1> DEFINE c == Rest
           v == Shown
           l == Burnt
           down == Warning'
           left == out'.left
           id == T!RecentPool(Burnt)
<1>1. setup \in TimeScenes /\ After \in Nat /\ v = T!Resolved(c, l, After)
      /\ l \in Ledgers /\ Numbered(l)
  BY ClockIs, BurntIs DEF TimeTypes, Shown
<1>2. left = T!Left(c, v, down)
  BY OutLeftIs
<1>3. /\ down \in Countdowns /\ c.left \in Limits /\ c.locked \in BOOLEAN
      /\ ~c.locked => down # 0
      /\ c.locked /\ setup.sched # "unreadable" =>
           c.why = IF down = 0 THEN "standdown" ELSE IF Windows' = 0 THEN "schedule" ELSE "budget"
  BY RestSays
<1>4. v.is = "named" /\ v.pool
  BY DEF Spends
<1>5. Tag(T!Clock)' = Tag(After)
  BY NowIs
<1>6. /\ setup' = setup /\ cap' = cap
      /\ ledger' = [l EXCEPT !.pools[v.id].left = T!AtLeastZero(@ - 1)]
  BY IterateIs, Zenon
<1>7. v.id \in NamedTimes
  BY ShownIs, TypesIterate DEF TimeTypes
<1>8. id = T!RecentPool(l)
  OBVIOUS
<1> HIDE DEF c, v, l, down, left, id
<1>9. /\ ~T!PoolProof /\ T!Pools(l) # {} /\ v.left = l.pools[id].left
      /\ setup.sched # "unreadable" /\ Tag(After) # "unknown"
      /\ c.why \in {"schedule", "budget"}
  <2>1. c.locked \in BOOLEAN /\ v.is = "named"
    BY <1>3, <1>4
  <2>2. v.pool => PoolOpens(v, c, l, After)
    BY <1>1, <2>1, NamedOpens
  <2> QED
    BY <1>4, <1>8, <2>2 DEF PoolOpens
<1>10. down # 0
  BY <1>3, <1>9
<1>11. id \in NamedTimes /\ l.pools[id].left \in Nat \ {0}
  <2>1. id \in T!Pools(l)
    BY <1>1, <1>8, <1>9, RecentIs
  <2> QED
    BY <1>1, <2>1 DEF T!Pools, Ledgers
<1>12. /\ left \in Nat /\ left # 0
       /\ left \in Lasting => v.left \in Lasting /\ down \notin {0, 1}
  BY <1>2, <1>3, <1>4, <1>9, <1>10, <1>11, ShownLeftIs
<1>13. ASSUME left \in Lasting PROVE PoolRuns'
  <2> DEFINE n == l.pools[id].left
             p == v.id
             k == T!AtLeastZero(l.pools[p].left - 1)
  <2>1. n \in Nat /\ n # 0 /\ n # 1
    BY <1>9, <1>11, <1>12, <1>13 DEF Lasting
  <2>2. ledger'.pools[id].left = IF p = id THEN k ELSE n
    <3>1. ledger' = [l EXCEPT !.pools[p].left = k]
      BY <1>6
    <3>2. p \in NamedTimes
      BY <1>7
    <3> HIDE DEF p, k
    <3> QED
      BY <1>1, <1>11, <3>1, <3>2 DEF Ledgers
  <2>3. p = id => k = n - 1
    BY <2>1 DEF T!AtLeastZero
  <2>4. ledger'.pools[id].left > 0
    <3> HIDE DEF n, p, k
    <3> QED
      BY <2>1, <2>2, <2>3
  <2>5. T!Pools(ledger') # {}
    BY <1>11, <2>4 DEF T!Pools
  <2>6. ~T!PoolProof'
    BY <1>6, <1>9 DEF T!PoolProof
  <2>7. T!Pools(ledger)' = T!Pools(ledger')
    BY DEF T!Pools
  <2> QED
    BY <1>5, <1>6, <1>9, <1>12, <1>13, <2>5, <2>6, <2>7 DEF PoolRuns, down
<1> QED
  BY <1>12, <1>13 DEF left

\* An unlocked minute leaves something to run on, unless the last one was announced.
OpenInv ==
  quiet /\ ~out.locked /\ out.left \notin {0, 1} =>
    IF ~out.named THEN CoreRuns ELSE IF out.pool THEN PoolRuns ELSE OwnRuns

LEMMA OpenAfter ==
    ASSUME TimeTypes, NEW use \in BOOLEAN, NEW elsewhere \in BOOLEAN, NEW lost \in BOOLEAN,
           T!Iterate(use, elsewhere, lost)
    PROVE  /\ OpenInv'
           /\ ~out'.locked => out'.left \in Limits \ {0} /\ Shown.is \in {"core", "named"}
           /\ ~out'.locked /\ (setup.sched = "set" \/ Shown.is = "named") => out'.left \in Nat
<1>1. Verdict(Shown, Rest, Burnt, After)
  BY ShownIs, TypesIterate DEF TimeTypes
<1>2. /\ out'.locked \in BOOLEAN /\ out'.named \in BOOLEAN /\ out'.pool \in BOOLEAN
      /\ out'.locked <=> (IF Shown.is = "core" THEN Rest.locked ELSE Shown.is = "locked")
      /\ out'.named <=> Shown.is = "named"
      /\ out'.pool <=> Spends
  BY OutIs
<1>3. Shown.is \in {"core", "locked", "named"} /\ (Shown.is = "named" => Shown.pool \in BOOLEAN)
  BY <1>1 DEF Verdict
<1>4. \A n \in Limits : n \notin {0, 1} => n \in Lasting
  BY DEF Lasting
<1>5. \A n \in Nat : n \in Limits
  BY DEF Limits
<1>6. CASE out'.locked
  BY <1>2, <1>6 DEF OpenInv
<1>7. CASE ~out'.locked /\ Shown.is = "core"
  <2>1. /\ out'.left \in Limits \ {0} /\ (setup.sched = "set" => out'.left \in Nat)
        /\ out'.left \in Lasting => CoreRuns'
    BY <1>7, OpensCore
  <2>2. ~out'.named
    BY <1>2, <1>7
  <2>3. OpenInv'
    BY <1>4, <2>1, <2>2 DEF OpenInv
  <2> QED
    BY <1>7, <2>1, <2>3
<1>8. CASE ~out'.locked /\ Shown.is = "named" /\ ~Spends
  <2>1. ~Shown.pool
    BY <1>8 DEF Spends
  <2>2. out'.left \in Nat \ {0} /\ (out'.left \in Lasting => OwnRuns')
    BY <1>8, <2>1, OpensOwn
  <2>3. out'.named /\ ~out'.pool
    BY <1>2, <1>8
  <2>4. OpenInv'
    BY <1>4, <1>5, <2>2, <2>3 DEF OpenInv
  <2> QED
    BY <1>5, <1>8, <2>2, <2>4
<1>9. CASE ~out'.locked /\ Spends
  <2>1. out'.left \in Nat \ {0} /\ (out'.left \in Lasting => PoolRuns')
    BY <1>9, OpensPool
  <2>2. out'.named /\ out'.pool /\ Shown.is = "named"
    BY <1>2, <1>9 DEF Spends
  <2>3. OpenInv'
    BY <1>4, <1>5, <2>1, <2>2 DEF OpenInv
  <2> QED
    BY <1>5, <1>9, <2>1, <2>2, <2>3
<1> QED
  BY <1>2, <1>3, <1>6, <1>7, <1>8, <1>9

\* A day of windows and nothing else.
PlainDay ==
  setup.sched = "set" => \A i \in DOMAIN setup.label : setup.label[i] \in {"closed", "free"}

\* On such a day the core has the last word while it does not lock.
LEMMA PlainSays ==
    ASSUME setup \in TimeScenes, PlainDay, NEW l, NEW c, c.locked \in BOOLEAN, ~c.locked,
           c.why = None, NEW clk \in Nat, NEW v, v = T!Resolved(c, l, clk)
    PROVE  v.is = "core" /\ v.span = None
<1>1. Said(v, c, l, clk)
  BY VerdictSays
<1>2. /\ setup.label \in [0 .. DayLen - 1 -> NamedTimes \cup {"closed", "free", "unknown"}]
      /\ setup.sched \in {"none", "paused", "unreadable", "set"}
  BY ScenesAssumption
<1>3. \A t \in Nat : setup.sched = "set" => T!Label(t) \in {"closed", "free"}
  BY <1>2, DaysAre DEF PlainDay, T!Label, T!Minute
<1>4. Tag(clk) \in {"closed", "free"}
  BY <1>3 DEF Tag
<1>5. CASE setup.sched = "paused" \/ Tag(clk) = "closed"
  <2>1. v = T!FallThrough(c, l, {"schedule", "budget"})
    BY <1>1, <1>5 DEF Said
  <2>2. c.why \notin {"schedule", "budget"}
    BY NamesAssumption
  <2>3. v = T!Core(None)
    BY <2>1, <2>2, FallThroughSays
  <2> QED
    BY <2>3, CoreSays
<1>6. CASE setup.sched = "set" /\ Tag(clk) = "free"
  <2>1. Ends(clk)
    <3> DEFINE m == T!Minute(clk)
               s == Span(clk)
    <3>1. s \in Nat \ {0} /\ m + s <= DayLen /\ (m + s < DayLen => setup.label[m + s] # "free")
      BY <1>6, SpanIs
    <3>2. m \in 0 .. DayLen - 1 /\ (m + s < DayLen => T!Minute(clk + s) = m + s)
      <4> HIDE DEF s
      <4> QED
        BY <3>1, MinutesPass
    <3> HIDE DEF m, s
    <3>3. CASE m + s = DayLen
      BY <3>3 DEF Ends, m, s
    <3>4. CASE m + s < DayLen
      <4>1. T!Label(clk + s) = setup.label[m + s]
        BY <3>2, <3>4 DEF T!Label
      <4>2. m + s \in DOMAIN setup.label
        BY <1>2, <3>1, <3>2, <3>4, DayLenAssumption
      <4>3. T!Label(clk + s) = "closed"
        BY <1>6, <3>1, <3>4, <4>1, <4>2 DEF PlainDay
      <4> QED
        BY <4>3 DEF Ends, s
    <3> QED
      BY <3>1, <3>2, <3>3, <3>4, DayLenAssumption
  <2>2. v = T!Core(None)
    BY <1>1, <1>6, <2>1 DEF Said
  <2> QED
    BY <2>2, CoreSays
<1>7. CASE setup.sched = "none" /\ Tag(clk) = "free"
  <2>1. v = T!Core(None)
    BY <1>1, <1>7 DEF Said
  <2> QED
    BY <2>1, CoreSays
<1>8. CASE setup.sched = "unreadable"
  <2>1. v = T!Core(None)
    BY <1>1, <1>8 DEF Said
  <2> QED
    BY <2>1, CoreSays
<1> QED
  BY <1>2, <1>4, <1>5, <1>6, <1>7, <1>8

-----------------------------------------------------------------------------
(* Warnings: what was announced. *)

\* Each layer's latch is a warning that still stands, the core's where the core owns them.
OneInv ==
  /\ tracker.one => told
  /\ PlainDay /\ core.one /\ ~core.locked => told

\* The last minutes of a child who is not locked were announced.
ToldInv == quiet /\ ~out.locked /\ out.left \in 0 .. One => told

\* What the core says of a decision and remembers (EnforcerCore::tick).
LEMMA TickSays ==
    ASSUME NEW c, c.locked \in BOOLEAN, NEW t, t = T!CoreTick(c)
    PROVE  /\ t.locked = c.locked
           /\ ~c.locked /\ c.left \in 0 .. One => t.says = "one" \/ (core.one /\ ~core.locked)
           /\ ~c.locked /\ t.one => c.left \in 0 .. One
<1> DEFINE thawed == core.locked /\ ~c.locked
           in == c.left \in 0 .. One
           one == core.one /\ ~thawed /\ (c.locked \/ in)
           ten == core.ten /\ ~thawed /\ (c.locked \/ c.left \in 0 .. Ten)
           oneDue == ~c.locked /\ in /\ ~one
           tenDue == ~c.locked /\ c.left \in 0 .. Ten /\ ~ten
           a == ten \/ tenDue
           b == one \/ oneDue
           s == IF oneDue THEN "one" ELSE IF tenDue THEN "ten" ELSE None
<1>1. t = [locked |-> c.locked, ten |-> a, one |-> b, says |-> s]
  BY DEF T!CoreTick
<1>2. b \in BOOLEAN
  OBVIOUS
<1>3. ~c.locked /\ in => s = "one" \/ (core.one /\ ~core.locked)
  OBVIOUS
<1>4. ~c.locked /\ b => in
  OBVIOUS
<1> HIDE DEF a, b, s, in
<1>5. t.locked = c.locked /\ t.one = b /\ t.says = s
  BY <1>1, <1>2
<1> QED
  BY <1>3, <1>4, <1>5 DEF in

\* What the times layer says of the minutes left and remembers (WarnTracker::observe).
LEMMA TrackSays ==
    ASSUME NEW v, NEW left, NEW locked, NEW t, t = T!Observed(v, left, locked)
    PROVE  /\ ~T!InPlay(v) \/ locked => ~t.one
           /\ T!InPlay(v) /\ ~locked /\ left \in Nat \ {0} =>
                /\ left <= One => t.says = "one" \/ tracker.one
                /\ t.one => t.says = "one" \/ (tracker.one /\ left <= One + 1)
<1>1. ASSUME ~T!InPlay(v) \/ locked PROVE ~t.one
  BY <1>1 DEF T!Observed, T!Forgotten
<1>2. ASSUME T!InPlay(v), ~locked, left \in Nat \ {0}
      PROVE  /\ left <= One => t.says = "one" \/ tracker.one
             /\ t.one => t.says = "one" \/ (tracker.one /\ left <= One + 1)
  <2> DEFINE key == IF v.is = "named" THEN v.id ELSE "free"
             same == tracker.key = key
             ten == same /\ tracker.ten /\ left <= Ten + 1
             one == same /\ tracker.one /\ left <= One + 1
  <2>1. ~(left <= 0)
    BY <1>2
  <2>2. t = IF left <= One /\ ~one THEN [key |-> key, ten |-> TRUE, one |-> TRUE, says |-> "one"]
            ELSE IF left <= Ten /\ ~ten THEN [key |-> key, ten |-> TRUE, one |-> one, says |-> "ten"]
            ELSE [key |-> key, ten |-> ten, one |-> one, says |-> None]
    BY <1>2, <2>1 DEF T!Observed
  <2>3. one \in BOOLEAN /\ (one => tracker.one /\ left <= One + 1)
    OBVIOUS
  <2> HIDE DEF key, same, ten, one
  <2>4. CASE left <= One /\ ~one
    <3>1. t.says = "one"
      BY <2>2, <2>4
    <3> QED
      BY <3>1
  <2>5. CASE ~(left <= One /\ ~one)
    <3> DEFINE yes == TRUE
               mid == [key |-> key, ten |-> yes, one |-> one, says |-> "ten"]
               end == [key |-> key, ten |-> ten, one |-> one, says |-> None]
    <3>0. mid.one = one /\ end.one = one /\ (t = mid \/ t = end)
      <4>1. mid.one = one /\ end.one = one
        <5> HIDE DEF yes
        <5> QED
          OBVIOUS
      <4>2. t = mid \/ t = end
        <5>1. t = IF left <= Ten /\ ~ten THEN mid ELSE end
          BY <2>2, <2>5
        <5> QED
          BY <5>1
      <4> QED
        BY <4>1, <4>2
    <3>1. t.one = one
      BY <3>0
    <3> QED
      BY <2>3, <2>5, <3>1
  <2> QED
    BY <2>4, <2>5
<1> QED
  BY <1>1, <1>2

\* After an iteration it is so again.
LEMMA ToldAfter ==
    ASSUME TimeTypes, OneInv, NEW use \in BOOLEAN, NEW elsewhere \in BOOLEAN, NEW lost \in BOOLEAN,
           T!Iterate(use, elsewhere, lost)
    PROVE  OneInv' /\ ToldInv'
<1> DEFINE left == T!Left(Rest, Shown, Warning')
           locked == T!LockedNow(Rest, Shown)
           says == IF T!InPlay(Shown) THEN tracker'.says ELSE core'.says
           c == Rest
           v == Shown
<1>1. T!Countdown(After) = Warning' /\ setup' = setup
  BY NowIs, IterateIs, Zenon
<1>2. /\ core' = T!CoreTick(c) /\ tracker' = T!Observed(v, left, locked)
      /\ told' = (~locked /\ (says = "one" \/ (told /\ left \in 0 .. One + T!Slack(v))))
  BY <1>1, IterateSays
<1>3. out'.left = left /\ out'.locked \in BOOLEAN /\ (out'.locked <=> locked)
  BY OutLeftIs
<1>4. /\ Warning' \in Countdowns /\ c.left \in Limits /\ c.locked \in BOOLEAN
      /\ (~c.locked => c.why = None)
  BY RestSays
<1>5. /\ ~out'.locked => out'.left \in Limits \ {0} /\ v.is \in {"core", "named"}
      /\ ~out'.locked /\ (setup.sched = "set" \/ v.is = "named") => out'.left \in Nat
  BY OpenAfter
<1>6. PlainDay /\ ~c.locked => v.is = "core" /\ v.span = None
  <2> SUFFICES ASSUME PlainDay, ~c.locked PROVE v.is = "core" /\ v.span = None
    OBVIOUS
  <2>1. setup \in TimeScenes /\ After \in Nat /\ v = T!Resolved(c, Burnt, After)
    BY ClockIs DEF TimeTypes, Shown
  <2> HIDE DEF c, v
  <2> QED
    BY <1>4, <2>1, PlainSays
<1>7. locked <=> (IF v.is = "core" THEN c.locked ELSE v.is = "locked")
  BY DEF T!LockedNow
<1>8. v.is = "core" /\ v.span = None => left = c.left
  <2> DEFINE down == Warning'
  <2>1. left = T!Left(c, v, down) /\ down \in Countdowns
    BY <1>4
  <2> HIDE DEF c, v, left, down
  <2> QED
    BY <1>4, <2>1, ShownLeftIs
<1>9. /\ T!InPlay(v) => ~PlainDay \/ v.is # "core"
      /\ ~T!InPlay(v) => PlainDay /\ v.is = "core"
      /\ T!InPlay(v) => setup.sched = "set" \/ v.is # "core"
  BY DEF T!InPlay, PlainDay
<1>10. T!Slack(v) = IF T!InPlay(v) THEN 1 ELSE 0
  BY DEF T!Slack
<1>11. PlainDay' <=> PlainDay
  BY <1>1 DEF PlainDay
<1>12. /\ core'.locked = c.locked
       /\ ~c.locked /\ c.left \in 0 .. One => core'.says = "one" \/ (core.one /\ ~core.locked)
       /\ ~c.locked /\ core'.one => c.left \in 0 .. One
  BY <1>2, <1>4, TickSays
<1>13. /\ ~T!InPlay(v) \/ locked => ~tracker'.one
       /\ T!InPlay(v) /\ ~locked /\ left \in Nat \ {0} =>
            /\ left <= One => tracker'.says = "one" \/ tracker.one
            /\ tracker'.one => tracker'.says = "one" \/ (tracker.one /\ left <= One + 1)
  <2> DEFINE t == tracker'
  <2>1. t = T!Observed(v, left, locked)
    BY <1>2
  <2> HIDE DEF v, left, locked, t
  <2>2. /\ ~T!InPlay(v) \/ locked => ~t.one
        /\ T!InPlay(v) /\ ~locked /\ left \in Nat \ {0} =>
             /\ left <= One => t.says = "one" \/ tracker.one
             /\ t.one => t.says = "one" \/ (tracker.one /\ left <= One + 1)
    BY <2>1, TrackSays
  <2> QED
    BY <2>2 DEF t
<1>14. One \in Nat \ {0}
  BY WarningsAssumption
<1> DEFINE play == T!InPlay(v)
           plain == PlainDay
<1>15. /\ told' <=> ~locked /\ (says = "one" \/ (told /\ left \in 0 .. One + T!Slack(v)))
       /\ (play => says = tracker'.says) /\ (~play => says = core'.says)
  BY <1>2
<1> HIDE DEF left, locked, says, c, v, play
<1>16. CASE locked
  <2>1. plain => c.locked
    BY <1>6, <1>7, <1>16
  <2>2. OneInv'
    BY <1>11, <1>12, <1>13, <1>16, <2>1 DEF OneInv
  <2>3. ToldInv'
    BY <1>3, <1>16 DEF ToldInv
  <2> QED
    BY <2>2, <2>3
<1>17. CASE ~locked /\ play
  <2>1. left \in Nat /\ left # 0
    BY <1>3, <1>5, <1>9, <1>17 DEF play
  <2>2. /\ left <= One => says = "one" \/ told
        /\ tracker'.one => says = "one" \/ (told /\ left <= One + 1)
    BY <1>13, <1>15, <1>17, <2>1 DEF OneInv, play
  <2>3. told' <=> says = "one" \/ (told /\ left <= One + 1)
    BY <1>10, <1>14, <1>15, <1>17, <2>1 DEF play
  <2>4. plain => c.locked
    BY <1>6, <1>9, <1>17 DEF play
  <2>5. OneInv'
    BY <1>11, <1>12, <2>2, <2>3, <2>4 DEF OneInv
  <2>6. left <= One => told'
    BY <1>14, <2>1, <2>2, <2>3
  <2>7. ToldInv'
    BY <1>3, <1>14, <2>1, <2>6 DEF ToldInv
  <2> QED
    BY <2>5, <2>7
<1>18. CASE ~locked /\ ~play
  <2>1. plain /\ ~c.locked /\ left = c.left
    BY <1>6, <1>7, <1>8, <1>9, <1>18 DEF play
  <2>2. left \in 0 .. One => told'
    BY <1>10, <1>12, <1>14, <1>15, <1>18, <2>1 DEF OneInv, play
  <2>3. OneInv'
    BY <1>11, <1>12, <1>13, <1>18, <2>1, <2>2 DEF OneInv, play
  <2>4. ToldInv'
    BY <1>3, <2>2 DEF ToldInv
  <2> QED
    BY <2>3, <2>4
<1> QED
  BY <1>16, <1>17, <1>18

-----------------------------------------------------------------------------
(* What a grant buys. *)

\* A budget that locks is spent, and a day without a grant has been given nothing.
SpentLock == quiet /\ out.locked /\ out.why = "budget" => Allowance = 0
BaseInv == ledger.base = None => ledger.give = 0

LEMMA SpentAfter ==
    ASSUME TimeTypes, NEW use \in BOOLEAN, NEW elsewhere \in BOOLEAN, NEW lost \in BOOLEAN,
           T!Iterate(use, elsewhere, lost)
    PROVE  SpentLock'
<1> SUFFICES ASSUME out'.why = "budget" PROVE Allowance' = 0
  BY DEF SpentLock
<1>1. Rest.why = "budget"
  <2>1. out'.why = IF Shown.is = "core" THEN Rest.why
                   ELSE IF Shown.is = "locked" THEN "schedule" ELSE None
    BY OutIs
  <2>2. None # "budget"
    BY NamesAssumption
  <2> QED
    BY <2>1, <2>2
<1>2. meter' \in Meters
  BY TypesIterate DEF TimeTypes
<1>3. PICK schedule \in Limits, budget \in Limits :
        /\ Rest = T!Breakdown(schedule, budget, T!Countdown(After))
        /\ budget = T!BudgetLeft(meter', view, Burnt, After)
  BY <1>2, RestIs
<1>4. budget = 0
  BY <1>1, <1>3, CountdownIs, BreakdownIs
<1>5. Allowance' = T!BudgetLeft(meter', view, Burnt, After)
  BY NowIs
<1> QED
  BY <1>3, <1>4, <1>5

\* The ledger of a day is of the grants that arrived on it.
LEMMA BaseIterates ==
    ASSUME TimeTypes, BaseInv, NEW use \in BOOLEAN, NEW elsewhere \in BOOLEAN,
           NEW lost \in BOOLEAN, T!Iterate(use, elsewhere, lost)
    PROVE  BaseInv'
<1>1. Rolled = (IF T!NewDay(T!Clock, After) THEN T!NewLedger ELSE ledger)
      /\ Burnt.base = Rolled.base /\ Burnt.give = Rolled.give /\ Burnt \in Ledgers
  BY BurntKeeps, BurntIs
<1>2. Burnt.base = None => Burnt.give = 0
  BY <1>1 DEF BaseInv, T!NewLedger
<1>3. ledger'.base = Burnt.base /\ ledger'.give = Burnt.give
  <2>1. ledger' = IF Spends THEN [Burnt EXCEPT !.pools[Shown.id].left = T!AtLeastZero(@ - 1)]
                  ELSE Burnt
    BY IterateIs, Zenon
  <2> DEFINE f == [Burnt.pools EXCEPT ![Shown.id].left = T!AtLeastZero(@ - 1)]
  <2>2. ledger' = [Burnt EXCEPT !.pools = f] \/ ledger' = Burnt
    BY <2>1
  <2> HIDE DEF f
  <2> QED
    BY <1>1, <2>2 DEF Ledgers
<1> QED
  BY <1>2, <1>3 DEF BaseInv

\* The first grant of a day notes where the debt stood.
LEMMA GiveIs ==
    ASSUME TimeTypes, NEW e, T!Give(e)
    PROVE  /\ cap' = cap /\ view' = view /\ e.n \in Nat
           /\ ledger' \in Ledgers /\ ledger'.take = ledger.take
           /\ ledger'.give = ledger.give + e.n
           /\ ledger.base # None => ledger'.base = ledger.base
           /\ ledger.base = None =>
                ledger'.base = [day |-> T!Used(meter), week |-> meter.past + T!Used(meter)]
           /\ ledger'.base # None
<1>1. e \in todo /\ e \in setup.events /\ setup \in TimeScenes
  BY ArrivalIs DEF Arrives, TimeTypes
<1>2. /\ e.do = "give" /\ cap' = cap /\ view' = view
      /\ ledger' = [ledger EXCEPT !.give = @ + e.n,
                      !.base = IF @ # None THEN @
                               ELSE [day |-> T!Used(meter), week |-> meter.past + T!Used(meter)]]
  BY Zenon DEF T!Give
<1>3. e.n \in Nat
  BY <1>1, <1>2, ScenesAssumption
<1> DEFINE noted == [day |-> T!Used(meter), week |-> meter.past + T!Used(meter)]
           base == IF ledger.base # None THEN ledger.base ELSE noted
           given == ledger.give + e.n
<1>4. ledger' = [ledger EXCEPT !.give = given, !.base = base]
  BY <1>2
<1>5. noted \in [day : Nat, week : Nat]
  BY UsedIs DEF TimeTypes, Meters
<1>6. base \in [day : Nat, week : Nat] \cup {None} /\ base # None /\ ledger \in Ledgers
      /\ given \in Nat
  BY <1>3, <1>5, NamesAssumption DEF TimeTypes, Ledgers
<1>7. (ledger.base # None => base = ledger.base) /\ (ledger.base = None => base = noted)
  OBVIOUS
<1> HIDE DEF base, noted, given
<1>8. ledger' \in Ledgers /\ ledger'.take = ledger.take /\ ledger'.give = given
      /\ ledger'.base = base
  BY <1>4, <1>6 DEF Ledgers
<1> QED
  BY <1>2, <1>3, <1>6, <1>7, <1>8 DEF noted, given

LEMMA BaseArrives ==
    ASSUME TimeTypes, BaseInv, NEW e, Arrives(e)
    PROVE  BaseInv'
<1>1. ledger \in Ledgers
  BY DEF TimeTypes
<1>2. CASE T!Give(e)
  BY <1>2, GiveIs DEF BaseInv
<1>3. CASE T!Take(e)
  <2>1. ledger' = [ledger EXCEPT !.take = @ + e.n] \/ ledger' = [ledger EXCEPT !.cut = @ + e.n]
    BY <1>3 DEF T!Take
  <2> QED
    BY <1>1, <2>1 DEF BaseInv, Ledgers
<1>4. CASE T!GiveHours(e)
  <2> DEFINE f == [ledger.pools EXCEPT ![e.id] =
                     [left |-> @.left + e.n,
                      at |-> 1 + T!Max({ledger.pools[j].at : j \in NamedTimes})]]
  <2>1. ledger' = [ledger EXCEPT !.hours = @ + e.n] \/ ledger' = [ledger EXCEPT !.pools = f]
    BY <1>4 DEF T!GiveHours
  <2> HIDE DEF f
  <2> QED
    BY <1>1, <2>1 DEF BaseInv, Ledgers
<1>5. CASE T!SyncView(e) \/ T!Order(e) \/ T!EditCap(e) \/ T!Restart(e) \/ T!ClockBack(e)
  <2>1. ledger' = ledger
    BY <1>5 DEF T!SyncView, T!Order, T!EditCap, T!Restart, T!ClockBack
  <2> QED
    BY <2>1 DEF BaseInv
<1> QED
  BY <1>2, <1>3, <1>4, <1>5 DEF Arrives

\* A cap raised to where the debt stood leaves the minutes given, or more where there was no
\* debt; it leaves just those where nothing was left before.
LEMMA PartGiven ==
    ASSUME NEW limit \in Nat, NEW used \in Nat, NEW given \in Nat
    PROVE  /\ T!Part(limit, None, 0, used) \in Int
           /\ T!Part(limit, used, given, used) \in Int
           /\ T!Part(limit, used, given, used) >= given
           /\ T!Part(limit, None, 0, used) <= 0 => T!Part(limit, used, given, used) = given
<1>1. used \in Nat \cup {None} /\ None \in Nat \cup {None} /\ 0 \in Int /\ given \in Int
  OBVIOUS
<1>2. used # None
  BY NamesAssumption
<1>3. T!Part(limit, None, 0, used) = limit - used
  <2>1. T!Part(limit, None, 0, used)
          = (IF None = None \/ limit >= None THEN limit ELSE None) + 0 - used
    BY <1>1, PartBy
  <2> QED
    BY <2>1
<1>4. T!Part(limit, used, given, used) = (IF limit >= used THEN limit ELSE used) + given - used
  BY <1>1, <1>2, PartBy
<1> QED
  BY <1>3, <1>4

\* A grant to a child the budget has locked buys its minutes.
LEMMA GrantBuys ==
    ASSUME TimeTypes, BaseInv, SpentLock, NEW e, T!Give(e), quiet, out.locked,
           out.why = "budget", cap.is = "plain", ledger.base = None, ledger.take = 0, view = None
    PROVE  T!BudgetLeft(meter, view, ledger', T!Clock) = e.n
<1> DEFINE c == T!Clock
           n == ledger'
           g == e.n
           u == T!Pooled(meter, view, c)
           d == DayPart(meter, ledger, c)
           w == WeekPart(meter, ledger, c)
           x == DayPart(meter, n, c)
           y == WeekPart(meter, n, c)
           was == Allowance
           is == T!BudgetLeft(meter, view, n, c)
<1>1. /\ g \in Nat /\ n \in Ledgers /\ n.take = 0 /\ n.give = g
      /\ n.base = [day |-> T!Used(meter), week |-> meter.past + T!Used(meter)]
      /\ n.base # None
  BY GiveIs DEF BaseInv
<1>2. meter \in Meters /\ ledger \in Ledgers
  BY DEF TimeTypes
<1>3. u.day \in Nat /\ u.week \in Nat
  BY <1>2, PooledIs
<1>4. u.day = T!Used(meter) /\ u.week = meter.past + T!Used(meter)
  <2>1. u.day = PooledDay(meter, c \div DayLen) /\ u.week = PooledWeek(meter)
    BY PooledBy
  <2>2. T!Used(meter) \in Nat /\ meter.past \in Nat
    BY <1>2, UsedIs DEF Meters
  <2> QED
    BY <2>1, <2>2 DEF PooledDay, PooledWeek
<1>5. was = 0
  BY DEF SpentLock
<1>6. /\ cap.day = None /\ cap.week = None => was = -1
      /\ cap.day # None /\ cap.week = None => was = T!AtLeastZero(d)
      /\ cap.day = None /\ cap.week # None => was = T!AtLeastZero(w)
      /\ cap.day # None /\ cap.week # None => was = T!AtLeastZero(IF d <= w THEN d ELSE w)
  <2>1. was = T!BudgetLeft(meter, view, ledger, c)
    BY DEF Allowance
  <2> HIDE DEF was, c
  <2> QED
    BY <1>2, <2>1, BudgetBy
<1>7. /\ cap.day # None /\ cap.week = None => is = T!AtLeastZero(x)
      /\ cap.day = None /\ cap.week # None => is = T!AtLeastZero(y)
      /\ cap.day # None /\ cap.week # None => is = T!AtLeastZero(IF x <= y THEN x ELSE y)
  <2> HIDE DEF n, c
  <2> QED
    BY <1>1, <1>2, BudgetBy
<1>8. /\ d = T!Part(cap.day, None, 0, u.day) /\ w = T!Part(cap.week, None, 0, u.week)
  <2>1. FloorOf(ledger).day = None /\ FloorOf(ledger).week = None
        /\ ledger.give - ledger.take = 0
    BY DEF FloorOf, NoFloor, BaseInv
  <2> QED
    BY <2>1 DEF DayPart, WeekPart
<1>9. /\ x = T!Part(cap.day, u.day, g, u.day) /\ y = T!Part(cap.week, u.week, g, u.week)
  <2>1. FloorOf(n).day = u.day /\ FloorOf(n).week = u.week
    BY <1>1, <1>4 DEF FloorOf
  <2>2. n.give - n.take = g
    BY <1>1
  <2> QED
    BY <2>1, <2>2 DEF DayPart, WeekPart
<1>10. cap.day \in Nat \cup {None} /\ cap.week \in Nat \cup {None}
  BY DEF TimeTypes, Caps
<1> HIDE DEF c, n, g, u, d, w, x, y, was, is
<1>11. cap.day # None => d \in Int /\ x \in Int /\ x >= g /\ (d <= 0 => x = g)
  <2> DEFINE a == cap.day
             k == u.day
  <2>1. a # None => a \in Nat
    BY <1>10
  <2>2. k \in Nat
    BY <1>3
  <2>3. d = T!Part(a, None, 0, k) /\ x = T!Part(a, k, g, k)
    BY <1>8, <1>9
  <2> HIDE DEF a, k
  <2>4. a # None => d \in Int /\ x \in Int /\ x >= g /\ (d <= 0 => x = g)
    BY <1>1, <2>1, <2>2, <2>3, PartGiven
  <2> QED
    BY <2>4 DEF a
<1>12. cap.week # None => w \in Int /\ y \in Int /\ y >= g /\ (w <= 0 => y = g)
  <2> DEFINE a == cap.week
             k == u.week
  <2>1. a # None => a \in Nat
    BY <1>10
  <2>2. k \in Nat
    BY <1>3
  <2>3. w = T!Part(a, None, 0, k) /\ y = T!Part(a, k, g, k)
    BY <1>8, <1>9
  <2> HIDE DEF a, k
  <2>4. a # None => w \in Int /\ y \in Int /\ y >= g /\ (w <= 0 => y = g)
    BY <1>1, <2>1, <2>2, <2>3, PartGiven
  <2> QED
    BY <2>4 DEF a
<1>13. is = g
  BY <1>1, <1>5, <1>6, <1>7, <1>11, <1>12 DEF T!AtLeastZero
<1> QED
  BY <1>13 DEF is, n, g, c

\* A view's journal stays within what its device has used.
LEMMA SlotsKept ==
    ASSUME TimeTypes, SlotsInv, view' = view \/ \E e : T!SyncView(e)
    PROVE  SlotsInv'
<1>1. CASE view' = view
  BY <1>1 DEF SlotsInv
<1>2. CASE \E e : T!SyncView(e)
  <2>1. PICK e : T!SyncView(e)
    BY <1>2
  <2> DEFINE slots == IF e.journal THEN T!Slots(away.own) ELSE None
             used == T!Used(away)
             day == T!Clock \div DayLen
             week == away.past + T!Used(away)
  <2>2. view' = [day |-> day, used |-> used, week |-> week, slots |-> slots]
    BY <2>1 DEF T!SyncView
  <2>3. slots # None => Cardinality(slots) <= used
    <3>1. /\ used = Cardinality(away.own) + away.cross /\ IsFiniteSet(away.own)
          /\ Cardinality(away.own) \in Nat
      BY UsedIs DEF TimeTypes
    <3>2. /\ Cardinality(T!Slots(away.own)) <= Cardinality(away.own)
          /\ Cardinality(T!Slots(away.own)) \in Nat
      BY <3>1, SlotsAre
    <3>3. away.cross \in Nat
      BY DEF TimeTypes, Meters
    <3>4. Cardinality(T!Slots(away.own)) <= used
      BY <3>1, <3>2, <3>3
    <3> QED
      BY <3>4
  <2> HIDE DEF slots, used, day, week
  <2>4. view'.slots = slots /\ view'.used = used
    BY <2>2
  <2> QED
    BY <2>3, <2>4 DEF SlotsInv
<1> QED
  BY <1>1, <1>2

\* The label a minute on: the same where it goes on, and that of the next day's first else.
LEMMA TagNext ==
    ASSUME TimeTypes, setup.sched = "set"
    PROVE  /\ Span(T!Clock) # 1 => Tag(After) = Tag(T!Clock) /\ ~T!NewDay(T!Clock, After)
           /\ Span(T!Clock) = 1 /\ Ends(T!Clock) /\ ~T!NewDay(T!Clock, After) =>
                Tag(After) = "closed"
<1> DEFINE c == T!Clock
           m == T!Minute(c)
<1>1. c \in Nat /\ After = c + 1
  BY ClockIs
<1>2. Tag(After) = setup.label[T!Minute(After)] /\ Tag(c) = setup.label[m]
  BY DEF Tag, T!Label
<1>3. /\ m + 1 < DayLen => T!Minute(After) = m + 1 /\ ~T!NewDay(c, After)
      /\ ~T!NewDay(c, After) => m + 1 < DayLen
  <2>1. 1 \in Nat
    OBVIOUS
  <2>2. /\ T!Minute(c) + 1 < DayLen => T!Minute(c + 1) = T!Minute(c) + 1
        /\ T!Minute(c) + 1 < DayLen => ~T!NewDay(c, c + 1)
        /\ ~T!NewDay(c, c + 1) => T!Minute(c) + 1 < DayLen
    <3> HIDE DEF c
    <3> QED
      BY <1>1, <2>1, MinutesPass
  <2> QED
    BY <1>1, <2>2
<1>4. Span(c) # 1 => m + 1 < DayLen /\ setup.label[m + 1] = Tag(c)
  BY <1>1, SpanIs
<1>5. Span(c) # 1 => Tag(After) = Tag(c) /\ ~T!NewDay(c, After)
  BY <1>2, <1>3, <1>4
<1>6. ASSUME Span(c) = 1, Ends(c), ~T!NewDay(c, After) PROVE Tag(After) = "closed"
  <2>1. m + 1 < DayLen /\ m \in 0 .. DayLen - 1
    BY <1>1, <1>3, <1>6, DaysAre DEF T!Minute
  <2>2. m + 1 # DayLen
    BY <2>1, DayLenAssumption
  <2>3. T!Label(c + 1) = "closed"
    BY <1>6, <2>2 DEF Ends
  <2> QED
    BY <1>1, <2>3 DEF Tag
<1> QED
  BY <1>5, <1>6

\* What RunsOn says of an iteration.
LEMMA OpensAgain ==
    ASSUME TimeTypes, NEW use \in BOOLEAN, NEW elsewhere \in BOOLEAN, NEW lost \in BOOLEAN,
           T!Iterate(use, elsewhere, lost),
           StaysOpen(Rest, Burnt, After)
    PROVE  ~out'.locked
<1> DEFINE c == Rest
           v == Shown
           l == Burnt
<1>1. setup \in TimeScenes /\ After \in Nat /\ v = T!Resolved(c, l, After)
  BY ClockIs DEF TimeTypes, Shown
<1>2. c.locked \in BOOLEAN
  BY RestSays
<1>3. StaysOpen(c, l, After)
  OBVIOUS
<1>4. ~T!LockedNow(c, v)
  <2> HIDE DEF c, v, l
  <2> QED
    BY <1>1, <1>2, <1>3, RunsOn
<1> QED
  BY <1>4, OutLeftIs

-----------------------------------------------------------------------------
(* Warnings: what runs on, unless an exception is met. *)

\* Under the core, unless what was given lapses at midnight or hours end with their window.
LEMMA CoreRunsOn ==
    ASSUME TimeTypes, ViewInv, SlotsInv, CoreRuns,
           NEW use \in BOOLEAN, NEW elsewhere \in BOOLEAN, NEW lost \in BOOLEAN,
           T!Iterate(use, elsewhere, lost),
           T!NewDay(T!Clock, After) => ledger = T!NewLedger,
           ledger.hours > 0 => (T!ScheduleClosed(T!Clock) <=> T!ScheduleClosed(After))
    PROVE  ~out'.locked
<1> DEFINE c == T!Clock
<1>1. /\ c \in Nat /\ After \in Nat /\ setup \in TimeScenes /\ ledger \in Ledgers
  BY ClockIs DEF TimeTypes
<1>2. /\ Windows' = T!ScheduleLeft(T!ScheduleBase(After), Burnt, After)
      /\ Allowance' = T!BudgetLeft(meter', view, Burnt, After)
      /\ Warning' = T!Countdown(After)
  BY NowIs
<1>3. Windows' # 0 /\ (setup.sched # "none" => ~T!NewDay(c, After))
  <2> DEFINE w == Windows'
  <2>1. w = T!ScheduleLeft(T!ScheduleBase(After), Burnt, After)
    BY <1>2
  <2> HIDE DEF w
  <2>2. w # 0 /\ (setup.sched # "none" => ~T!NewDay(T!Clock, After))
    BY <2>1, WindowsLast DEF CoreRuns
  <2> QED
    BY <2>2 DEF w
<1>4. Allowance' # 0
  <2>1. PICK b : meter' = T!Charged(T!RolledMeter(meter, T!Clock, After), After, b)
    BY IterateIs, Zenon
  <2> QED
    BY <1>2, <2>1, AllowanceLasts DEF CoreRuns
<1>5. Warning' # 0
  BY <1>2, WarningLasts DEF CoreRuns
<1>6. ~Rest.locked /\ Rest.why = None
  BY <1>3, <1>4, <1>5, RestSays
<1>7. /\ Tag(After) \in NamedTimes \cup {"closed", "free", "unknown"}
      /\ setup.sched # "set" => Tag(After) = "free"
      /\ {"closed", "free", "unknown"} \cap NamedTimes = {}
  BY <1>1, TagIs
<1>8. setup.sched = "set" /\ Tag(c) = "closed" => Tag(After) = "closed"
  <2> SUFFICES ASSUME setup.sched = "set", Tag(c) = "closed" PROVE Tag(After) = "closed"
    OBVIOUS
  <2>1. T!ScheduleClosed(c)
    BY <1>1, WindowsAre
  <2>2. Windows <= Base(c) + ledger.hours - ledger.cut \/ Windows = 0
    BY <1>1, WindowsAre DEF Windows
  <2>3. Base(c) = 0
    BY <2>1 DEF Base
  <2>4. Windows \in Int /\ Windows > 0
    <3>1. Windows \in Nat
      BY <1>1, WindowsAre DEF Windows
    <3>2. Windows # 0
      BY DEF CoreRuns, Lasting
    <3> QED
      BY <3>1, <3>2
  <2>5. ledger.hours > 0
    <3>1. ledger.hours \in Nat /\ ledger.cut \in Nat
      BY <1>1 DEF Ledgers
    <3> QED
      BY <2>2, <2>3, <2>4, <3>1
  <2>6. T!ScheduleClosed(After)
    BY <2>1, <2>5
  <2> QED
    BY <1>1, <2>6, WindowsAre
<1>9. setup.sched = "set" /\ Tag(c) = "free" => Tag(After) \in {"free", "closed"}
  BY <1>3, TagNext DEF CoreRuns
<1>10. Tag(After) \in {"free", "closed"}
  BY <1>7, <1>8, <1>9 DEF CoreRuns
<1>11. StaysOpen(Rest, Burnt, After)
  BY <1>6, <1>7, <1>10 DEF StaysOpen, CoreRuns
<1> QED
  BY <1>11, OpensAgain

\* In a named time of one's own, unless minutes were taken back from the window or what was
\* given lapses at midnight.
LEMMA OwnRunsOn ==
    ASSUME TimeTypes, ViewInv, SlotsInv, OwnRuns, ledger.cut = 0,
           NEW use \in BOOLEAN, NEW elsewhere \in BOOLEAN, NEW lost \in BOOLEAN,
           T!Iterate(use, elsewhere, lost)
    PROVE  ~out'.locked
<1> DEFINE c == T!Clock
           tag == Tag(After)
<1>1. After \in Nat /\ setup \in TimeScenes
  BY ClockIs DEF TimeTypes
<1>2. /\ Windows' = T!ScheduleLeft(T!ScheduleBase(After), Burnt, After)
      /\ Allowance' = T!BudgetLeft(meter', view, Burnt, After)
      /\ Warning' = T!Countdown(After)
  BY NowIs
<1>3. tag = Tag(c) /\ ~T!NewDay(c, After)
  BY TagNext DEF OwnRuns
<1>4. /\ setup.sched = "set" /\ tag \in NamedTimes /\ Runs(tag)
      /\ tag \in Counts => Allowance \in Lasting
  BY <1>3 DEF OwnRuns
<1>5. tag # "closed" /\ tag # "unknown"
  BY <1>4, NamesAssumption
<1>6. Windows' # 0
  BY <1>2, <1>4, <1>5, WindowsOpen
<1>7. tag \in Counts => Allowance' # 0
  <2>1. PICK b : meter' = T!Charged(T!RolledMeter(meter, T!Clock, After), After, b)
    BY IterateIs, Zenon
  <2> QED
    BY <1>2, <1>3, <1>4, <2>1, AllowanceLasts
<1>8. Warning' # 0
  BY <1>2, WarningLasts DEF OwnRuns
<1>9. /\ Rest.locked \in BOOLEAN
      /\ ~Rest.locked => Rest.why = None
      /\ Rest.locked => Rest.why = "budget" /\ tag \notin Counts
  <2>1. /\ Rest.locked \in BOOLEAN
        /\ ~Rest.locked => Rest.why = None
        /\ Windows' # 0 /\ Allowance' # 0 /\ Warning' # 0 => ~Rest.locked
        /\ Rest.locked /\ setup.sched # "unreadable" =>
             Rest.why = IF Warning' = 0 THEN "standdown"
                        ELSE IF Windows' = 0 THEN "schedule" ELSE "budget"
    BY RestSays
  <2> HIDE DEF tag
  <2> QED
    BY <1>4, <1>6, <1>7, <1>8, <2>1
<1>10. StaysOpen(Rest, Burnt, After)
  BY <1>4, <1>5, <1>9 DEF StaysOpen
<1> QED
  BY <1>10, OpensAgain

\* On a pool, unless the label changes, what a named time allows is not known, or minutes were
\* taken back from the window.
LEMMA PoolRunsOn ==
    ASSUME TimeTypes, PoolRuns, ledger.cut = 0, setup.inventory,
           T!Label(T!Clock) = T!Label(After), T!NewDay(T!Clock, After) => ledger = T!NewLedger,
           NEW use \in BOOLEAN, NEW elsewhere \in BOOLEAN, NEW lost \in BOOLEAN,
           T!Iterate(use, elsewhere, lost)
    PROVE  ~out'.locked
<1> DEFINE c == T!Clock
           tag == Tag(After)
<1>1. After \in Nat /\ setup \in TimeScenes
  BY ClockIs DEF TimeTypes
<1>2. /\ Windows' = T!ScheduleLeft(T!ScheduleBase(After), Burnt, After)
      /\ Warning' = T!Countdown(After)
  BY NowIs
<1>3. tag = Tag(c) /\ tag # "unknown"
  BY DEF Tag, PoolRuns
<1>4. ledger # T!NewLedger
  BY DEF PoolRuns, T!Pools, T!NewLedger, T!NoPool
<1>5. T!Pools(Burnt) # {}
  <2>1. Burnt.pools = ledger.pools
    BY <1>4, BurntKeeps, BurntIs
  <2> QED
    BY <2>1 DEF PoolRuns, T!Pools
<1>6. setup.sched \in {"none", "paused", "set"}
  BY <1>1, TagIs DEF PoolRuns
<1>7. setup.sched # "paused" /\ tag # "closed" => Windows' # 0
  BY <1>2, <1>6, WindowsOpen
<1>8. Warning' # 0
  BY <1>2, WarningLasts DEF PoolRuns
<1>9. /\ Rest.locked \in BOOLEAN
      /\ ~Rest.locked => Rest.why = None
      /\ Rest.locked =>
           \/ Rest.why = "budget"
           \/ Rest.why = "schedule" /\ (setup.sched = "paused" \/ tag = "closed")
  <2>1. /\ Rest.locked \in BOOLEAN
        /\ ~Rest.locked => Rest.why = None
        /\ Rest.locked /\ setup.sched # "unreadable" =>
             Rest.why = IF Warning' = 0 THEN "standdown"
                        ELSE IF Windows' = 0 THEN "schedule" ELSE "budget"
    BY RestSays
  <2> HIDE DEF tag
  <2> QED
    BY <1>6, <1>7, <1>8, <2>1
<1>10. StaysOpen(Rest, Burnt, After)
  <2>1. ~T!PoolProof /\ Runs(tag)
    BY DEF PoolRuns, Runs
  <2> QED
    BY <1>3, <1>5, <1>6, <1>9, <2>1 DEF StaysOpen
<1> QED
  BY <1>10, OpensAgain

-----------------------------------------------------------------------------
(* Warnings: the invariant. *)

\* A lock in a minute that was neither announced nor an exception has no cause left.
LEMMA Forewarned ==
    ASSUME TimeTypes, ViewInv, SlotsInv, ToldInv, OpenInv, T!Next, time' = time + 1, quiet,
           ~out.locked, out'.locked
    PROVE  \/ told
           \/ T!NewDay(T!Clock, T!Clock + 1) /\ ledger # T!NewLedger
           \/ out.pool /\ (T!Label(T!Clock) # T!Label(T!Clock + 1) \/ ~setup.inventory)
           \/ ledger.hours > 0 /\ T!ScheduleClosed(T!Clock) # T!ScheduleClosed(T!Clock + 1)
           \/ ledger.cut > 0 /\ out.named
<1>1. PICK use \in BOOLEAN, elsewhere \in BOOLEAN, lost \in BOOLEAN :
        T!Iterate(use, elsewhere, lost)
  <2>1. \A e : ~Arrives(e)
    <3> SUFFICES ASSUME NEW e, Arrives(e) PROVE FALSE
      OBVIOUS
    <3>1. time' = time /\ time \in Nat
      BY ArrivalIs DEF TimeTypes
    <3> QED
      BY <3>1
  <2> QED
    BY <2>1 DEF T!Next, Arrives
<1>2. SUFFICES ASSUME ~told, ~(T!NewDay(T!Clock, After) /\ ledger # T!NewLedger),
                      ~(out.pool /\ (T!Label(T!Clock) # T!Label(After) \/ ~setup.inventory)),
                      ~(ledger.hours > 0 /\ T!ScheduleClosed(T!Clock) # T!ScheduleClosed(After)),
                      ~(ledger.cut > 0 /\ out.named)
               PROVE  FALSE
  BY DEF After
<1>3. out.left \notin {0, 1}
  <2>1. One \in Nat \ {0}
    BY WarningsAssumption
  <2> QED
    BY <1>2, <2>1 DEF ToldInv
<1>4. ledger.cut \in Nat
  BY DEF TimeTypes, Ledgers
<1>5. CASE ~out.named
  <2>1. CoreRuns
    BY <1>3, <1>5 DEF OpenInv
  <2>2. T!NewDay(T!Clock, After) => ledger = T!NewLedger
    BY <1>2
  <2>3. ledger.hours > 0 => (T!ScheduleClosed(T!Clock) <=> T!ScheduleClosed(After))
    BY <1>2
  <2> QED
    BY <1>1, <2>1, <2>2, <2>3, CoreRunsOn
<1>6. ASSUME out.named PROVE ledger.cut = 0
  BY <1>2, <1>4, <1>6
<1>7. CASE out.named /\ out.pool
  <2>1. PoolRuns
    BY <1>3, <1>7 DEF OpenInv
  <2>2. setup.inventory /\ T!Label(T!Clock) = T!Label(After)
    BY <1>2, <1>7
  <2>3. T!NewDay(T!Clock, After) => ledger = T!NewLedger
    BY <1>2
  <2> QED
    BY <1>1, <1>6, <1>7, <2>1, <2>2, <2>3, PoolRunsOn
<1>8. CASE out.named /\ ~out.pool
  <2>1. OwnRuns
    BY <1>3, <1>8 DEF OpenInv
  <2> QED
    BY <1>1, <1>6, <1>8, <2>1, OwnRunsOn
<1> QED
  BY <1>5, <1>7, <1>8

\* The inductive invariant of what a child is given and told.
WarnInv ==
  TimeInv /\ SlotsInv /\ BaseInv /\ SpentLock /\ OpenInv /\ OneInv /\ ToldInv

LEMMA WarnInit == T!Init => WarnInv
<1> SUFFICES ASSUME T!Init PROVE WarnInv
  OBVIOUS
<1>1. TimeInv
  BY TimeInit
<1>2. view = None /\ ledger = T!NewLedger /\ ~quiet /\ tracker = T!Forgotten /\ ~core.one
  BY DEF T!Init
<1>3. SlotsInv /\ BaseInv
  BY <1>2 DEF SlotsInv, BaseInv, T!NewLedger
<1>4. SpentLock /\ OpenInv /\ ToldInv
  BY <1>2 DEF SpentLock, OpenInv, ToldInv
<1>5. OneInv
  BY <1>2 DEF OneInv, T!Forgotten
<1> QED
  BY <1>1, <1>3, <1>4, <1>5 DEF WarnInv

\* What arrives leaves the latches to their warnings, and a restart takes both.
LEMMA OneArrives ==
    ASSUME OneInv, NEW e, Arrives(e)
    PROVE  OneInv'
<1>1. setup' = setup
  BY ArrivalIs
<1>2. PlainDay' <=> PlainDay
  BY <1>1 DEF PlainDay
<1>3. CASE T!Restart(e)
  <2>1. ~tracker'.one /\ ~core'.one
    BY <1>3 DEF T!Restart, T!Forgotten
  <2> QED
    BY <2>1 DEF OneInv
<1>4. CASE ~T!Restart(e)
  <2>1. core' = core /\ tracker' = tracker /\ told' = told
    BY <1>4 DEF Arrives, T!Give, T!Take, T!GiveHours, T!SyncView, T!Order, T!EditCap,
                T!ClockBack, T!Takes
  <2> QED
    BY <1>2, <2>1 DEF OneInv
<1> QED
  BY <1>3, <1>4

LEMMA WarnStep ==
    ASSUME WarnInv, T!Next
    PROVE  WarnInv'
<1>1. TimeInv /\ TimeTypes /\ SlotsInv /\ BaseInv /\ OneInv
  BY DEF WarnInv, TimeInv
<1>2. TimeInv'
  BY <1>1, TimeStep
<1>3. ASSUME NEW use \in BOOLEAN, NEW elsewhere \in BOOLEAN, NEW lost \in BOOLEAN,
             T!Iterate(use, elsewhere, lost)
      PROVE  WarnInv'
  <2>1. view' = view
    BY <1>3, IterateIs, Zenon
  <2>2. SlotsInv' /\ BaseInv'
    BY <1>1, <1>3, <2>1, SlotsKept, BaseIterates
  <2>3. SpentLock' /\ OpenInv'
    BY <1>1, <1>3, SpentAfter, OpenAfter
  <2>4. OneInv' /\ ToldInv'
    BY <1>1, <1>3, ToldAfter
  <2> QED
    BY <1>2, <2>2, <2>3, <2>4 DEF WarnInv
<1>4. ASSUME NEW e, Arrives(e) PROVE WarnInv'
  <2>1. view' = view \/ T!SyncView(e)
    BY <1>4 DEF Arrives, T!Give, T!Take, T!GiveHours, T!Order, T!EditCap, T!Restart, T!ClockBack
  <2>2. SlotsInv' /\ BaseInv' /\ OneInv'
    BY <1>1, <1>4, <2>1, SlotsKept, BaseArrives, OneArrives
  <2>3. quiet' = FALSE
    BY <1>4, ArrivalIs
  <2>4. SpentLock' /\ OpenInv' /\ ToldInv'
    BY <2>3 DEF SpentLock, OpenInv, ToldInv
  <2> QED
    BY <1>2, <2>2, <2>4 DEF WarnInv
<1> QED
  BY <1>3, <1>4 DEF T!Next, Arrives

LEMMA WarnRests ==
    ASSUME WarnInv, UNCHANGED timeVars
    PROVE  WarnInv'
<1>1. /\ setup' = setup /\ time' = time /\ slow' = slow /\ meter' = meter /\ view' = view
      /\ ledger' = ledger /\ cap' = cap /\ order' = order /\ gracePin' = gracePin
      /\ core' = core /\ tracker' = tracker /\ out' = out /\ told' = told /\ quiet' = quiet
  BY DEF timeVars
<1>2. TimeInv'
  BY TimeRests DEF WarnInv
<1>3. SlotsInv' /\ BaseInv'
  BY <1>1 DEF WarnInv, SlotsInv, BaseInv
<1>4. OneInv' /\ ToldInv'
  BY <1>1 DEF WarnInv, OneInv, ToldInv, PlainDay
<1>5. T!Clock' = T!Clock
  BY <1>1 DEF T!Clock
<1>6. Windows' = Windows /\ Allowance' = Allowance /\ Warning' = Warning
  <2>1. Windows' = Windows
    BY <1>1, <1>5 DEF Windows, T!ScheduleLeft, T!ScheduleBase, T!Until, T!Label, T!Minute
  <2>2. Allowance' = Allowance
    BY <1>1, <1>5 DEF Allowance, T!BudgetLeft, T!QuotaParts, T!Pooled, T!Used, T!Slots, T!Part
  <2>3. Warning' = Warning
    BY <1>1, <1>5 DEF Warning, T!Countdown, T!Stands, T!Started
  <2> QED
    BY <2>1, <2>2, <2>3
<1>7. SpentLock'
  BY <1>1, <1>6 DEF WarnInv, SpentLock
<1>8. OpenInv'
  BY <1>1, <1>5, <1>6
     DEF WarnInv, OpenInv, CoreRuns, OwnRuns, PoolRuns, Tag, Span, Ends, Runs, T!Until, T!Label,
         T!Minute, T!Pools, T!PoolProof
<1> QED
  BY <1>2, <1>3, <1>4, <1>7, <1>8 DEF WarnInv

\* What a step of the computer gives a child, and what it tells them.
Buys ==
  \A e \in todo :
    /\ T!Give(e) /\ quiet /\ out.locked /\ out.why = "budget"
    /\ cap.is = "plain" /\ ledger.base = None /\ ledger.take = 0
    /\ view = None
    => T!BudgetLeft(meter, view, ledger', T!Clock) = e.n
Tells ==
  time' = time + 1 /\ quiet /\ ~out.locked /\ out'.locked =>
    \/ told
    \/ T!NewDay(T!Clock, T!Clock + 1) /\ ledger # T!NewLedger
    \/ out.pool /\ (T!Label(T!Clock) # T!Label(T!Clock + 1) \/ ~setup.inventory)
    \/ ledger.hours > 0 /\ T!ScheduleClosed(T!Clock) # T!ScheduleClosed(T!Clock + 1)
    \/ ledger.cut > 0 /\ out.named

LEMMA WarnedStep ==
    ASSUME WarnInv, [DeviceNext]_<<part, vars, timeVars, pairingVars>>
    PROVE  [Buys]_(T!vars) /\ [Tells]_(T!vars)
<1>1. T!Next \/ UNCHANGED timeVars
  BY DEF DeviceNext
<1>2. CASE UNCHANGED timeVars
  <2>1. UNCHANGED T!vars
    BY <1>2 DEF timeVars, T!vars
  <2> QED
    BY <2>1
<1>3. CASE T!Next
  <2>1. TimeTypes /\ ViewInv /\ SlotsInv /\ BaseInv /\ SpentLock /\ OpenInv /\ ToldInv
    BY DEF WarnInv, TimeInv
  <2>2. Buys
    BY <2>1, GrantBuys DEF Buys
  <2>3. Tells
    BY <1>3, <2>1, Forewarned DEF Tells
  <2> QED
    BY <2>2, <2>3
<1> QED
  BY <1>1, <1>2, <1>3

\* The inductive invariant of warnings, on a computer of whatever parts: what an unlocked
\* minute has left to run on, which latch stands for a warning, and where a spent budget
\* and a first grant leave the ledger (EnforcerCore::tick, WarnTracker, apply_extension).
THEOREM WarnInvHolds == DeviceSpec => []WarnInv
<1>1. DeviceInit => WarnInv
  BY WarnInit DEF DeviceInit
<1>2. WarnInv /\ [DeviceNext]_<<part, vars, timeVars, pairingVars>> => WarnInv'
  BY WarnStep, WarnRests DEF DeviceNext
<1> QED
  BY <1>1, <1>2, PTL DEF DeviceSpec

\* A day's first grant to a child the budget has locked buys every minute it says, and no
\* child is locked in a minute whose end was not announced, but where the code announces too
\* much: for any day, cap, scene and order of what arrives (apply_extension, left_of,
\* EnforcerCore::tick, WarnTracker::observe).
THEOREM MinutesAreBoughtAndToldHolds == DeviceSpec => MinutesAreBoughtAndTold
<1>1. WarnInv /\ [DeviceNext]_<<part, vars, timeVars, pairingVars>> =>
        [Buys]_(T!vars) /\ [Tells]_(T!vars)
  BY WarnedStep
<1> QED
  BY <1>1, WarnInvHolds, PTL
     DEF DeviceSpec, MinutesAreBoughtAndTold, T!MinutesAreBoughtAndTold, T!GrantBuysItsMinutes,
         T!LockIsForewarned, Buys, Tells

-----------------------------------------------------------------------------
(* Hours: the label of a wall minute. *)

\* A clause, a timezone and an instant.
HoursInv == sched \in Schedules /\ zone \in Zones /\ now \in Nat

\* The windows of a wall minute's day, the label it has, and whether one of them starts or
\* ends at it.
Wins(w) == DayWindows(sched, w \div DayLen)
OnWall(w) == LabelAt(Wins(w), w % DayLen)
IsEdge(w) == w % DayLen \in Boundaries(Wins(w))

\* A day's windows are over before its last minute.
LEMMA DayWindowsAre ==
    ASSUME HoursInv, NEW d \in Nat, NEW wins, wins = DayWindows(sched, d)
    PROVE  /\ DOMAIN wins \subseteq Nat
           /\ \A i \in DOMAIN wins :
                /\ wins[i].start \in 0 .. DayLen - 1 /\ wins[i].end \in 0 .. DayLen - 1
                /\ wins[i].start < wins[i].end
           /\ Boundaries(wins) \subseteq 0 .. DayLen - 1
<1> DEFINE raw == IF d \in DOMAIN sched.overrides THEN sched.overrides[d]
                  ELSE sched.weekly[d % WeekLen]
<1>1. d % WeekLen \in 0 .. WeekLen - 1
  BY WeekLenAssumption
<1>2. sched \in Schedules
  BY DEF HoursInv
<1>3. raw \in Range(sched.weekly) \cup Range(sched.overrides)
  <2>1. DOMAIN sched.weekly = 0 .. WeekLen - 1
    BY <1>2, SchedulesAssumption
  <2> QED
    BY <1>1, <2>1 DEF Range
<1>4. /\ Len(raw) \in Nat /\ DOMAIN raw = 1 .. Len(raw)
      /\ \A i \in DOMAIN raw : {raw[i].start, raw[i].end} \subseteq 0 .. DayLen - 1
  <2> HIDE DEF raw
  <2> QED
    BY <1>2, <1>3, SchedulesAssumption
<1>5. wins = [i \in {i \in DOMAIN raw : raw[i].start < raw[i].end} |-> raw[i]]
  BY DEF DayWindows
<1> HIDE DEF raw
<1>6. DOMAIN wins \subseteq DOMAIN raw
  BY <1>5
<1>7. \A i \in DOMAIN wins : wins[i] = raw[i] /\ wins[i].start < wins[i].end
  BY <1>5
<1>8. \A i \in DOMAIN wins : wins[i].start \in 0 .. DayLen - 1 /\ wins[i].end \in 0 .. DayLen - 1
  BY <1>4, <1>6, <1>7
<1>9. DOMAIN wins \subseteq Nat
  BY <1>4, <1>6
<1> QED
  BY <1>7, <1>8, <1>9 DEF Boundaries

\* The label that a set of windows brings.
LabelOf(wins, covering) ==
  LET tagged == {i \in covering: wins[i].time # None}
      winner == CHOOSE i \in tagged: \A j \in tagged:
                  \/ wins[i].start < wins[j].start
                  \/ wins[i].start = wins[j].start /\ i <= j
  IN IF tagged # {} THEN Named(wins[winner].time)
     ELSE IF covering # {} THEN Free
     ELSE Closed

\* label_at, of windows: a minute is closed unless a window covers it, and runs free or
\* under a tag that is known.
LEMMA LabelIs ==
    ASSUME NEW wins, NEW m
    PROVE  /\ LabelAt(wins, m) = LabelOf(wins, {i \in DOMAIN wins : Covers(wins[i], m)})
           /\ LabelAt(wins, m) # Closed <=> \E i \in DOMAIN wins : Covers(wins[i], m)
           /\ LabelAt(wins, m).is \in {"closed", "runs", "unknown"}
           /\ LabelAt(wins, m).is = "closed" <=> LabelAt(wins, m) = Closed
           /\ Runnable(LabelAt(wins, m)) =>
                /\ LabelAt(wins, m).time \in Known \cup {None}
                /\ LabelAt(wins, m) = [is |-> "runs", time |-> LabelAt(wins, m).time]
<1> DEFINE C == {i \in DOMAIN wins : Covers(wins[i], m)}
<1>1. LabelAt(wins, m) = LabelOf(wins, C)
  BY DEF LabelAt, LabelOf
<1>2. \/ \E tag : LabelOf(wins, C) = Named(tag) /\ C # {}
      \/ LabelOf(wins, C) = Free /\ C # {}
      \/ LabelOf(wins, C) = Closed /\ C = {}
  BY DEF LabelOf
<1>3. C # {} <=> \E i \in DOMAIN wins : Covers(wins[i], m)
  OBVIOUS
<1> HIDE DEF C
<1> DEFINE l == LabelOf(wins, C)
<1>4. Closed.is = "closed" /\ Free.is = "runs" /\ Free.time = None
      /\ Free = [is |-> "runs", time |-> None]
  BY DEF Closed, Free
<1>5. \A tag : /\ Named(tag).is \in {"runs", "unknown"} /\ Named(tag).time = tag
               /\ Named(tag).is = "runs" =>
                    tag \in Known /\ Named(tag) = [is |-> "runs", time |-> tag]
  BY DEF Named
<1>6. /\ l # Closed <=> C # {}
      /\ l.is \in {"closed", "runs", "unknown"}
      /\ l.is = "closed" <=> l = Closed
      /\ l.is = "runs" => l.time \in Known \cup {None} /\ l = [is |-> "runs", time |-> l.time]
  <2> HIDE DEF l
  <2>1. \/ \E tag : l = Named(tag) /\ C # {}
        \/ l = Free /\ C # {}
        \/ l = Closed /\ C = {}
    BY <1>2 DEF l
  <2> QED
    BY <1>4, <1>5, <2>1
<1> QED
  BY <1>1, <1>3, <1>6 DEF Runnable, C

\* Where no window starts or ends, the label goes on; a day begins and ends closed, but for
\* a window that starts with it.
LEMMA LabelGoesOn ==
    ASSUME HoursInv, NEW d \in Nat, NEW m \in Nat, m \notin Boundaries(DayWindows(sched, d))
    PROVE  /\ m > 0 => LabelAt(DayWindows(sched, d), m) = LabelAt(DayWindows(sched, d), m - 1)
           /\ m = 0 => LabelAt(DayWindows(sched, d), m) = Closed
<1> DEFINE wins == DayWindows(sched, d)
<1>1. \A i \in DOMAIN wins :
        /\ wins[i].start \in 0 .. DayLen - 1 /\ wins[i].end \in 0 .. DayLen - 1
        /\ wins[i].start # m /\ wins[i].end # m
  BY DayWindowsAre DEF Boundaries
<1> HIDE DEF wins
<1>2. ASSUME m > 0 PROVE LabelAt(wins, m) = LabelAt(wins, m - 1)
  <2>1. \A i \in DOMAIN wins : Covers(wins[i], m) <=> Covers(wins[i], m - 1)
    BY <1>1, <1>2, DayLenAssumption DEF Covers
  <2>2. {i \in DOMAIN wins : Covers(wins[i], m)} = {i \in DOMAIN wins : Covers(wins[i], m - 1)}
    BY <2>1
  <2> QED
    BY <2>2, LabelIs
<1>3. ASSUME m = 0 PROVE LabelAt(wins, m) = Closed
  <2>1. \A i \in DOMAIN wins : ~Covers(wins[i], m)
    BY <1>1, <1>3, DayLenAssumption DEF Covers
  <2> QED
    BY <2>1, LabelIs
<1> QED
  BY <1>2, <1>3 DEF wins

\* A day's last minute is closed.
LEMMA DayEndsClosed ==
    ASSUME HoursInv, NEW d \in Nat
    PROVE  LabelAt(DayWindows(sched, d), DayLen - 1) = Closed
<1> DEFINE wins == DayWindows(sched, d)
<1>1. \A i \in DOMAIN wins : wins[i].end \in 0 .. DayLen - 1
  BY DayWindowsAre
<1> HIDE DEF wins
<1>2. \A i \in DOMAIN wins : ~Covers(wins[i], DayLen - 1)
  BY <1>1, DayLenAssumption DEF Covers
<1>3. LabelAt(wins, DayLen - 1) = Closed
  BY <1>2, LabelIs
<1> QED
  BY <1>3 DEF wins

\* A day's minutes on the wall.
LEMMA WallIs ==
    ASSUME NEW d \in Nat, NEW m \in 0 .. DayLen - 1
    PROVE  /\ d * DayLen + m \in Nat
           /\ (d * DayLen + m) \div DayLen = d /\ (d * DayLen + m) % DayLen = m
<1> DEFINE w == d * DayLen + m
           n == d * DayLen
           k == (d + 1) * DayLen
<1>1. n \in Nat /\ k = n + DayLen /\ DayLen \in Nat /\ DayLen * d = n
  BY DayLenAssumption
<1>2. w = n + m
  OBVIOUS
<1>3. w \in Nat /\ n <= w /\ w < k
  <2> HIDE DEF n, k, w
  <2> QED
    BY <1>1, <1>2
<1>4. w \div DayLen = d
  <2> HIDE DEF w
  <2> QED
    BY <1>3, DayIs
<1>5. w % DayLen = w - DayLen * (w \div DayLen)
  <2> HIDE DEF w
  <2> QED
    BY <1>3, DaysAre
<1>6. w % DayLen = m
  <2> HIDE DEF n, w
  <2> QED
    BY <1>1, <1>2, <1>4, <1>5
<1> QED
  BY <1>3, <1>4, <1>6

\* Where no window starts or ends, the label goes on, past midnights too.
LEMMA WallGoesOn ==
    ASSUME HoursInv, NEW w \in Nat, w > 0, ~IsEdge(w)
    PROVE  OnWall(w) = OnWall(w - 1)
<1> DEFINE q == w \div DayLen
           m == w % DayLen
           v == w - 1
<1>1. q \in Nat /\ m \in 0 .. DayLen - 1 /\ q * DayLen <= w /\ w < (q + 1) * DayLen
      /\ m = w - DayLen * q
  BY DaysAre
<1>2. m \notin Boundaries(DayWindows(sched, q))
  BY DEF IsEdge, Wins
<1>3. OnWall(w) = LabelAt(DayWindows(sched, q), m)
  BY DEF OnWall, Wins
<1>4. CASE m > 0
  <2>1. v \div DayLen = q
    BY <1>4, DaysPass
  <2>2. v \in Nat /\ v % DayLen = v - DayLen * (v \div DayLen)
    BY DaysAre
  <2>3. DayLen * q \in Nat
    <3> HIDE DEF q
    <3> QED
      BY <1>1, DayLenAssumption
  <2>4. v % DayLen = m - 1
    <3> DEFINE k == DayLen * q
    <3>1. k \in Nat /\ m = w - k /\ v % DayLen = v - k
      BY <1>1, <2>1, <2>2, <2>3
    <3> HIDE DEF k, m, q
    <3> QED
      BY <3>1
  <2>5. OnWall(v) = LabelAt(DayWindows(sched, q), m - 1)
    BY <2>1, <2>4 DEF OnWall, Wins
  <2> HIDE DEF q, m
  <2> QED
    BY <1>1, <1>2, <1>3, <1>4, <2>5, LabelGoesOn
<1>5. CASE m = 0
  <2>1. OnWall(w) = Closed
    <3> HIDE DEF q, m
    <3> QED
      BY <1>1, <1>2, <1>3, <1>5, LabelGoesOn
  <2>2. q > 0
    <3> DEFINE k == DayLen * q
    <3>1. q = 0 => k = 0
      BY DayLenAssumption
    <3> HIDE DEF k
    <3> QED
      BY <1>1, <1>5, <3>1 DEF k
  <2>3. v = (q - 1) * DayLen + (DayLen - 1)
    <3> DEFINE k == DayLen * q
    <3>1. (q - 1) * DayLen = k - DayLen /\ k \in Nat
      <4> HIDE DEF q
      <4> QED
        BY <1>1, DayLenAssumption
    <3>2. w = k
      <4> HIDE DEF k, q, m
      <4> QED
        BY <1>1, <1>5, <3>1 DEF k
    <3> HIDE DEF k, q, m
    <3> QED
      BY <3>1, <3>2, DayLenAssumption
  <2>4. q - 1 \in Nat /\ DayLen - 1 \in 0 .. DayLen - 1
    BY <1>1, <2>2, DayLenAssumption
  <2>5. v \div DayLen = q - 1 /\ v % DayLen = DayLen - 1
    <3> DEFINE p == q - 1
               e == DayLen - 1
    <3>1. p \in Nat /\ e \in 0 .. DayLen - 1 /\ v = p * DayLen + e
      BY <2>3, <2>4
    <3> HIDE DEF p, e, v
    <3>2. v \div DayLen = p /\ v % DayLen = e
      BY <3>1, WallIs
    <3> QED
      BY <3>2 DEF p, e
  <2>6. OnWall(v) = Closed
    BY <2>4, <2>5, DayEndsClosed DEF OnWall, Wins
  <2> QED
    BY <2>1, <2>6
<1> QED
  BY <1>1, <1>4, <1>5

\* Without an edge in between, the label is the same throughout.
LEMMA WallStays ==
    ASSUME HoursInv, NEW a \in Nat, NEW b \in Nat, a <= b, \A w \in a + 1 .. b : ~IsEdge(w)
    PROVE  OnWall(b) = OnWall(a)
<1> DEFINE B == {w \in a .. b : OnWall(w) # OnWall(a)}
<1> SUFFICES ASSUME B # {} PROVE FALSE
  OBVIOUS
<1>1. PICK m \in B : \A k \in B : m <= k
  <2>1. B \subseteq Nat
    OBVIOUS
  <2> HIDE DEF B
  <2> QED
    BY <2>1, Least
<1>2. m \in a + 1 .. b /\ m - 1 \in a .. b /\ m > 0 /\ m \in Nat
  OBVIOUS
<1>3. m - 1 \notin B
  <2> HIDE DEF B
  <2> QED
    BY <1>1, <1>2
<1>4. OnWall(m) = OnWall(m - 1)
  BY <1>2, WallGoesOn
<1> QED
  BY <1>2, <1>3, <1>4

\* A label that is another than before began with a window's start or end.
LEMMA WallEdge ==
    ASSUME HoursInv, NEW a \in Nat, NEW b \in Nat, a <= b, OnWall(b) # OnWall(a)
    PROVE  \E w \in a + 1 .. b : IsEdge(w) /\ OnWall(w) = OnWall(b)
<1> DEFINE B == {b - w : w \in {w \in a + 1 .. b : IsEdge(w)}}
<1>1. B \subseteq Nat
  OBVIOUS
<1>2. B # {}
  BY WallStays
<1>3. PICK n \in B : \A k \in B : n <= k
  <2> HIDE DEF B
  <2> QED
    BY <1>1, <1>2, Least
<1>4. PICK w \in a + 1 .. b : IsEdge(w) /\ n = b - w
  OBVIOUS
<1>5. \A v \in w + 1 .. b : ~IsEdge(v)
  <2> SUFFICES ASSUME NEW v \in w + 1 .. b, IsEdge(v) PROVE FALSE
    OBVIOUS
  <2>1. b - v \in B
    BY <1>4
  <2>2. n <= b - v
    <3> HIDE DEF B
    <3> QED
      BY <1>3, <2>1
  <2> QED
    BY <1>4, <2>2
<1>6. OnWall(b) = OnWall(w)
  BY <1>4, <1>5, WallStays
<1> QED
  BY <1>4, <1>6

-----------------------------------------------------------------------------
(* Hours: the instants of the wall's minutes. *)

\* local_wall_ts, of a wall minute.
Inst(w) == IF w < zone.jump THEN w
           ELSE IF w - zone.shift >= zone.jump THEN w - zone.shift ELSE zone.jump

\* The label at an instant, and the wall minute the search's last day ends at.
At(t) == OnWall(Wall(zone, t))
SearchEnd == (DayOf(zone, now) + WeekLen + 1) * DayLen

\* The zone's parts.
LEMMA ZoneIs ==
    ASSUME HoursInv
    PROVE  /\ zone.jump \in Nat /\ zone.shift \in Int /\ zone.jump + zone.shift \in Nat
           /\ zone.shift <= DayLen /\ -DayLen <= zone.shift
BY ZonesAssumption, DayLenAssumption DEF HoursInv

\* A day's minute, on the wall.
LEMMA InstIs ==
    ASSUME NEW d, NEW m
    PROVE  LocalWallTs(zone, d, m) = Inst(d * DayLen + m)
BY DEF LocalWallTs, Inst

\* A wall minute that is not repeated is not past before its instant, and is from there on.
LEMMA InstWall ==
    ASSUME HoursInv, NEW w \in Nat, NEW t \in Nat
    PROVE  /\ Wall(zone, t) \in Nat /\ Inst(w) \in Nat
           /\ w <= Wall(zone, t) => Inst(w) <= t
           /\ w \notin Disturbed(zone) /\ Inst(w) <= t => w <= Wall(zone, t)
           /\ \A v \in Nat : v <= w => Inst(v) <= Inst(w)
           /\ \/ Wall(zone, Inst(w)) = w
              \/ /\ zone.shift > 0 /\ w \in zone.jump .. zone.jump + zone.shift - 1
                 /\ Wall(zone, Inst(w)) = zone.jump + zone.shift
           /\ \A s \in Nat : s < t /\ Wall(zone, s) > Wall(zone, t) =>
                /\ zone.shift < 0 /\ Wall(zone, t) >= zone.jump + zone.shift
                /\ Wall(zone, s) < zone.jump
<1> DEFINE j == zone.jump
           k == zone.shift
<1>1. j \in Nat /\ k \in Int /\ j + k \in Nat
  BY ZoneIs
<1>2. \A s \in Nat : Wall(zone, s) = IF s < j THEN s ELSE s + k
  BY DEF Wall
<1>3. \A v : Inst(v) = IF v < j THEN v ELSE IF v - k >= j THEN v - k ELSE j
  BY DEF Inst
<1>4. Disturbed(zone) = IF k > 0 THEN j + 1 .. j + k - 1 ELSE j + k .. j - 1
  BY DEF Disturbed
<1> HIDE DEF j, k
<1>5. Wall(zone, t) \in Nat /\ Inst(w) \in Nat
  BY <1>1, <1>2, <1>3
<1>6. w <= Wall(zone, t) => Inst(w) <= t
  BY <1>1, <1>2, <1>3
<1>7. w \notin Disturbed(zone) /\ Inst(w) <= t => w <= Wall(zone, t)
  BY <1>1, <1>2, <1>3, <1>4
<1>8. ASSUME NEW v \in Nat, v <= w PROVE Inst(v) <= Inst(w)
  BY <1>1, <1>3, <1>8
<1>9. \/ Wall(zone, Inst(w)) = w
      \/ k > 0 /\ w \in j .. j + k - 1 /\ Wall(zone, Inst(w)) = j + k
  BY <1>1, <1>2, <1>3, <1>5
<1>10. ASSUME NEW s \in Nat, s < t, Wall(zone, s) > Wall(zone, t)
       PROVE  k < 0 /\ Wall(zone, t) >= j + k /\ Wall(zone, s) < j
  BY <1>1, <1>2, <1>10
<1> QED
  BY <1>5, <1>6, <1>7, <1>8, <1>9, <1>10 DEF j, k

\* The search's last minute, and the edges before it.
LEMMA SearchEndIs ==
    ASSUME HoursInv
    PROVE  /\ DayOf(zone, now) \in Nat /\ SearchEnd \in Nat /\ SearchEnd > 0
           /\ OnWall(SearchEnd - 1) = Closed /\ Wall(zone, now) < SearchEnd
           /\ \A w \in Nat : w < SearchEnd <=> w \div DayLen \in Days
           /\ \A w \in Nat : IsEdge(w) /\ w < SearchEnd => w \in Edges
<1> DEFINE d == DayOf(zone, now)
           x == Wall(zone, now)
<1>1. x \in Nat /\ d = x \div DayLen /\ WeekLen \in Nat \ {0} /\ now \in Nat
  BY InstWall, WeekLenAssumption DEF HoursInv, DayOf
<1>2. d \in Nat /\ d * DayLen <= x /\ x < (d + 1) * DayLen
  <2> HIDE DEF x, d
  <2> QED
    BY <1>1, DaysAre
<1> DEFINE e == d + WeekLen
<1>3. e \in Nat /\ e > d /\ SearchEnd = (e + 1) * DayLen
  BY <1>1, <1>2 DEF SearchEnd
<1> HIDE DEF d, x, e
<1>4. (e + 1) * DayLen = e * DayLen + DayLen /\ e * DayLen \in Nat
  BY <1>3, DayLenAssumption
<1>5. SearchEnd \in Nat /\ SearchEnd > 0
  BY <1>3, <1>4, DayLenAssumption
<1>6. OnWall(SearchEnd - 1) = Closed
  <2> DEFINE m == DayLen - 1
             w == e * DayLen + m
  <2>1. w = SearchEnd - 1 /\ m \in 0 .. DayLen - 1
    BY <1>3, <1>4, DayLenAssumption
  <2>2. w \div DayLen = e /\ w % DayLen = m
    <3> HIDE DEF m
    <3> QED
      BY <1>3, <2>1, WallIs
  <2>3. OnWall(w) = Closed
    <3> HIDE DEF w
    <3> QED
      BY <1>3, <2>2, DayEndsClosed DEF OnWall, Wins
  <2> QED
    BY <2>1, <2>3
<1>7. x < SearchEnd
  <2>1. (d + 1) * DayLen <= e * DayLen
    BY <1>2, <1>3, DaysApart
  <2>2. (d + 1) * DayLen \in Nat
    BY <1>2, DayLenAssumption
  <2> QED
    BY <1>1, <1>2, <1>3, <1>4, <2>1, <2>2, DayLenAssumption
<1>8. ASSUME NEW w \in Nat PROVE w < SearchEnd <=> w \div DayLen \in Days
  <2> DEFINE q == w \div DayLen
  <2>1. q \in Nat /\ q * DayLen <= w /\ w < (q + 1) * DayLen
    BY DaysAre
  <2>2. Days = 0 .. e
    BY DEF Days, d, e
  <2> HIDE DEF q
  <2>3. q * DayLen \in Nat /\ (q + 1) * DayLen \in Nat
    BY <2>1, DayLenAssumption
  <2>4. CASE q <= e
    <3>1. (q + 1) * DayLen <= (e + 1) * DayLen
      <4>1. CASE q = e
        BY <1>4, <2>3, <4>1
      <4>2. CASE q < e
        <5>1. (q + 1) * DayLen <= e * DayLen
          BY <1>3, <2>1, <4>2, DaysApart
        <5> QED
          BY <1>4, <2>3, <5>1, DayLenAssumption
      <4> QED
        BY <1>3, <2>1, <2>4, <4>1, <4>2
    <3>2. w < SearchEnd
      BY <1>3, <1>4, <1>5, <2>1, <2>3, <3>1
    <3> QED
      BY <2>1, <2>2, <2>4, <3>2, <1>3 DEF q
  <2>5. CASE q > e
    <3>1. (e + 1) * DayLen <= q * DayLen
      BY <1>3, <2>1, <2>5, DaysApart
    <3>2. ~(w < SearchEnd)
      BY <1>3, <1>5, <2>1, <2>3, <3>1
    <3> QED
      BY <2>1, <2>2, <2>5, <3>2, <1>3 DEF q
  <2> QED
    BY <1>3, <2>1, <2>4, <2>5
<1>9. ASSUME NEW w \in Nat, IsEdge(w), w < SearchEnd PROVE w \in Edges
  <2> DEFINE q == w \div DayLen
             m == w % DayLen
  <2>1. q \in Nat /\ m = w - DayLen * q /\ m \in 0 .. DayLen - 1
    BY DaysAre
  <2>2. w = q * DayLen + m
    <3> DEFINE k == DayLen * q
    <3> HIDE DEF q, m
    <3>1. k \in Nat /\ q * DayLen = k
      BY <2>1, DayLenAssumption
    <3> HIDE DEF k
    <3> QED
      BY <2>1, <3>1 DEF k
  <2>3. q \in Days
    BY <1>8, <1>9
  <2>4. m \in Boundaries(DayWindows(sched, q))
    BY <1>9 DEF IsEdge, Wins
  <2> HIDE DEF q, m
  <2> QED
    BY <2>2, <2>3, <2>4 DEF Edges
<1> QED
  BY <1>2, <1>5, <1>6, <1>7, <1>8, <1>9 DEF d, x

\* Before the search's end no window starts or ends in what is skipped or repeated, nor at
\* both ends of what is skipped.
LEMMA EdgesApart ==
    ASSUME HoursInv, Undisturbed, NEW w \in Nat, IsEdge(w), w < SearchEnd
    PROVE  /\ w \notin Disturbed(zone)
           /\ zone.shift > 0 =>
                /\ w \notin zone.jump + 1 .. zone.jump + zone.shift - 1
                /\ w = zone.jump + zone.shift => ~IsEdge(zone.jump)
                /\ w = zone.jump /\ zone.jump + zone.shift < SearchEnd =>
                     ~IsEdge(zone.jump + zone.shift)
           /\ zone.shift < 0 => w \notin zone.jump + zone.shift .. zone.jump - 1
<1> DEFINE j == zone.jump
           k == zone.shift
<1>1. j \in Nat /\ k \in Int /\ j + k \in Nat
  BY ZoneIs
<1>2. w \in Edges /\ Edges \cap Disturbed(zone) = {}
  BY SearchEndIs DEF Undisturbed
<1>3. w \notin Disturbed(zone)
  BY <1>2
<1>4. k > 0 => ~(j \in Edges /\ j + k \in Edges)
  BY DEF Undisturbed
<1>5. Disturbed(zone) = IF k > 0 THEN j + 1 .. j + k - 1 ELSE j + k .. j - 1
  BY DEF Disturbed
<1>6. \A v \in Nat : IsEdge(v) /\ v < SearchEnd => v \in Edges
  BY SearchEndIs
<1>7. SearchEnd \in Nat
  BY SearchEndIs
<1> HIDE DEF j, k
<1>8. k > 0 /\ w = j + k => ~IsEdge(j)
  BY <1>1, <1>2, <1>4, <1>6, <1>7
<1>9. k > 0 /\ w = j /\ j + k < SearchEnd => ~IsEdge(j + k)
  BY <1>1, <1>2, <1>4, <1>6
<1>10. k > 0 => w \notin j + 1 .. j + k - 1
  BY <1>3, <1>5
<1>11. k < 0 => w \notin j + k .. j - 1
  BY <1>1, <1>3, <1>5
<1> QED
  BY <1>3, <1>8, <1>9, <1>10, <1>11 DEF j, k

\* An edge's instant is past where the edge is.
LEMMA EdgePast ==
    ASSUME HoursInv, Undisturbed, NEW w \in Nat, IsEdge(w), w < SearchEnd, NEW t \in Nat
    PROVE  Inst(w) <= t <=> w <= Wall(zone, t)
BY InstWall, EdgesApart

\* A label goes on through what is skipped, up to the search's end.
LEMMA SkipStays ==
    ASSUME HoursInv, Undisturbed, zone.shift > 0, NEW a \in Nat, NEW b \in Nat, a <= b, b < SearchEnd,
           a >= zone.jump, b < zone.jump + zone.shift
    PROVE  OnWall(b) = OnWall(a)
<1>1. zone.jump \in Nat /\ zone.shift \in Int /\ SearchEnd \in Nat
  BY ZoneIs, SearchEndIs
<1>2. \A w \in a + 1 .. b :
        w \in Nat /\ w < SearchEnd /\ w \in zone.jump + 1 .. zone.jump + zone.shift - 1
  BY <1>1
<1>3. \A w \in a + 1 .. b : ~IsEdge(w)
  BY <1>2, EdgesApart
<1> QED
  BY <1>3, WallStays

\* And through what is repeated.
LEMMA RepeatStays ==
    ASSUME HoursInv, Undisturbed, zone.shift < 0, NEW a \in Nat, NEW b \in Nat, a <= b, b < SearchEnd,
           a >= zone.jump + zone.shift, b < zone.jump
    PROVE  OnWall(b) = OnWall(a)
<1>1. zone.jump \in Nat /\ zone.shift \in Int /\ SearchEnd \in Nat /\ zone.jump + zone.shift \in Nat
  BY ZoneIs, SearchEndIs
<1>2. \A w \in a + 1 .. b :
        w \in Nat /\ w < SearchEnd /\ w \in zone.jump + zone.shift .. zone.jump - 1
  BY <1>1
<1>3. \A w \in a + 1 .. b : ~IsEdge(w)
  BY <1>2, EdgesApart
<1> QED
  BY <1>3, WallStays

\* The label an edge brings is the one at its instant.
LEMMA AtInst ==
    ASSUME HoursInv, Undisturbed, NEW w \in Nat, IsEdge(w), w < SearchEnd
    PROVE  /\ Wall(zone, Inst(w)) < SearchEnd => At(Inst(w)) = OnWall(w)
           /\ Wall(zone, Inst(w)) >= SearchEnd => OnWall(w) = Closed
<1> DEFINE j == zone.jump
           k == zone.shift
<1>0. j \in Nat /\ k \in Int /\ j + k \in Nat /\ SearchEnd \in Nat
  BY ZoneIs, SearchEndIs
<1>1. CASE Wall(zone, Inst(w)) = w
  BY <1>0, <1>1 DEF At
<1>2. CASE k > 0 /\ w \in j .. j + k - 1 /\ Wall(zone, Inst(w)) = j + k
  <2>1. w = j
    <3>1. w \notin j + 1 .. j + k - 1
      BY <1>2, EdgesApart
    <3> HIDE DEF j, k
    <3> QED
      BY <1>0, <1>2, <3>1
  <2>2. ASSUME j + k < SearchEnd PROVE OnWall(j + k) = OnWall(w)
    <3>1. ~IsEdge(j + k)
      BY <1>2, <2>1, <2>2, EdgesApart
    <3>2. ASSUME NEW v \in Nat, v = j + k, v > 0 PROVE OnWall(j + k) = OnWall(j + k - 1)
      <4>1. ~IsEdge(v)
        BY <3>1, <3>2
      <4>2. OnWall(v) = OnWall(v - 1)
        BY <3>2, <4>1, WallGoesOn
      <4> HIDE DEF j, k
      <4> QED
        BY <1>0, <3>2, <4>2
    <3>3. j + k - 1 \in Nat /\ w <= j + k - 1 /\ j + k - 1 < SearchEnd
      <4> HIDE DEF j, k
      <4> QED
        BY <1>0, <1>2, <2>1, <2>2
    <3>4. OnWall(j + k - 1) = OnWall(w)
      <4> DEFINE b == j + k - 1
      <4>1. b \in Nat /\ w <= b /\ b < SearchEnd /\ w >= j /\ b < j + k /\ k > 0
        <5> HIDE DEF j, k
        <5> QED
          BY <1>0, <1>2, <2>1, <3>3
      <4> HIDE DEF b
      <4>2. OnWall(b) = OnWall(w)
        BY <4>1, SkipStays
      <4> QED
        BY <4>2 DEF b
    <3>5. j + k \in Nat /\ j + k > 0
      <4> HIDE DEF j, k
      <4> QED
        BY <1>0, <1>2
    <3> QED
      BY <3>2, <3>4, <3>5
  <2>3. ASSUME j + k >= SearchEnd PROVE OnWall(w) = Closed
    <3> DEFINE b == SearchEnd - 1
    <3>1. b \in Nat /\ w <= b /\ b < SearchEnd /\ w >= j /\ b < j + k /\ k > 0
      <4>1. w < SearchEnd
        OBVIOUS
      <4> HIDE DEF j, k
      <4> QED
        BY <1>0, <1>2, <2>1, <2>3, <4>1
    <3>2. OnWall(b) = Closed
      BY SearchEndIs
    <3> HIDE DEF b
    <3>3. OnWall(b) = OnWall(w)
      BY <3>1, SkipStays
    <3> QED
      BY <3>2, <3>3
  <2>4. Wall(zone, Inst(w)) = j + k
    BY <1>2
  <2> HIDE DEF j, k
  <2> QED
    BY <1>0, <2>2, <2>3, <2>4 DEF At
<1> QED
  BY <1>1, <1>2, InstWall

\* And the one before it is the one before its instant.
LEMMA AtBefore ==
    ASSUME HoursInv, Undisturbed, NEW w \in Nat, IsEdge(w), w < SearchEnd, Inst(w) > 0
    PROVE  w > 0 /\ At(Inst(w) - 1) = OnWall(w - 1)
<1> DEFINE j == zone.jump
           k == zone.shift
           i == Inst(w)
           v == w - 1
<1>0. j \in Nat /\ k \in Int /\ j + k \in Nat /\ SearchEnd \in Nat
  BY ZoneIs, SearchEndIs
<1>1. i = IF w < j THEN w ELSE IF w - k >= j THEN w - k ELSE j
  BY DEF Inst
<1>2. Wall(zone, i - 1) = IF i - 1 < j THEN i - 1 ELSE i - 1 + k
  BY DEF Wall
<1>3. /\ k > 0 => w \notin j + 1 .. j + k - 1
      /\ k < 0 => w \notin j + k .. j - 1
  BY EdgesApart
<1>4. i > 0 /\ w < SearchEnd
  OBVIOUS
<1> HIDE DEF i
<1>5. w > 0
  <2> HIDE DEF j, k
  <2> QED
    BY <1>0, <1>1, <1>4
<1>6. CASE k > 0 /\ w = j + k
  <2>1. i = j /\ Wall(zone, i - 1) = j - 1 /\ j > 0
    <3> HIDE DEF j, k
    <3> QED
      BY <1>0, <1>1, <1>2, <1>4, <1>6
  <2>2. ~IsEdge(j)
    BY <1>6, EdgesApart
  <2>3. OnWall(j) = OnWall(j - 1)
    <3> HIDE DEF j
    <3> QED
      BY <1>0, <2>1, <2>2, WallGoesOn
  <2>4. v \in Nat /\ j <= v /\ v < SearchEnd /\ j >= j /\ v < j + k /\ k > 0
    <3> HIDE DEF j, k
    <3> QED
      BY <1>0, <1>4, <1>6
  <2>5. OnWall(v) = OnWall(j)
    <3> HIDE DEF v
    <3> QED
      BY <1>0, <2>4, SkipStays
  <2>6. At(i - 1) = OnWall(v)
    BY <2>1, <2>3, <2>5 DEF At
  <2> QED
    BY <1>5, <2>6 DEF i
<1>7. CASE ~(k > 0 /\ w = j + k)
  <2>1. Wall(zone, i - 1) = v
    <3> HIDE DEF j, k
    <3> QED
      BY <1>0, <1>1, <1>2, <1>3, <1>4, <1>7
  <2> QED
    BY <1>5, <2>1 DEF At, i
<1> QED
  BY <1>6, <1>7

\* A label that is another than at an earlier instant began with an edge in between.
LEMMA AtEdge ==
    ASSUME HoursInv, Undisturbed, NEW s \in Nat, NEW t \in Nat, s < t,
           Wall(zone, s) < SearchEnd, Wall(zone, t) < SearchEnd, At(t) # At(s)
    PROVE  \E w \in Wall(zone, s) + 1 .. Wall(zone, t) :
             w \in Nat /\ IsEdge(w) /\ w < SearchEnd /\ OnWall(w) = At(t) /\ s < Inst(w) /\ Inst(w) <= t
<1> DEFINE a == Wall(zone, s)
           b == Wall(zone, t)
<1>1. a \in Nat /\ b \in Nat /\ SearchEnd \in Nat /\ a < SearchEnd /\ b < SearchEnd /\ OnWall(b) # OnWall(a)
      /\ At(t) = OnWall(b)
  BY InstWall, SearchEndIs DEF At
<1>2. CASE a <= b
  <2>1. PICK w \in a + 1 .. b : IsEdge(w) /\ OnWall(w) = OnWall(b)
    <3> HIDE DEF a, b
    <3> QED
      BY <1>1, <1>2, WallEdge
  <2>2. w \in Nat /\ w < SearchEnd /\ w <= b /\ ~(w <= a)
    <3> HIDE DEF a, b
    <3> QED
      BY <1>1, <2>1
  <2>3. Inst(w) <= t /\ ~(Inst(w) <= s) /\ Inst(w) \in Nat
    BY <2>1, <2>2, EdgePast, InstWall
  <2>4. s < Inst(w)
    BY <2>3
  <2> QED
    BY <1>1, <2>1, <2>2, <2>3, <2>4
<1>3. CASE a > b
  <2>1. zone.shift < 0 /\ b >= zone.jump + zone.shift /\ a < zone.jump
    BY <1>3, InstWall
  <2>2. OnWall(a) = OnWall(b)
    <3> HIDE DEF a, b
    <3> QED
      BY <1>1, <1>3, <2>1, RepeatStays
  <2> QED
    BY <1>1, <2>2
<1> QED
  BY <1>1, <1>2, <1>3

\* An instant before a midnight that an earlier one was past is closed.
LEMMA BackClosed ==
    ASSUME HoursInv, Undisturbed, NEW s \in Nat, NEW t \in Nat, s < t,
           NEW e \in Nat, (e + 1) * DayLen <= SearchEnd,
           Wall(zone, t) < (e + 1) * DayLen, Wall(zone, s) >= (e + 1) * DayLen
    PROVE  At(t) = Closed
<1> DEFINE a == Wall(zone, s)
           b == Wall(zone, t)
           n == (e + 1) * DayLen
           m == DayLen - 1
           w == e * DayLen + m
<1>1. a \in Nat /\ b \in Nat /\ SearchEnd \in Nat /\ n \in Nat /\ n = e * DayLen + DayLen
      /\ e * DayLen \in Nat /\ m \in 0 .. DayLen - 1
  <2>1. a \in Nat /\ b \in Nat /\ SearchEnd \in Nat
    BY InstWall, SearchEndIs
  <2>2. n \in Nat /\ n = e * DayLen + DayLen /\ e * DayLen \in Nat
    BY DayLenAssumption
  <2>3. m \in 0 .. DayLen - 1
    BY DayLenAssumption
  <2> QED
    BY <2>1, <2>2, <2>3
<1>2. w = n - 1
  BY <1>1, DayLenAssumption
<1>3. w \div DayLen = e /\ w % DayLen = m /\ w \in Nat
  <2> HIDE DEF m
  <2> QED
    BY <1>1, WallIs
<1>4. OnWall(w) = Closed
  <2> HIDE DEF w
  <2> QED
    BY <1>3, DayEndsClosed DEF OnWall, Wins
<1>5. b < n /\ a >= n /\ n <= SearchEnd
  OBVIOUS
<1>6. zone.shift < 0 /\ b >= zone.jump + zone.shift /\ a < zone.jump
  <2>1. a > b
    <3> HIDE DEF a, b, n, w, m
    <3> QED
      BY <1>1, <1>5
  <2> QED
    BY <2>1, InstWall
<1>7. b <= w /\ w < SearchEnd /\ w < zone.jump
  <2>1. zone.jump \in Nat
    BY ZoneIs
  <2> HIDE DEF a, b, n, w, m
  <2> QED
    BY <1>1, <1>2, <1>3, <1>5, <1>6, <2>1
<1>8. OnWall(w) = OnWall(b)
  <2> HIDE DEF a, b, n, w, m
  <2> QED
    BY <1>1, <1>3, <1>6, <1>7, RepeatStays
<1> QED
  BY <1>4, <1>8 DEF At

\* What the two evaluators answer is the label's: open while it is runnable, open to a device
\* that knows no tags while there is one.
LEMMA AnswersAre ==
    ASSUME HoursInv, NEW t
    PROVE  /\ Readable(sched) =>
                /\ Times(t) =
                     IF Runnable(At(t))
                     THEN [is |-> "open", time |-> At(t).time,
                           until |-> Max({LocalWallTs(zone, DayOf(zone, t),
                                            SpanEndMinute(DayWindows(sched, DayOf(zone, t)),
                                                          MinuteOf(zone, t))), t})]
                     ELSE [is |-> "locked", why |-> At(t).is, opens |-> NextOpen(sched, zone, t)]
                /\ Classic(t).is = IF At(t) # Closed THEN "open" ELSE "locked"
                /\ At(t) = Closed => Classic(t).opens = NextStart(sched, zone, t)
           /\ ~Readable(sched) =>
                /\ Times(t).is \in {"unparseable", "locked", "unbounded"}
                /\ Classic(t).is = Times(t).is
<1> DEFINE wins == DayWindows(sched, DayOf(zone, t))
           C == {i \in DOMAIN wins : Covers(wins[i], MinuteOf(zone, t))}
<1>1. At(t) = LabelAt(wins, MinuteOf(zone, t))
  BY DEF At, OnWall, Wins, DayOf, MinuteOf
<1>2. C # {} <=> At(t) # Closed
  BY <1>1, LabelIs
<1>3. sched.version \in BOOLEAN /\ sched.paused \in BOOLEAN /\ sched.zoned \in BOOLEAN
  BY SchedulesAssumption DEF HoursInv
<1>4. ASSUME Readable(sched) PROVE
        /\ Times(t) =
             IF Runnable(At(t))
             THEN [is |-> "open", time |-> At(t).time,
                   until |-> Max({LocalWallTs(zone, DayOf(zone, t),
                                    SpanEndMinute(wins, MinuteOf(zone, t))), t})]
             ELSE [is |-> "locked", why |-> At(t).is, opens |-> NextOpen(sched, zone, t)]
        /\ Classic(t).is = IF At(t) # Closed THEN "open" ELSE "locked"
        /\ At(t) = Closed => Classic(t).opens = NextStart(sched, zone, t)
  <2>1. sched.version /\ ~sched.paused /\ sched.zoned /\ ~IsUnbounded(sched)
    BY <1>4 DEF Readable
  <2>2. Times(t) =
          IF Runnable(LabelAt(wins, MinuteOf(zone, t)))
          THEN [is |-> "open", time |-> LabelAt(wins, MinuteOf(zone, t)).time,
                until |-> Max({LocalWallTs(zone, DayOf(zone, t),
                                 SpanEndMinute(wins, MinuteOf(zone, t))), t})]
          ELSE [is |-> "locked", why |-> LabelAt(wins, MinuteOf(zone, t)).is,
                opens |-> NextOpen(sched, zone, t)]
    BY <2>1 DEF Times, EvaluateTimes
  <2>3. Classic(t) =
          IF C # {}
          THEN [is |-> "open",
                left |-> Max({0, LocalWallTs(zone, DayOf(zone, t), wins[Min(C)].end) - t})]
          ELSE [is |-> "locked", opens |-> NextStart(sched, zone, t)]
    BY <2>1 DEF Classic, EvaluateGrantSchedule
  <2> HIDE DEF C, wins
  <2> QED
    BY <1>1, <1>2, <2>2, <2>3
<1>5. ASSUME ~Readable(sched) PROVE
        /\ Times(t).is \in {"unparseable", "locked", "unbounded"}
        /\ Classic(t).is = Times(t).is
  BY <1>3, <1>5 DEF Readable, Times, Classic, EvaluateTimes, EvaluateGrantSchedule
<1> QED
  BY <1>4, <1>5

\* While a clause constrains a day.
LEMMA OpenIs ==
    ASSUME HoursInv, Readable(sched), NEW t
    PROVE  /\ Times(t).is \in {"open", "locked"}
           /\ Times(t).is = "open" <=> Runnable(At(t))
           /\ Times(t).is = "open" =>
                /\ Times(t).time = At(t).time
                /\ Times(t).until = Max({LocalWallTs(zone, DayOf(zone, t),
                                            SpanEndMinute(DayWindows(sched, DayOf(zone, t)),
                                                          MinuteOf(zone, t))), t})
           /\ Times(t).is = "locked" => Times(t).opens = NextOpen(sched, zone, t)
           /\ Classic(t).is \in {"open", "locked"}
           /\ Classic(t).is = "open" <=> At(t) # Closed
           /\ Classic(t).is = "locked" => Classic(t).opens = NextStart(sched, zone, t)
<1> DEFINE until == Max({LocalWallTs(zone, DayOf(zone, t),
                                     SpanEndMinute(DayWindows(sched, DayOf(zone, t)),
                                                   MinuteOf(zone, t))), t})
           runs == Runnable(At(t))
<1>1. /\ Times(t) = IF runs THEN [is |-> "open", time |-> At(t).time, until |-> until]
                    ELSE [is |-> "locked", why |-> At(t).is, opens |-> NextOpen(sched, zone, t)]
      /\ Classic(t).is = IF At(t) # Closed THEN "open" ELSE "locked"
      /\ At(t) = Closed => Classic(t).opens = NextStart(sched, zone, t)
  BY AnswersAre
<1> HIDE DEF until, runs
<1>2. ASSUME runs
      PROVE  Times(t).is = "open" /\ Times(t).time = At(t).time /\ Times(t).until = until
  BY <1>1, <1>2
<1>3. ASSUME ~runs
      PROVE  Times(t).is = "locked" /\ Times(t).opens = NextOpen(sched, zone, t)
  BY <1>1, <1>3
<1>4. /\ Classic(t).is \in {"open", "locked"}
      /\ Classic(t).is = "open" <=> At(t) # Closed
  BY <1>1
<1>5. /\ Times(t).is \in {"open", "locked"}
      /\ Times(t).is = "open" <=> runs
  BY <1>2, <1>3
<1> QED
  BY <1>1, <1>2, <1>3, <1>4, <1>5 DEF until, runs

\* A tag never adds to what may run.
LEMMA TagsNarrow ==
    ASSUME HoursInv
    PROVE  TagsOnlyNarrow
<1>1. CASE Readable(sched)
  <2>1. /\ Runnable(At(now)) => At(now) # Closed /\ At(now).time \in Known \cup {None}
    BY LabelIs DEF At, OnWall, Runnable, Closed
  <2>2. /\ Times(now).is \in {"open", "locked"}
        /\ Times(now).is = "open" <=> Runnable(At(now))
        /\ Times(now).is = "open" => Times(now).time = At(now).time
        /\ Classic(now).is \in {"open", "locked"}
        /\ Classic(now).is = "open" <=> At(now) # Closed
    BY <1>1, OpenIs
  <2> QED
    BY <2>1, <2>2 DEF TagsOnlyNarrow
<1>2. CASE ~Readable(sched)
  <2>1. /\ Times(now).is \in {"unparseable", "locked", "unbounded"}
        /\ Classic(now).is = Times(now).is
    BY <1>2, AnswersAre
  <2> QED
    BY <2>1 DEF TagsOnlyNarrow
<1> QED
  BY <1>1, <1>2

\* The instants of the search are those before its last day is over.
LEMMA AheadIs ==
    ASSUME HoursInv, NEW t \in Nat, t > now
    PROVE  t \in Ahead <=> Wall(zone, t) < SearchEnd
<1> DEFINE a == Wall(zone, now)
           b == Wall(zone, t)
           d == DayOf(zone, now)
           j == zone.jump
           k == zone.shift
           n == d * DayLen
           p == WeekLen * DayLen
<1>1. now \in Nat /\ a \in Nat /\ b \in Nat /\ d \in Nat /\ n \in Nat /\ p \in Nat
      /\ DayLen \in Nat \ {0} /\ WeekLen \in Nat \ {0}
  <2>1. now \in Nat /\ a \in Nat /\ b \in Nat /\ d \in Nat
    BY InstWall, SearchEndIs DEF HoursInv
  <2>2. DayLen \in Nat \ {0} /\ WeekLen \in Nat \ {0}
    BY DayLenAssumption, WeekLenAssumption
  <2> QED
    BY <2>1, <2>2
<1>2. n <= a
  BY <1>1, DaysAre DEF DayOf
<1>3. b < SearchEnd <=> DayOf(zone, t) <= d + WeekLen
  <2>1. b < SearchEnd <=> b \div DayLen \in Days
    BY <1>1, SearchEndIs
  <2>2. b \div DayLen \in Nat
    BY <1>1, DaysAre
  <2> QED
    BY <1>1, <2>1, <2>2 DEF Days, DayOf
<1>4. SearchEnd = n + p + DayLen /\ (WeekLen + 2) * DayLen = p + DayLen + DayLen
  BY <1>1 DEF SearchEnd
<1>5. ASSUME b < SearchEnd PROVE t <= now + (WeekLen + 2) * DayLen
  <2>1. a = (IF now < j THEN now ELSE now + k) /\ b = (IF t < j THEN t ELSE t + k)
    BY DEF Wall
  <2>2. j \in Nat /\ k \in Int /\ -DayLen <= k
    BY ZoneIs
  <2>3. t > now /\ t \in Nat
    OBVIOUS
  <2> DEFINE e == (WeekLen + 2) * DayLen
  <2> HIDE DEF a, b, d, j, k, n, p, e
  <2>4. e = p + DayLen + DayLen
    BY <1>4 DEF e
  <2>5. t <= now + e
    BY <1>1, <1>2, <1>4, <1>5, <2>1, <2>2, <2>3, <2>4
  <2> QED
    BY <2>5 DEF e
<1>6. (WeekLen + 2) * DayLen \in Nat
  BY <1>1
<1> HIDE DEF a, b, d, j, k, n, p
<1> QED
  BY <1>1, <1>3, <1>5, <1>6 DEF Ahead, b, d

\* The edges that bring one of these labels, and the instants that have it.
EdgesTo(K) == {w \in Nat : IsEdge(w) /\ w < SearchEnd /\ Wall(zone, now) < w /\ OnWall(w) \in K}
Have(K) == {t \in Ahead : At(t) \in K}

\* A label not there now is there before an instant only if an edge brought it.
LEMMA HaveEdge ==
    ASSUME HoursInv, Undisturbed, NEW K, At(now) \notin K, NEW t \in Have(K)
    PROVE  \E w \in EdgesTo(K) : Inst(w) <= t
<1>1. now \in Nat /\ t \in Nat /\ t > now /\ t \in Ahead /\ At(t) \in K
  <2>1. t \in Ahead /\ At(t) \in K
    BY DEF Have
  <2>2. now \in Nat /\ (WeekLen + 2) * DayLen \in Nat
    BY WeekLenAssumption, DayLenAssumption DEF HoursInv
  <2> HIDE DEF HoursInv
  <2> QED
    BY <2>1, <2>2 DEF Ahead
<1>2. Wall(zone, t) < SearchEnd /\ Wall(zone, now) < SearchEnd
  BY <1>1, AheadIs, SearchEndIs
<1>3. PICK w \in Wall(zone, now) + 1 .. Wall(zone, t) :
        w \in Nat /\ IsEdge(w) /\ w < SearchEnd /\ OnWall(w) = At(t) /\ now < Inst(w) /\ Inst(w) <= t
  BY <1>1, <1>2, AtEdge
<1>4. Wall(zone, now) \in Nat /\ Wall(zone, t) \in Nat
  BY <1>1, InstWall
<1>5. Wall(zone, now) < w
  BY <1>3, <1>4
<1> QED
  BY <1>1, <1>3, <1>5 DEF EdgesTo

\* The first edge that brings it, at its instant.
LEMMA FirstEdge ==
    ASSUME HoursInv, Undisturbed, NEW K, At(now) \notin K, NEW w \in EdgesTo(K),
           \A v \in EdgesTo(K) : w <= v,
           Closed \notin K \/ Wall(zone, Inst(w)) < SearchEnd
    PROVE  /\ Inst(w) \in Nat /\ Inst(w) > now
           /\ Inst(w) \in Have(K) /\ \A t \in Have(K) : Inst(w) <= t
<1>1. w \in Nat /\ IsEdge(w) /\ w < SearchEnd /\ Wall(zone, now) < w /\ OnWall(w) \in K
  BY DEF EdgesTo
<1>2. now \in Nat
  BY DEF HoursInv
<1>3. Inst(w) \in Nat /\ Wall(zone, now) \in Nat /\ SearchEnd \in Nat /\ Wall(zone, Inst(w)) \in Nat
  BY <1>1, <1>2, InstWall, SearchEndIs
<1>4. ~(Inst(w) <= now)
  <2>1. Inst(w) <= now => w <= Wall(zone, now)
    BY <1>1, <1>2, EdgePast
  <2> QED
    BY <1>1, <1>3, <2>1
<1>5. Inst(w) > now
  BY <1>2, <1>3, <1>4
<1>6. Wall(zone, Inst(w)) < SearchEnd /\ At(Inst(w)) = OnWall(w)
  <2>1. /\ Wall(zone, Inst(w)) < SearchEnd => At(Inst(w)) = OnWall(w)
        /\ Wall(zone, Inst(w)) >= SearchEnd => OnWall(w) = Closed
    BY <1>1, AtInst
  <2>2. Wall(zone, Inst(w)) < SearchEnd \/ Wall(zone, Inst(w)) >= SearchEnd
    BY <1>3
  <2> QED
    BY <1>1, <2>1, <2>2
<1>7. Inst(w) \in Have(K)
  <2>1. Inst(w) \in Ahead
    BY <1>3, <1>5, <1>6, AheadIs
  <2> QED
    BY <1>1, <1>6, <2>1 DEF Have
<1>8. ASSUME NEW t \in Have(K) PROVE Inst(w) <= t
  <2>1. PICK v \in EdgesTo(K) : Inst(v) <= t
    BY HaveEdge
  <2>2. v \in Nat /\ w <= v
    BY DEF EdgesTo
  <2>3. Inst(w) <= Inst(v) /\ Inst(v) \in Nat
    BY <1>1, <2>2, InstWall
  <2>4. t \in Nat
    <3>1. (WeekLen + 2) * DayLen \in Nat
      BY WeekLenAssumption, DayLenAssumption
    <3> QED
      BY <1>2, <3>1 DEF Have, Ahead
  <2> QED
    BY <1>3, <2>1, <2>3, <2>4
<1> QED
  BY <1>3, <1>5, <1>7, <1>8

\* An edge of today's brings another label than a time has before the day is over.
LEMMA EdgeToday ==
    ASSUME HoursInv, NEW K, At(now) # Closed, Closed \in K
    PROVE  /\ EdgesTo(K) # {}
           /\ \E w \in EdgesTo(K) : /\ \A v \in EdgesTo(K) : w <= v
                                    /\ w < (DayOf(zone, now) + 1) * DayLen
<1> DEFINE a == Wall(zone, now)
           d == DayOf(zone, now)
           m == DayLen - 1
           e == d * DayLen + m
           n == (d + 1) * DayLen
<1>1. a \in Nat /\ d \in Nat /\ DayLen \in Nat \ {0} /\ d * DayLen \in Nat /\ n \in Nat
      /\ n = d * DayLen + DayLen /\ m \in 0 .. DayLen - 1 /\ d * DayLen <= a /\ a < n
  <2>1. now \in Nat
    BY DEF HoursInv
  <2>2. a \in Nat /\ d \in Nat /\ d = a \div DayLen
    BY <2>1, InstWall, SearchEndIs DEF DayOf
  <2>3. d * DayLen <= a /\ a < n
    BY <2>2, DaysAre
  <2>4. DayLen \in Nat \ {0} /\ d * DayLen \in Nat /\ n \in Nat /\ n = d * DayLen + DayLen
        /\ m \in 0 .. DayLen - 1
    BY <2>2, DayLenAssumption
  <2> QED
    BY <2>2, <2>3, <2>4
<1>2. e \in Nat /\ e \div DayLen = d /\ e % DayLen = m
  <2> HIDE DEF m, d
  <2> QED
    BY <1>1, WallIs
<1>3. OnWall(e) = Closed
  <2> HIDE DEF e, d
  <2> QED
    BY <1>1, <1>2, DayEndsClosed DEF OnWall, Wins
<1>4. e < n /\ a <= e
  <2>1. e = n - 1
    BY <1>1
  <2> HIDE DEF a, d, m, e, n
  <2> QED
    BY <1>1, <2>1
<1>5. PICK w \in a + 1 .. e : IsEdge(w) /\ OnWall(w) = OnWall(e)
  <2>1. OnWall(a) # OnWall(e)
    BY <1>3 DEF At
  <2> HIDE DEF a, d, m, e, n
  <2> QED
    BY <1>1, <1>2, <1>4, <2>1, WallEdge
<1>6. n <= SearchEnd /\ SearchEnd \in Nat
  <2>1. SearchEnd = n + WeekLen * DayLen /\ WeekLen * DayLen \in Nat
    BY <1>1, WeekLenAssumption DEF SearchEnd
  <2> HIDE DEF n
  <2> QED
    BY <1>1, <2>1
<1> HIDE DEF a, d, m, e, n
<1>7. w \in Nat /\ a < w /\ w < n /\ w < SearchEnd
  BY <1>1, <1>2, <1>4, <1>5, <1>6
<1>8. w \in EdgesTo(K)
  BY <1>3, <1>5, <1>7 DEF EdgesTo, a
<1>9. EdgesTo(K) \subseteq Nat
  BY DEF EdgesTo
<1>10. PICK v \in EdgesTo(K) : \A u \in EdgesTo(K) : v <= u
  BY <1>8, <1>9, Least
<1>11. v < n
  BY <1>1, <1>7, <1>8, <1>9, <1>10
<1> QED
  BY <1>8, <1>10, <1>11 DEF n, d

\* An edge of today's or of yesterday's has an instant within the search.
LEMMA TodayReaches ==
    ASSUME HoursInv, Undisturbed, NEW w \in Nat, IsEdge(w), w < (DayOf(zone, now) + 1) * DayLen
    PROVE  w < SearchEnd /\ Wall(zone, Inst(w)) < SearchEnd
<1> DEFINE d == DayOf(zone, now)
           n == (d + 1) * DayLen
           p == WeekLen * DayLen
           j == zone.jump
           k == zone.shift
<1>1. d \in Nat /\ n \in Nat /\ p \in Nat /\ DayLen <= p /\ DayLen \in Nat /\ SearchEnd = n + p
  <2>1. d \in Nat
    BY SearchEndIs
  <2>2. n \in Nat /\ p \in Nat /\ DayLen \in Nat /\ SearchEnd = n + p
    BY <2>1, DayLenAssumption, WeekLenAssumption DEF SearchEnd
  <2>3. PICK e \in Nat : WeekLen = e + 1
    <3>1. WeekLen - 1 \in Nat /\ WeekLen = (WeekLen - 1) + 1
      BY WeekLenAssumption
    <3> QED
      BY <3>1
  <2>4. p = e * DayLen + DayLen /\ e * DayLen \in Nat
    BY <2>3, DayLenAssumption
  <2>5. DayLen <= p
    <3> DEFINE q == e * DayLen
    <3> HIDE DEF p, q
    <3> QED
      BY <2>2, <2>4 DEF q
  <2> QED
    BY <2>1, <2>2, <2>5
<1>2. j \in Nat /\ k \in Int /\ j + k \in Nat /\ k <= DayLen
  BY ZoneIs
<1>3. w < n
  OBVIOUS
<1>4. w < SearchEnd
  <2> HIDE DEF d, n, p
  <2> QED
    BY <1>1, <1>3
<1>5. \/ Wall(zone, Inst(w)) = w
      \/ k > 0 /\ w \in j .. j + k - 1 /\ Wall(zone, Inst(w)) = j + k
  BY InstWall
<1>6. k > 0 => w \notin j + 1 .. j + k - 1
  BY <1>4, EdgesApart
<1>7. Wall(zone, Inst(w)) < SearchEnd
  <2> HIDE DEF d, n, p, j, k
  <2> QED
    BY <1>1, <1>2, <1>3, <1>4, <1>5, <1>6
<1> QED
  BY <1>4, <1>7

Labels == {OnWall(w) : w \in Nat} \cup {Closed}

\* The instants ahead are later ones, and have a label.
LEMMA AheadAre ==
    ASSUME HoursInv, NEW t \in Ahead
    PROVE  t \in Nat /\ t > now /\ At(t) \in Labels
<1>1. now \in Nat /\ (WeekLen + 2) * DayLen \in Nat
  BY WeekLenAssumption, DayLenAssumption DEF HoursInv
<1>2. t \in Nat /\ t > now
  BY <1>1 DEF Ahead
<1>3. Wall(zone, t) \in Nat
  BY <1>2, InstWall
<1> QED
  BY <1>2, <1>3 DEF Labels, At

\* Two runnable labels are one if they name one time.
LEMMA SameTime ==
    ASSUME NEW v, NEW w, Runnable(OnWall(v)), Runnable(OnWall(w))
    PROVE  OnWall(v).time = OnWall(w).time <=> OnWall(v) = OnWall(w)
BY LabelIs DEF OnWall

\* The least of a set of instants.
LEMMA MinIs ==
    ASSUME NEW S, NEW x \in S, x \in Int, \A y \in S : x <= y, S \subseteq Int
    PROVE  S # {} /\ Min(S) = x
<1>1. Min(S) \in S /\ \A y \in S : Min(S) <= y
  BY DEF Min
<1>2. Min(S) \in Int /\ Min(S) <= x /\ x <= Min(S)
  BY <1>1
<1>3. \A y \in Int : y <= x /\ x <= y => y = x
  OBVIOUS
<1> QED
  BY <1>2, <1>3

\* The countdown of an open span, on labels: another label's first instant.
LEMMA FirstTimesEnd ==
    ASSUME HoursInv, Readable(sched), Runnable(At(now)),
           NEW x \in Have(Labels \ {At(now)}), \A y \in Have(Labels \ {At(now)}) : x <= y
    PROVE  FirstAhead(LAMBDA t : Times(t).is # "open" \/ Times(t).time # Times(now).time) = x - now
<1> DEFINE K == Labels \ {At(now)}
           I == {t \in Ahead : Times(t).is # "open" \/ Times(t).time # Times(now).time}
<1>1. ASSUME NEW t \in Ahead
      PROVE  (Times(t).is # "open" \/ Times(t).time # Times(now).time) <=> At(t) \in K
  <2>1. At(t) \in Labels
    BY <1>1, AheadAre
  <2>2. /\ Times(t).is = "open" <=> Runnable(At(t))
        /\ Times(t).is = "open" => Times(t).time = At(t).time
    BY OpenIs
  <2>3. Times(now).time = At(now).time
    BY OpenIs
  <2>4. Runnable(At(t)) => (At(t).time = At(now).time <=> At(t) = At(now))
    BY SameTime DEF At
  <2> QED
    BY <2>1, <2>2, <2>3, <2>4
<1>2. I = Have(K)
  BY <1>1 DEF Have
<1>3. I \subseteq Int
  BY AheadAre
<1> HIDE DEF K
<1>4. I # {} /\ Min(I) = x
  BY <1>2, <1>3, MinIs DEF K
<1> QED
  BY <1>4 DEF FirstAhead

\* And the classic one's: the first closed instant.
LEMMA FirstClassicEnd ==
    ASSUME HoursInv, Readable(sched),
           NEW x \in Have({Closed}), \A y \in Have({Closed}) : x <= y
    PROVE  FirstAhead(LAMBDA t : Classic(t).is # "open") = x - now
<1> DEFINE I == {t \in Ahead : Classic(t).is # "open"}
<1>1. I = Have({Closed})
  BY OpenIs DEF Have
<1>2. I \subseteq Int
  BY AheadAre
<1>3. I # {} /\ Min(I) = x
  BY <1>1, <1>2, MinIs
<1> QED
  BY <1>3 DEF FirstAhead

\* Today's minutes, and their walls.
LEMMA TodayIs ==
    ASSUME HoursInv
    PROVE  /\ DayOf(zone, now) \in Nat /\ MinuteOf(zone, now) \in 0 .. DayLen - 1
           /\ Wall(zone, now) = DayOf(zone, now) * DayLen + MinuteOf(zone, now)
           /\ Wall(zone, now) \in Nat /\ DayOf(zone, now) * DayLen \in Nat
           /\ (DayOf(zone, now) + 1) * DayLen = DayOf(zone, now) * DayLen + DayLen
           /\ (DayOf(zone, now) + 1) * DayLen <= SearchEnd
           /\ At(now) = LabelAt(DayWindows(sched, DayOf(zone, now)), MinuteOf(zone, now))
<1> DEFINE a == Wall(zone, now)
           d == DayOf(zone, now)
           m == MinuteOf(zone, now)
           n == (d + 1) * DayLen
<1>1. a \in Nat /\ d = a \div DayLen /\ m = a % DayLen
  BY InstWall DEF DayOf, MinuteOf, HoursInv
<1>2. d \in Nat /\ m \in 0 .. DayLen - 1 /\ m = a - DayLen * d
  BY <1>1, DaysAre
<1>3. d * DayLen \in Nat /\ DayLen * d = d * DayLen /\ n = d * DayLen + DayLen /\ n \in Nat
  BY <1>2, DayLenAssumption
<1>4. SearchEnd = n + WeekLen * DayLen /\ WeekLen * DayLen \in Nat
  BY <1>2, DayLenAssumption, WeekLenAssumption DEF SearchEnd
<1>5. At(now) = LabelAt(DayWindows(sched, d), m)
  BY DEF At, OnWall, Wins, DayOf, MinuteOf
<1> DEFINE p == WeekLen * DayLen
           q == d * DayLen
<1>6. a = q + m /\ n <= SearchEnd
  <2> HIDE DEF a, m, n, p, d
  <2>1. n <= SearchEnd
    BY <1>3, <1>4 DEF p
  <2>2. a = q + m
    <3> HIDE DEF q
    <3> QED
      BY <1>1, <1>2, <1>3 DEF q
  <2> QED
    BY <2>1, <2>2
<1> QED
  BY <1>1, <1>2, <1>3, <1>5, <1>6

\* A boundary of a day's is an edge on the wall, and brings the label that it has.
LEMMA EdgeOf ==
    ASSUME HoursInv, NEW d \in Nat, NEW b \in Boundaries(DayWindows(sched, d))
    PROVE  /\ b \in 0 .. DayLen - 1 /\ d * DayLen + b \in Nat /\ IsEdge(d * DayLen + b)
           /\ OnWall(d * DayLen + b) = LabelAt(DayWindows(sched, d), b)
<1>1. b \in 0 .. DayLen - 1
  BY DayWindowsAre
<1>2. (d * DayLen + b) \div DayLen = d /\ (d * DayLen + b) % DayLen = b /\ d * DayLen + b \in Nat
  BY <1>1, WallIs
<1> DEFINE w == d * DayLen + b
<1>3. w \div DayLen = d /\ w % DayLen = b
  BY <1>2
<1> HIDE DEF w
<1>4. IsEdge(w) /\ OnWall(w) = LabelAt(DayWindows(sched, d), b)
  BY <1>3 DEF IsEdge, OnWall, Wins
<1> QED
  BY <1>1, <1>2, <1>4 DEF w

\* And an edge on the wall is a boundary of its day.
LEMMA EdgeIs ==
    ASSUME HoursInv, NEW d \in Nat, NEW w \in Nat, IsEdge(w), d * DayLen <= w, w < (d + 1) * DayLen
    PROVE  \E b \in Boundaries(DayWindows(sched, d)) :
             w = d * DayLen + b /\ b \in 0 .. DayLen - 1
             /\ OnWall(w) = LabelAt(DayWindows(sched, d), b)
<1> DEFINE b == w % DayLen
<1>1. w \div DayLen = d
  BY DayIs
<1>2. b \in 0 .. DayLen - 1 /\ b = w - DayLen * d
  BY <1>1, DaysAre
<1>3. DayLen * d = d * DayLen /\ d * DayLen \in Nat
  BY DayLenAssumption
<1>4. b \in Boundaries(DayWindows(sched, d)) /\ OnWall(w) = LabelAt(DayWindows(sched, d), b)
  BY <1>1 DEF IsEdge, OnWall, Wins
<1>5. w = d * DayLen + b
  <2> DEFINE q == d * DayLen
  <2> HIDE DEF b
  <2>1. b = w - q /\ q \in Nat
    BY <1>2, <1>3
  <2> HIDE DEF q
  <2>2. w = q + b
    BY <1>2, <2>1
  <2> QED
    BY <2>2 DEF q
<1> QED
  BY <1>2, <1>4, <1>5

\* span_end_minute, on the wall: today's first edge to another label.
LEMMA SpanEndIs ==
    ASSUME HoursInv, At(now) # Closed,
           NEW w \in EdgesTo(Labels \ {At(now)}), \A v \in EdgesTo(Labels \ {At(now)}) : w <= v,
           w < (DayOf(zone, now) + 1) * DayLen
    PROVE  LocalWallTs(zone, DayOf(zone, now),
                       SpanEndMinute(DayWindows(sched, DayOf(zone, now)), MinuteOf(zone, now))) = Inst(w)
<1> DEFINE d == DayOf(zone, now)
           m == MinuteOf(zone, now)
           wins == DayWindows(sched, d)
           ends == {b \in Boundaries(wins): b > m /\ LabelAt(wins, b) # LabelAt(wins, m)}
           K == Labels \ {At(now)}
           a == Wall(zone, now)
           q == d * DayLen
           n == (d + 1) * DayLen
<1>1. d \in Nat /\ m \in 0 .. DayLen - 1 /\ a = q + m /\ a \in Nat /\ q \in Nat /\ n = q + DayLen
      /\ n <= SearchEnd /\ At(now) = LabelAt(wins, m)
  BY TodayIs
<1>2. w \in Nat /\ IsEdge(w) /\ w < SearchEnd /\ a < w /\ OnWall(w) \in K /\ w < n
  BY DEF EdgesTo
<1>3. PICK e \in Boundaries(wins) : w = q + e /\ e \in 0 .. DayLen - 1 /\ OnWall(w) = LabelAt(wins, e)
  <2>1. q <= w
    <3> HIDE DEF a, q, m
    <3> QED
      BY <1>1, <1>2
  <2> QED
    BY <1>1, <1>2, <2>1, EdgeIs
<1>4. e \in ends
  <2>1. e > m
    <3> HIDE DEF a, q, m
    <3> QED
      BY <1>1, <1>2, <1>3
  <2>2. LabelAt(wins, e) # LabelAt(wins, m)
    BY <1>1, <1>2, <1>3
  <2> QED
    BY <1>3, <2>1, <2>2
<1>5. ASSUME NEW b \in ends PROVE e <= b
  <2> DEFINE v == q + b
  <2>1. b \in 0 .. DayLen - 1 /\ v \in Nat /\ IsEdge(v) /\ OnWall(v) = LabelAt(wins, b)
    BY <1>1, EdgeOf
  <2>2. b > m /\ LabelAt(wins, b) # LabelAt(wins, m)
    OBVIOUS
  <2>3. v < SearchEnd /\ a < v
    <3>1. SearchEnd \in Nat
      BY SearchEndIs
    <3> HIDE DEF a, q, m, n
    <3> QED
      BY <1>1, <2>1, <2>2, <3>1, DayLenAssumption DEF v
  <2>4. OnWall(v) \in K
    <3> HIDE DEF v
    <3> QED
      BY <1>1, <2>1, <2>2 DEF Labels
  <2>5. v \in EdgesTo(K)
    <3> HIDE DEF v, K
    <3> QED
      BY <2>1, <2>3, <2>4 DEF EdgesTo
  <2>6. w <= v
    BY <2>5
  <2> HIDE DEF q
  <2> QED
    BY <1>1, <1>3, <2>1, <2>6
<1>6. ends \subseteq Int
  BY <1>1, DayWindowsAre
<1>7. SpanEndMinute(wins, m) = IF ends = {} THEN DayLen ELSE Min(ends)
  BY DEF SpanEndMinute
<1>8. e \in Int
  BY <1>3
<1> HIDE DEF ends
<1>9. ends # {} /\ Min(ends) = e
  BY <1>4, <1>5, <1>6, <1>8, MinIs
<1>10. SpanEndMinute(wins, m) = e
  BY <1>7, <1>9
<1> QED
  BY <1>3, <1>10, InstIs

\* evaluate_times: a span's end is where another label begins.
LEMMA TimesEndIsTrue ==
    ASSUME HoursInv, Undisturbed, Readable(sched), Times(now).is = "open"
    PROVE  Times(now).until - now =
             FirstAhead(LAMBDA t : Times(t).is # "open" \/ Times(t).time # Times(now).time)
<1> DEFINE K == Labels \ {At(now)}
<1>1. Runnable(At(now)) /\ At(now) # Closed /\ now \in Nat
  <2>1. Runnable(At(now))
    BY OpenIs
  <2>2. now \in Nat
    BY DEF HoursInv
  <2> QED
    BY <2>1, <2>2 DEF Runnable, Closed
<1>2. Closed \in K /\ At(now) \notin K
  BY <1>1 DEF Labels
<1>3. PICK w \in EdgesTo(K) : (\A v \in EdgesTo(K) : w <= v) /\ w < (DayOf(zone, now) + 1) * DayLen
  BY <1>1, <1>2, EdgeToday
<1>4. w \in Nat /\ IsEdge(w)
  BY DEF EdgesTo
<1>5. Wall(zone, Inst(w)) < SearchEnd
  BY <1>3, <1>4, TodayReaches
<1>6. Inst(w) \in Nat /\ Inst(w) > now /\ Inst(w) \in Have(K) /\ \A t \in Have(K) : Inst(w) <= t
  BY <1>2, <1>3, <1>5, FirstEdge
<1>7. FirstAhead(LAMBDA t : Times(t).is # "open" \/ Times(t).time # Times(now).time) = Inst(w) - now
  BY <1>1, <1>6, FirstTimesEnd
<1>8. Times(now).until = Max({Inst(w), now})
  BY <1>1, <1>3, SpanEndIs, OpenIs
<1>9. Max({Inst(w), now}) = Inst(w)
  <2>1. \A x \in Nat, y \in Nat : x > y => (CHOOSE z \in {x, y} : \A u \in {x, y} : z >= u) = x
    OBVIOUS
  <2> QED
    BY <1>1, <1>6, <2>1 DEF Max
<1> QED
  BY <1>7, <1>8, <1>9

\* The classic countdown is to the end of one of the windows an instant is in.
LEMMA ClassicLeft ==
    ASSUME HoursInv, Readable(sched), At(now) # Closed
    PROVE  LET wins == DayWindows(sched, DayOf(zone, now))
           IN \E i \in DOMAIN wins :
                /\ Covers(wins[i], MinuteOf(zone, now))
                /\ Classic(now).left =
                     Max({0, LocalWallTs(zone, DayOf(zone, now), wins[i].end) - now})
<1> DEFINE wins == DayWindows(sched, DayOf(zone, now))
           C == {i \in DOMAIN wins : Covers(wins[i], MinuteOf(zone, now))}
<1>1. C # {}
  BY TodayIs, LabelIs
<1>2. C \subseteq Nat
  BY TodayIs, DayWindowsAre
<1>3. PICK i \in C : \A k \in C : i <= k
  BY <1>1, <1>2, Least
<1>4. C \subseteq Int /\ i \in Int
  BY <1>2
<1>5. Min(C) = i
  <2> HIDE DEF C
  <2> QED
    BY <1>3, <1>4, MinIs
<1>6. sched.version /\ ~sched.paused /\ sched.zoned /\ ~IsUnbounded(sched)
  BY DEF Readable
<1>7. Classic(now) =
        IF C # {}
        THEN [is |-> "open",
              left |-> Max({0, LocalWallTs(zone, DayOf(zone, now), wins[Min(C)].end) - now})]
        ELSE [is |-> "locked", opens |-> NextStart(sched, zone, now)]
  BY <1>6 DEF Classic, EvaluateGrantSchedule
<1>8. Classic(now).left = Max({0, LocalWallTs(zone, DayOf(zone, now), wins[i].end) - now})
  <2> HIDE DEF C, wins
  <2> QED
    BY <1>1, <1>5, <1>7
<1>9. i \in DOMAIN wins /\ Covers(wins[i], MinuteOf(zone, now))
  OBVIOUS
<1> QED
  BY <1>8, <1>9

\* The walls a window covers are not closed.
LEMMA CoveredIs ==
    ASSUME HoursInv, NEW d \in Nat, NEW m \in 0 .. DayLen - 1,
           \E i \in DOMAIN DayWindows(sched, d) : Covers(DayWindows(sched, d)[i], m)
    PROVE  OnWall(d * DayLen + m) # Closed
<1> DEFINE w == d * DayLen + m
<1>1. w \div DayLen = d /\ w % DayLen = m
  BY WallIs
<1> HIDE DEF w
<1>2. OnWall(w) = LabelAt(DayWindows(sched, d), m)
  BY <1>1 DEF OnWall, Wins
<1>3. OnWall(w) # Closed
  BY <1>2, LabelIs
<1> QED
  BY <1>3 DEF w

\* evaluate_grant_schedule: no window promises more than is open.
LEMMA ClassicEndIsTrue ==
    ASSUME HoursInv, Undisturbed, Readable(sched), Classic(now).is = "open"
    PROVE  Classic(now).left <= FirstAhead(LAMBDA t : Classic(t).is # "open")
<1> DEFINE K == {Closed}
           d == DayOf(zone, now)
           m == MinuteOf(zone, now)
           wins == DayWindows(sched, d)
           q == d * DayLen
           a == Wall(zone, now)
<1>1. At(now) # Closed
  BY OpenIs
<1>2. now \in Nat
  BY DEF HoursInv
<1>3. d \in Nat /\ m \in 0 .. DayLen - 1 /\ a = q + m /\ a \in Nat /\ q \in Nat
  BY TodayIs
<1>4. PICK w \in EdgesTo(K) : (\A v \in EdgesTo(K) : w <= v) /\ w < (DayOf(zone, now) + 1) * DayLen
  <2>1. Closed \in K
    OBVIOUS
  <2> HIDE DEF K
  <2> QED
    BY <1>1, <2>1, EdgeToday
<1>5. w \in Nat /\ IsEdge(w) /\ OnWall(w) = Closed /\ a < w
  BY DEF EdgesTo
<1>6. Wall(zone, Inst(w)) < SearchEnd
  BY <1>4, <1>5, TodayReaches
<1>7. Inst(w) \in Nat /\ Inst(w) > now /\ Inst(w) \in Have(K) /\ \A t \in Have(K) : Inst(w) <= t
  <2>1. At(now) \notin K
    BY <1>1
  <2> HIDE DEF K
  <2> QED
    BY <1>4, <1>6, <2>1, FirstEdge
<1>8. FirstAhead(LAMBDA t : Classic(t).is # "open") = Inst(w) - now
  BY <1>7, FirstClassicEnd
<1>9. PICK i \in DOMAIN wins :
        /\ Covers(wins[i], m)
        /\ Classic(now).left = Max({0, LocalWallTs(zone, d, wins[i].end) - now})
  BY <1>1, ClassicLeft
<1> DEFINE e == wins[i].end
           v == q + e
<1>10. e \in 0 .. DayLen - 1 /\ m < e /\ wins[i].start <= m /\ wins[i].start \in 0 .. DayLen - 1
  BY <1>3, <1>9, DayWindowsAre DEF Covers
<1>11. v \in Nat /\ v <= w
  <2>1. v \in Nat
    <3> HIDE DEF q, e
    <3> QED
      BY <1>3, <1>10
  <2>2. ASSUME w < v PROVE FALSE
    <3> DEFINE k == w - q
    <3>1. k \in 0 .. DayLen - 1 /\ m <= k /\ k < e /\ w = q + k
      <4> HIDE DEF q, e, a, m, d
      <4> QED
        BY <1>3, <1>5, <1>10, <2>2, DayLenAssumption
    <3> HIDE DEF k
    <3>2. Covers(wins[i], k)
      <4> HIDE DEF m
      <4> QED
        BY <1>3, <1>10, <3>1 DEF Covers
    <3>3. OnWall(q + k) # Closed
      BY <1>3, <3>1, <3>2, CoveredIs
    <3> QED
      BY <1>5, <3>1, <3>3
  <2> HIDE DEF v
  <2> QED
    BY <1>5, <2>1, <2>2
<1>12. LocalWallTs(zone, d, e) = Inst(v)
  BY InstIs
<1> HIDE DEF v, e
<1>13. Inst(v) <= Inst(w) /\ Inst(v) \in Nat
  BY <1>5, <1>11, InstWall
<1>14. Classic(now).left = Max({0, Inst(v) - now})
  BY <1>9, <1>12 DEF e
<1>15. Max({0, Inst(v) - now}) <= Inst(w) - now
  <2> DEFINE x == Inst(v) - now
             y == Inst(w) - now
  <2>1. x \in Int /\ y \in Int /\ x <= y /\ 0 <= y
    BY <1>2, <1>7, <1>13
  <2> HIDE DEF x, y
  <2>2. Max({0, x}) \in {0, x}
    <3>1. \E z \in {0, x} : \A u \in {0, x} : z >= u
      BY <2>1
    <3> QED
      BY <3>1 DEF Max
  <2>3. Max({0, x}) <= y
    BY <2>1, <2>2
  <2> QED
    BY <2>3 DEF x, y
<1> QED
  BY <1>8, <1>14, <1>15

\* Every end that is announced is right.
LEMMA EndIsTrue ==
    ASSUME HoursInv
    PROVE  AnnouncedEndIsTrue
<1>1. CASE Readable(sched)
  BY <1>1, TimesEndIsTrue, ClassicEndIsTrue DEF AnnouncedEndIsTrue
<1>2. CASE ~Readable(sched)
  <2>1. Times(now).is # "open" /\ Classic(now).is # "open"
    BY <1>2, AnswersAre
  <2> QED
    BY <2>1 DEF AnnouncedEndIsTrue
<1> QED
  BY <1>1, <1>2

\* The days a search looks at are those of the edges ahead of now.
LEMMA ProbedIs ==
    ASSUME HoursInv
    PROVE  /\ \A e \in Probed(zone, now) : e \in Nat
           /\ \A e \in Probed(zone, now), b \in 0 .. DayLen - 1 : e * DayLen + b < SearchEnd
           /\ \A w \in Nat : Wall(zone, now) < w /\ w < SearchEnd => w \div DayLen \in Probed(zone, now)
<1> DEFINE d == DayOf(zone, now)
           a == Wall(zone, now)
           l == d + WeekLen
<1>1. d \in Nat /\ a \in Nat /\ d * DayLen <= a /\ d * DayLen \in Nat /\ WeekLen \in Nat /\ l \in Nat
      /\ Probed(zone, now) = d .. l
  <2>1. d \in Nat /\ a = d * DayLen + MinuteOf(zone, now) /\ a \in Nat
        /\ d * DayLen \in Nat /\ MinuteOf(zone, now) \in Nat
    BY TodayIs, DayLenAssumption
  <2>2. d * DayLen <= a
    <3> DEFINE q == d * DayLen
    <3> HIDE DEF a, d
    <3>1. q <= a
      <4> HIDE DEF q
      <4> QED
        BY <2>1 DEF q
    <3> QED
      BY <3>1
  <2> QED
    BY <2>1, <2>2, WeekLenAssumption DEF Probed
<1>2. \A e \in Probed(zone, now) : e \in Nat
  BY <1>1
<1>3. SearchEnd = l * DayLen + DayLen /\ l * DayLen \in Nat /\ SearchEnd = (l + 1) * DayLen
  <2>1. SearchEnd = (l + 1) * DayLen
    BY DEF SearchEnd
  <2> HIDE DEF l
  <2>2. (l + 1) * DayLen = l * DayLen + DayLen /\ l * DayLen \in Nat
    BY <1>1, DayLenAssumption
  <2> QED
    BY <2>1, <2>2
<1>4. ASSUME NEW e \in Probed(zone, now), NEW b \in 0 .. DayLen - 1
      PROVE  e * DayLen + b < SearchEnd
  <2>1. e \in Nat /\ e <= l
    BY <1>1
  <2>2. e * DayLen \in Nat /\ (e + 1) * DayLen = e * DayLen + DayLen
    BY <2>1, DayLenAssumption
  <2>3. e * DayLen + DayLen <= SearchEnd
    <3>1. CASE e = l
      BY <1>3, <2>2, <3>1
    <3>2. CASE e < l
      <4>1. (e + 1) * DayLen <= l * DayLen
        <5> HIDE DEF l
        <5> QED
          BY <1>1, <2>1, <3>2, DaysApart
      <4> DEFINE x == l * DayLen
                 y == (e + 1) * DayLen
      <4>2. x <= SearchEnd
        BY <1>3, DayLenAssumption
      <4>3. x \in Nat /\ y \in Nat /\ y <= x
        BY <1>3, <2>2, <4>1, DayLenAssumption
      <4>4. SearchEnd \in Nat
        BY SearchEndIs
      <4>5. y <= SearchEnd
        <5> HIDE DEF x, y
        <5> QED
          BY <4>2, <4>3, <4>4
      <4> QED
        BY <2>2, <4>5
    <3> HIDE DEF l
    <3> QED
      BY <1>1, <2>1, <3>1, <3>2
  <2> DEFINE x == e * DayLen
  <2>4. SearchEnd \in Nat
    BY SearchEndIs
  <2> HIDE DEF x
  <2>5. x + b < SearchEnd
    BY <2>2, <2>3, <2>4, DayLenAssumption DEF x
  <2> QED
    BY <2>5 DEF x
<1>5. ASSUME NEW w \in Nat, a < w, w < SearchEnd PROVE w \div DayLen \in Probed(zone, now)
  <2>1. w \div DayLen \in Nat /\ w \div DayLen <= l
    <3>1. w \div DayLen \in Days
      BY <1>5, SearchEndIs
    <3> QED
      BY <1>1, <3>1 DEF Days
  <2>2. w \div DayLen >= d
    <3> DEFINE q == w \div DayLen
               x == (q + 1) * DayLen
               y == d * DayLen
    <3>1. q \in Nat /\ w < x
      BY DaysAre
    <3>2. ASSUME q < d PROVE FALSE
      <4>1. x <= y /\ x \in Nat /\ y \in Nat
        <5>1. x \in Nat
          BY <3>1, DayLenAssumption
        <5> HIDE DEF q
        <5> QED
          BY <1>1, <3>1, <3>2, <5>1, DaysApart
      <4> HIDE DEF x, y, a
      <4> QED
        BY <1>1, <1>5, <3>1, <4>1 DEF y
    <3> HIDE DEF q, d
    <3>3. q >= d
      BY <1>1, <3>1, <3>2
    <3> QED
      BY <3>3 DEF q
  <2> QED
    BY <1>1, <2>1, <2>2
<1> QED
  BY <1>2, <1>4, <1>5

\* An edge ahead is a boundary of a probed day.
LEMMA ProbedEdge ==
    ASSUME HoursInv, NEW K, NEW w \in EdgesTo(K)
    PROVE  \E e \in Probed(zone, now) : \E b \in Boundaries(DayWindows(sched, e)) :
             /\ w = e * DayLen + b /\ b \in 0 .. DayLen - 1
             /\ OnWall(w) = LabelAt(DayWindows(sched, e), b)
<1>1. w \in Nat /\ IsEdge(w) /\ w < SearchEnd /\ Wall(zone, now) < w
  BY DEF EdgesTo
<1>2. PICK e \in Probed(zone, now) : e = w \div DayLen
  BY <1>1, ProbedIs
<1>3. e \in Nat /\ e * DayLen <= w /\ w < (e + 1) * DayLen
  BY <1>1, <1>2, DaysAre
<1> QED
  BY <1>1, <1>3, EdgeIs

\* And a boundary of a probed day is an edge, ahead if its instant is.
LEMMA EdgeProbed ==
    ASSUME HoursInv, Undisturbed, NEW e \in Probed(zone, now), NEW b \in Boundaries(DayWindows(sched, e))
    PROVE  /\ e * DayLen + b \in Nat /\ IsEdge(e * DayLen + b) /\ e * DayLen + b < SearchEnd
           /\ OnWall(e * DayLen + b) = LabelAt(DayWindows(sched, e), b)
           /\ LocalWallTs(zone, e, b) = Inst(e * DayLen + b)
           /\ Inst(e * DayLen + b) \in Nat
           /\ Inst(e * DayLen + b) > now <=> Wall(zone, now) < e * DayLen + b
<1> DEFINE w == e * DayLen + b
<1>1. e \in Nat /\ b \in 0 .. DayLen - 1
  BY ProbedIs, DayWindowsAre
<1>2. w \in Nat /\ IsEdge(w) /\ OnWall(w) = LabelAt(DayWindows(sched, e), b)
  BY <1>1, EdgeOf
<1>3. w < SearchEnd
  BY <1>1, ProbedIs
<1>4. LocalWallTs(zone, e, b) = Inst(w)
  BY InstIs
<1> HIDE DEF w
<1>5. now \in Nat
  BY DEF HoursInv
<1>6. Inst(w) \in Nat /\ Wall(zone, now) \in Nat /\ (Inst(w) <= now <=> w <= Wall(zone, now))
  BY <1>2, <1>3, <1>5, InstWall, EdgePast
<1>7. Inst(w) > now <=> Wall(zone, now) < w
  BY <1>2, <1>5, <1>6
<1> QED
  BY <1>2, <1>3, <1>4, <1>6, <1>7 DEF w

\* A countdown to instants of which the first are the first edges' ends at the first instant.
LEMMA FirstOfIs ==
    ASSUME HoursInv, Undisturbed, NEW K, At(now) \notin K, Closed \notin K, NEW S,
           \A i \in S : i \in Int /\ (i > now => \E w \in EdgesTo(K) : Inst(w) <= i),
           \A w \in EdgesTo(K) : \E i \in S : i > now /\ i <= Inst(w)
    PROVE  SecondsTo(S, now) = IF Have(K) = {} THEN None ELSE Min(Have(K)) - now
<1> DEFINE L == {i \in S : i > now}
<1>1. SecondsTo(S, now) = IF L = {} THEN None ELSE Min(L) - now
  BY DEF SecondsTo
<1>2. CASE EdgesTo(K) = {}
  <2>1. L = {}
    BY <1>2
  <2>2. Have(K) = {}
    BY <1>2, HaveEdge
  <2> QED
    BY <1>1, <2>1, <2>2
<1>3. CASE EdgesTo(K) # {}
  <2>1. EdgesTo(K) \subseteq Nat
    BY DEF EdgesTo
  <2>2. PICK w \in EdgesTo(K) : \A v \in EdgesTo(K) : w <= v
    BY <1>3, <2>1, Least
  <2>3. Inst(w) \in Nat /\ Inst(w) > now /\ Inst(w) \in Have(K) /\ \A t \in Have(K) : Inst(w) <= t
    BY <2>2, FirstEdge
  <2>4. Have(K) \subseteq Int
    BY AheadAre DEF Have
  <2>5. Have(K) # {} /\ Min(Have(K)) = Inst(w)
    BY <2>3, <2>4, MinIs
  <2>6. ASSUME NEW i \in L PROVE Inst(w) <= i
    <3>1. PICK v \in EdgesTo(K) : Inst(v) <= i
      OBVIOUS
    <3>2. v \in Nat /\ w \in Nat /\ w <= v
      BY <2>1, <2>2
    <3>3. Inst(w) <= Inst(v) /\ Inst(v) \in Nat
      BY <2>3, <3>2, InstWall
    <3>4. i \in Int
      OBVIOUS
    <3> QED
      BY <2>3, <3>1, <3>3, <3>4
  <2>7. PICK i \in S : i > now /\ i <= Inst(w)
    OBVIOUS
  <2>8. i \in L /\ i \in Int
    BY <2>7
  <2>9. Inst(w) <= i
    BY <2>6, <2>8
  <2>10. i = Inst(w)
    <3>1. i <= Inst(w)
      BY <2>7
    <3> HIDE DEF L
    <3> QED
      BY <2>3, <2>8, <2>9, <3>1
  <2>11. L \subseteq Int
    OBVIOUS
  <2> HIDE DEF L
  <2>12. L # {} /\ Min(L) = Inst(w)
    BY <2>3, <2>6, <2>8, <2>10, <2>11, MinIs
  <2> QED
    BY <1>1, <2>5, <2>12
<1> QED
  BY <1>2, <1>3

MayOpen == {l \in Labels : Runnable(l)}

\* next_open_secs of times.rs: the first edge that brings a runnable label.
LEMMA TimesOpeningIsTrue ==
    ASSUME HoursInv, Undisturbed, Readable(sched), Times(now).is = "locked"
    PROVE  Times(now).opens = FirstAhead(LAMBDA t : Times(t).is = "open")
<1> DEFINE S == UNION {{LocalWallTs(zone, d, b) : b \in {b \in Boundaries(DayWindows(sched, d)):
                                                    Runnable(LabelAt(DayWindows(sched, d), b))}}
                       : d \in Probed(zone, now)}
           I == {t \in Ahead : Times(t).is = "open"}
<1>1. Times(now).opens = NextOpen(sched, zone, now) /\ ~Runnable(At(now))
  BY OpenIs
<1>2. NextOpen(sched, zone, now) = SecondsTo(S, now)
  BY DEF NextOpen
<1>3. At(now) \notin MayOpen /\ Closed \notin MayOpen
  BY <1>1 DEF MayOpen, Runnable, Closed
<1>4. ASSUME NEW i \in S
      PROVE  i \in Int /\ (i > now => \E w \in EdgesTo(MayOpen) : Inst(w) <= i)
  <2>0. PICK e \in Probed(zone, now) : \E b \in Boundaries(DayWindows(sched, e)) :
            Runnable(LabelAt(DayWindows(sched, e), b)) /\ i = LocalWallTs(zone, e, b)
    OBVIOUS
  <2>1. PICK b \in Boundaries(DayWindows(sched, e)) :
            Runnable(LabelAt(DayWindows(sched, e), b)) /\ i = LocalWallTs(zone, e, b)
    BY <2>0
  <2> DEFINE w == e * DayLen + b
  <2>2. /\ w \in Nat /\ IsEdge(w) /\ w < SearchEnd
        /\ OnWall(w) = LabelAt(DayWindows(sched, e), b)
        /\ i = Inst(w) /\ Inst(w) \in Nat
        /\ Inst(w) > now <=> Wall(zone, now) < w
    BY <2>1, EdgeProbed
  <2> HIDE DEF w, S
  <2>3. OnWall(w) \in MayOpen
    BY <2>1, <2>2 DEF MayOpen, Labels
  <2>4. i > now => w \in EdgesTo(MayOpen)
    BY <2>2, <2>3 DEF EdgesTo
  <2> QED
    BY <2>2, <2>4
<1>5. ASSUME NEW w \in EdgesTo(MayOpen) PROVE \E i \in S : i > now /\ i <= Inst(w)
  <2>0. PICK e \in Probed(zone, now) : \E b \in Boundaries(DayWindows(sched, e)) :
            w = e * DayLen + b /\ OnWall(w) = LabelAt(DayWindows(sched, e), b)
    BY ProbedEdge
  <2>1. PICK b \in Boundaries(DayWindows(sched, e)) :
            w = e * DayLen + b /\ OnWall(w) = LabelAt(DayWindows(sched, e), b)
    BY <2>0
  <2>2. LocalWallTs(zone, e, b) = Inst(w) /\ Inst(w) \in Nat
        /\ (Inst(w) > now <=> Wall(zone, now) < w)
    BY <2>1, EdgeProbed
  <2>3. Runnable(LabelAt(DayWindows(sched, e), b)) /\ Wall(zone, now) < w
    BY <2>1 DEF EdgesTo, MayOpen
  <2>4. Inst(w) \in S
    BY <2>2, <2>3
  <2> QED
    BY <2>2, <2>3, <2>4
<1> HIDE DEF S
<1>6. SecondsTo(S, now) = IF Have(MayOpen) = {} THEN None ELSE Min(Have(MayOpen)) - now
  BY <1>3, <1>4, <1>5, FirstOfIs
<1>7. I = Have(MayOpen)
  <2>1. ASSUME NEW t \in Ahead PROVE Times(t).is = "open" <=> At(t) \in MayOpen
    BY AheadAre, OpenIs DEF MayOpen
  <2> QED
    BY <2>1 DEF Have
<1> QED
  BY <1>1, <1>2, <1>6, <1>7 DEF FirstAhead

\* To a device that knows no tags, a day opens with a window's start.
Opened == Labels \ {Closed}

\* A window that covers an edge ahead starts ahead too, when now is closed.
LEMMA StartsAre ==
    ASSUME HoursInv, Undisturbed, At(now) = Closed, NEW w \in EdgesTo(Opened)
    PROVE  \E e \in Probed(zone, now) : \E win \in Range(DayWindows(sched, e)) :
             LocalWallTs(zone, e, win.start) > now /\ LocalWallTs(zone, e, win.start) <= Inst(w)
<1>0. PICK e \in Probed(zone, now) : \E b \in Boundaries(DayWindows(sched, e)) :
          w = e * DayLen + b /\ b \in 0 .. DayLen - 1 /\ OnWall(w) = LabelAt(DayWindows(sched, e), b)
  BY ProbedEdge
<1>1. PICK b \in Boundaries(DayWindows(sched, e)) :
          w = e * DayLen + b /\ b \in 0 .. DayLen - 1 /\ OnWall(w) = LabelAt(DayWindows(sched, e), b)
  BY <1>0
<1> DEFINE wins == DayWindows(sched, e)
           n == e * DayLen
           a == Wall(zone, now)
<1>2. w \in Nat /\ a < w /\ OnWall(w) # Closed
  BY DEF EdgesTo, Opened
<1>3. e \in Nat /\ n \in Nat /\ a \in Nat
  <2>1. now \in Nat
    BY DEF HoursInv
  <2> QED
    BY <2>1, ProbedIs, InstWall, DayLenAssumption
<1>4. PICK i \in DOMAIN wins : Covers(wins[i], b)
  BY <1>1, <1>2, LabelIs
<1> DEFINE s == wins[i].start
           v == n + s
<1>5. s \in Boundaries(wins) /\ s \in 0 .. DayLen - 1 /\ wins[i].end \in 0 .. DayLen - 1
      /\ s <= b /\ b < wins[i].end
  BY <1>3, <1>4, DayWindowsAre DEF Boundaries, Covers
<1>6. LocalWallTs(zone, e, s) = Inst(v) /\ v \in Nat /\ Inst(v) \in Nat
      /\ (Inst(v) > now <=> a < v)
  BY <1>5, EdgeProbed
<1>7. v <= w
  <2> HIDE DEF n, s
  <2> QED
    BY <1>1, <1>3, <1>5 DEF n
<1>8. Inst(v) <= Inst(w)
  <2> HIDE DEF v
  <2> QED
    BY <1>2, <1>6, <1>7, InstWall
<1>9. ASSUME v <= a PROVE FALSE
  <2> DEFINE k == a - n
  <2>1. k \in 0 .. DayLen - 1 /\ s <= k /\ k < b /\ a = n + k
    <3> HIDE DEF n, s, a
    <3> QED
      BY <1>1, <1>2, <1>3, <1>5, <1>9, DayLenAssumption DEF n
  <2> HIDE DEF k
  <2>2. Covers(wins[i], k)
    <3> HIDE DEF n, a
    <3> QED
      BY <1>1, <1>5, <2>1, DayLenAssumption DEF Covers
  <2>3. OnWall(n + k) # Closed
    BY <1>3, <2>1, <2>2, CoveredIs
  <2>4. OnWall(a) = Closed
    BY DEF At
  <2> QED
    BY <2>1, <2>3, <2>4
<1>10. Inst(v) > now
  <2> HIDE DEF a, v
  <2> QED
    BY <1>3, <1>6, <1>9
<1>11. wins[i] \in Range(wins)
  BY DEF Range
<1> QED
  BY <1>6, <1>8, <1>10, <1>11

\* next_open_secs of schedule_eval.rs: the first edge that brings any label.
LEMMA ClassicOpeningIsTrue ==
    ASSUME HoursInv, Undisturbed, Readable(sched), Classic(now).is = "locked"
    PROVE  Classic(now).opens = FirstAhead(LAMBDA t : Classic(t).is = "open")
<1> DEFINE S == UNION {{LocalWallTs(zone, d, w.start) : w \in Range(DayWindows(sched, d))}
                       : d \in Probed(zone, now)}
           I == {t \in Ahead : Classic(t).is = "open"}
<1>1. Classic(now).opens = NextStart(sched, zone, now) /\ At(now) = Closed
  BY OpenIs
<1>2. NextStart(sched, zone, now) = SecondsTo(S, now)
  BY DEF NextStart
<1>3. At(now) \notin Opened /\ Closed \notin Opened
  BY <1>1 DEF Opened
<1>4. ASSUME NEW i \in S
      PROVE  i \in Int /\ (i > now => \E w \in EdgesTo(Opened) : Inst(w) <= i)
  <2>0. PICK e \in Probed(zone, now) : \E win \in Range(DayWindows(sched, e)) :
            i = LocalWallTs(zone, e, win.start)
    OBVIOUS
  <2>1. PICK win \in Range(DayWindows(sched, e)) :
            i = LocalWallTs(zone, e, win.start)
    BY <2>0
  <2> DEFINE wins == DayWindows(sched, e)
             b == win.start
             w == e * DayLen + b
  <2>2. e \in Nat
    BY ProbedIs
  <2>3. PICK x \in DOMAIN wins : win = wins[x]
    BY DEF Range
  <2>4. b \in Boundaries(wins) /\ Covers(wins[x], b)
    BY <2>2, <2>3, DayWindowsAre DEF Boundaries, Covers
  <2>5. /\ w \in Nat /\ IsEdge(w) /\ w < SearchEnd
        /\ OnWall(w) = LabelAt(DayWindows(sched, e), b)
        /\ i = Inst(w) /\ Inst(w) \in Nat
        /\ Inst(w) > now <=> Wall(zone, now) < w
    BY <2>1, <2>4, EdgeProbed
  <2>6. LabelAt(wins, b) # Closed
    BY <2>4, LabelIs
  <2> HIDE DEF w, S
  <2>7. OnWall(w) \in Opened
    BY <2>5, <2>6 DEF Opened, Labels
  <2>8. i > now => w \in EdgesTo(Opened)
    BY <2>5, <2>7 DEF EdgesTo
  <2> QED
    BY <2>5, <2>8
<1>5. ASSUME NEW w \in EdgesTo(Opened) PROVE \E i \in S : i > now /\ i <= Inst(w)
  <2>0. PICK e \in Probed(zone, now) : \E win \in Range(DayWindows(sched, e)) :
            LocalWallTs(zone, e, win.start) > now /\ LocalWallTs(zone, e, win.start) <= Inst(w)
    BY <1>1, StartsAre
  <2>1. PICK win \in Range(DayWindows(sched, e)) :
            LocalWallTs(zone, e, win.start) > now /\ LocalWallTs(zone, e, win.start) <= Inst(w)
    BY <2>0
  <2>2. LocalWallTs(zone, e, win.start) \in S
    OBVIOUS
  <2> QED
    BY <2>1, <2>2
<1> HIDE DEF S
<1>6. SecondsTo(S, now) = IF Have(Opened) = {} THEN None ELSE Min(Have(Opened)) - now
  BY <1>3, <1>4, <1>5, FirstOfIs
<1>7. I = Have(Opened)
  <2>1. ASSUME NEW t \in Ahead PROVE Classic(t).is = "open" <=> At(t) \in Opened
    BY AheadAre, OpenIs DEF Opened
  <2> QED
    BY <2>1 DEF Have
<1> QED
  BY <1>1, <1>2, <1>6, <1>7 DEF FirstAhead

\* What a boundary of a day's brings, on the wall: midnight always brings another label.
LEMMA StartsOnWall ==
    ASSUME HoursInv, NEW e \in Nat, NEW b \in Boundaries(DayWindows(sched, e)),
           NEW w, w = e * DayLen + b, w > 0
    PROVE  Starts(DayWindows(sched, e), b) <=> Runnable(OnWall(w)) /\ OnWall(w - 1) # OnWall(w)
<1> DEFINE wins == DayWindows(sched, e)
           n == e * DayLen
           v == w - 1
           m == DayLen - 1
<1>1. b \in 0 .. DayLen - 1 /\ w \in Nat /\ OnWall(w) = LabelAt(wins, b) /\ n \in Nat /\ w > 0
      /\ w = n + b
  <2>1. b \in 0 .. DayLen - 1 /\ w \in Nat /\ OnWall(w) = LabelAt(wins, b)
    BY EdgeOf
  <2>2. n \in Nat
    BY DayLenAssumption
  <2> QED
    BY <2>1, <2>2
<1>2. CASE b > 0
  <2> DEFINE c == b - 1
  <2>1. c \in 0 .. DayLen - 1 /\ v = n + c
    <3> HIDE DEF n
    <3> QED
      BY <1>1, <1>2, DayLenAssumption
  <2>2. v \div DayLen = e /\ v % DayLen = c
    <3> HIDE DEF c, v
    <3> QED
      BY <2>1, WallIs
  <2>3. OnWall(v) = LabelAt(wins, c)
    <3> HIDE DEF v, c
    <3> QED
      BY <2>2 DEF OnWall, Wins
  <2>4. Starts(wins, b) <=> Runnable(LabelAt(wins, b)) /\ LabelAt(wins, c) # LabelAt(wins, b)
    <3> HIDE DEF wins
    <3> QED
      BY <1>2 DEF Starts
  <2> QED
    BY <1>1, <2>3, <2>4
<1>3. CASE ~(b > 0)
  <2>1. b = 0 /\ w = n
    <3> HIDE DEF n
    <3> QED
      BY <1>1, <1>3, DayLenAssumption
  <2>2. e > 0
    <3>1. e = 0 => n = 0
      BY DayLenAssumption
    <3> HIDE DEF n
    <3> QED
      BY <1>1, <2>1, <3>1
  <2> DEFINE f == e - 1
             k == f * DayLen
  <2>3. f \in Nat /\ m \in 0 .. DayLen - 1
    BY <2>2, DayLenAssumption
  <2>4. n = k + DayLen /\ k \in Nat
    <3>1. e = f + 1
      BY <2>2
    <3> HIDE DEF f
    <3> QED
      BY <2>3, <3>1, DayLenAssumption
  <2>5. v = k + m
    <3> HIDE DEF n, k
    <3> QED
      BY <2>1, <2>4, DayLenAssumption
  <2>6. v \div DayLen = f /\ v % DayLen = m
    <3> HIDE DEF v, m, f
    <3> QED
      BY <2>3, <2>5, WallIs
  <2>7. OnWall(v) = Closed
    <3> HIDE DEF v, f
    <3> QED
      BY <2>3, <2>6, DayEndsClosed DEF OnWall, Wins
  <2>8. Runnable(OnWall(w)) => OnWall(v) # OnWall(w)
    <3> HIDE DEF v
    <3> QED
      BY <2>7 DEF Runnable, Closed
  <2>9. Starts(wins, b) <=> Runnable(LabelAt(wins, b))
    <3> HIDE DEF wins
    <3> QED
      BY <1>3 DEF Starts
  <2> QED
    BY <1>1, <2>8, <2>9
<1> QED
  BY <1>2, <1>3

\* The walls of the next windows, today's and tomorrow's.
TwoDays == (DayOf(zone, now) + 2) * DayLen
Nexts == {w \in Nat : /\ IsEdge(w) /\ Wall(zone, now) < w /\ w < TwoDays
                      /\ Runnable(OnWall(w)) /\ OnWall(w - 1) # OnWall(w)}

\* Tomorrow ends closed, before the search does.
LEMMA TwoDaysAre ==
    ASSUME HoursInv
    PROVE  /\ TwoDays \in Nat /\ TwoDays <= SearchEnd /\ SearchEnd \in Nat
           /\ TwoDays = (DayOf(zone, now) + 1) * DayLen + DayLen
           /\ OnWall(TwoDays - 1) = Closed /\ Wall(zone, now) < TwoDays
           /\ \A t \in Nat : DayOf(zone, t) <= DayOf(zone, now) + 1 <=> Wall(zone, t) < TwoDays
<1> DEFINE d == DayOf(zone, now)
           f == d + 1
           k == f * DayLen
           p == WeekLen * DayLen
           m == DayLen - 1
<1>1. d \in Nat /\ k \in Nat /\ k <= SearchEnd /\ SearchEnd \in Nat /\ SearchEnd = k + p /\ p \in Nat
      /\ DayLen <= p /\ DayLen \in Nat \ {0}
  <2>1. d \in Nat /\ k <= SearchEnd /\ SearchEnd \in Nat
    BY TodayIs, SearchEndIs
  <2>2. SearchEnd = k + p /\ k \in Nat /\ p \in Nat
    BY <2>1, DayLenAssumption, WeekLenAssumption DEF SearchEnd
  <2>3. PICK x \in Nat : WeekLen = x + 1
    <3>1. WeekLen - 1 \in Nat /\ WeekLen = (WeekLen - 1) + 1
      BY WeekLenAssumption
    <3> QED
      BY <3>1
  <2>4. p = x * DayLen + DayLen /\ x * DayLen \in Nat
    BY <2>3, DayLenAssumption
  <2>5. DayLen <= p
    <3> DEFINE q == x * DayLen
    <3> HIDE DEF p, q
    <3> QED
      BY <2>2, <2>4, DayLenAssumption DEF q
  <2> QED
    BY <2>1, <2>2, <2>5, DayLenAssumption
<1>2. TwoDays = k + DayLen
  BY <1>1 DEF TwoDays
<1>3. TwoDays \in Nat /\ TwoDays <= SearchEnd /\ k < TwoDays
  <2> HIDE DEF k, p, d
  <2> QED
    BY <1>1, <1>2
<1>4. Wall(zone, now) < TwoDays
  <2>1. Wall(zone, now) = d * DayLen + MinuteOf(zone, now) /\ Wall(zone, now) \in Nat
        /\ k = d * DayLen + DayLen /\ MinuteOf(zone, now) \in 0 .. DayLen - 1 /\ d * DayLen \in Nat
    BY TodayIs
  <2> DEFINE q == d * DayLen
             c == MinuteOf(zone, now)
             a == Wall(zone, now)
  <2>2. a < k
    <3> HIDE DEF a, k, c, q
    <3>1. a = q + c /\ k = q + DayLen /\ c \in 0 .. DayLen - 1 /\ q \in Nat
      BY <2>1 DEF q, a, c
    <3> QED
      BY <1>1, <3>1
  <2> HIDE DEF k, a
  <2>3. a < TwoDays
    BY <1>1, <1>3, <2>1, <2>2 DEF a
  <2> QED
    BY <2>3 DEF a
<1>5. OnWall(TwoDays - 1) = Closed
  <2> DEFINE w == k + m
  <2>1. f \in Nat /\ m \in 0 .. DayLen - 1
    BY <1>1
  <2>2. w \div DayLen = f /\ w % DayLen = m
    <3> HIDE DEF f, m
    <3> QED
      BY <2>1, WallIs
  <2>3. OnWall(w) = Closed
    <3> HIDE DEF w, f
    <3> QED
      BY <2>1, <2>2, DayEndsClosed DEF OnWall, Wins
  <2>4. TwoDays - 1 = w
    <3> HIDE DEF k
    <3> QED
      BY <1>1, <1>2
  <2> HIDE DEF w
  <2> QED
    BY <2>3, <2>4
<1>6. ASSUME NEW t \in Nat PROVE DayOf(zone, t) <= f <=> Wall(zone, t) < TwoDays
  <2> DEFINE b == Wall(zone, t)
             g == b \div DayLen
             x == g * DayLen
             y == (g + 1) * DayLen
             z == (f + 1) * DayLen
  <2>1. b \in Nat /\ DayOf(zone, t) = g
    BY InstWall DEF DayOf
  <2>2. g \in Nat /\ x <= b /\ b < y
    BY <2>1, DaysAre
  <2>3. z = TwoDays /\ f \in Nat
    BY <1>1 DEF TwoDays
  <2>4. x \in Nat /\ y \in Nat /\ y = x + DayLen
    <3> HIDE DEF g
    <3> QED
      BY <1>1, <2>2
  <2>5. f < g => z <= x
    <3> HIDE DEF f, g
    <3> QED
      BY <2>2, <2>3, DaysApart
  <2>6. g < f => y <= k
    <3> HIDE DEF f, g
    <3> QED
      BY <2>2, <2>3, DaysApart
  <2>7. g = f => y = z
    OBVIOUS
  <2> HIDE DEF b, x, y, z, k, g, f
  <2>8. g <= f <=> b < z
    BY <1>1, <1>3, <2>1, <2>2, <2>3, <2>4, <2>5, <2>6, <2>7
  <2> QED
    BY <2>1, <2>3, <2>8 DEF b
<1> QED
  BY <1>1, <1>2, <1>3, <1>4, <1>5, <1>6

\* An instant a runnable span begins at is where an edge brings it, within two days.
LEMMA BeginsEdge ==
    ASSUME HoursInv, Undisturbed, Readable(sched), NEW t \in Begins
    PROVE  \E w \in Nexts : Inst(w) = t
<1> DEFINE s == t - 1
<1>1. t \in Ahead /\ DayOf(zone, t) <= DayOf(zone, now) + 1 /\ Times(t).is = "open"
      /\ (Times(s).is = "open" => Times(s).time # Times(t).time)
  BY DEF Begins
<1>2. now \in Nat /\ t \in Nat /\ t > now /\ s \in Nat /\ s < t /\ s >= now
  <2>1. now \in Nat
    BY DEF HoursInv
  <2>2. t \in Nat /\ t > now
    BY <1>1, AheadAre
  <2> QED
    BY <2>1, <2>2
<1> HIDE DEF s
<1>3. Runnable(At(t)) /\ At(s) # At(t) /\ At(t) # Closed
  <2>1. Runnable(At(t)) /\ Times(t).time = At(t).time
    BY <1>1, OpenIs
  <2>2. Runnable(At(s)) => Times(s).is = "open" /\ Times(s).time = At(s).time
    BY OpenIs
  <2> QED
    BY <1>1, <2>1, <2>2 DEF Runnable, Closed
<1> DEFINE a == Wall(zone, s)
           b == Wall(zone, t)
<1>4. a \in Nat /\ b \in Nat /\ SearchEnd \in Nat /\ b < TwoDays /\ TwoDays \in Nat /\ TwoDays <= SearchEnd
  BY <1>1, <1>2, InstWall, TwoDaysAre
<1>5. b < SearchEnd
  <2> HIDE DEF a, b
  <2> QED
    BY <1>4
<1>6. a < SearchEnd
  <2> DEFINE e == DayOf(zone, now) + WeekLen
  <2>1. e \in Nat /\ SearchEnd = (e + 1) * DayLen
    BY SearchEndIs, WeekLenAssumption DEF SearchEnd
  <2>2. ASSUME a >= SearchEnd PROVE FALSE
    <3> HIDE DEF e
    <3>1. (e + 1) * DayLen <= SearchEnd
      BY <1>4, <2>1
    <3>2. At(t) = Closed
      BY <1>2, <1>5, <2>1, <2>2, <3>1, BackClosed
    <3> QED
      BY <1>3, <3>2
  <2> HIDE DEF a
  <2> QED
    BY <1>4, <2>2
<1>7. PICK w \in a + 1 .. b :
        w \in Nat /\ IsEdge(w) /\ w < SearchEnd /\ OnWall(w) = At(t) /\ s < Inst(w) /\ Inst(w) <= t
  BY <1>2, <1>3, <1>5, <1>6, AtEdge
<1>8. Inst(w) \in Nat /\ Wall(zone, now) \in Nat
  BY <1>2, <1>7, InstWall
<1>9. Inst(w) = t
  BY <1>2, <1>7, <1>8 DEF s
<1>10. w < TwoDays /\ w <= b
  <2> HIDE DEF a, b
  <2> QED
    BY <1>4, <1>7
<1>11. Wall(zone, now) < w
  <2>1. ~(Inst(w) <= now)
    BY <1>2, <1>9
  <2>2. ~(w <= Wall(zone, now))
    BY <1>2, <1>7, <2>1, EdgePast
  <2> QED
    BY <1>7, <1>8, <2>2
<1>12. OnWall(w - 1) # OnWall(w)
  <2>1. Inst(w) > 0
    BY <1>2, <1>9
  <2>2. At(Inst(w) - 1) = OnWall(w - 1)
    BY <1>7, <2>1, AtBefore
  <2> QED
    BY <1>3, <1>7, <1>9, <2>2 DEF s
<1>13. w \in Nexts
  BY <1>3, <1>7, <1>10, <1>11, <1>12 DEF Nexts
<1> QED
  BY <1>9, <1>13

\* And where an edge brings one, it begins.
LEMMA NextsBegin ==
    ASSUME HoursInv, Undisturbed, Readable(sched), NEW w \in Nexts
    PROVE  /\ Inst(w) \in Begins /\ Inst(w) \in Nat
           /\ OnWall(w).time = Times(Inst(w)).time
<1> DEFINE i == Inst(w)
           j == zone.jump
           k == zone.shift
<1>1. w \in Nat /\ IsEdge(w) /\ Wall(zone, now) < w /\ w < TwoDays /\ Runnable(OnWall(w))
      /\ OnWall(w - 1) # OnWall(w)
  BY DEF Nexts
<1>2. now \in Nat /\ TwoDays \in Nat /\ TwoDays <= SearchEnd /\ SearchEnd \in Nat
  BY TwoDaysAre DEF HoursInv
<1>3. w < SearchEnd
  BY <1>1, <1>2
<1>4. i \in Nat /\ Wall(zone, i) \in Nat /\ Wall(zone, now) \in Nat
  BY <1>1, <1>2, InstWall
<1>5. i > now
  <2>1. ~(i <= now)
    BY <1>1, <1>2, <1>3, <1>4, EdgePast
  <2> HIDE DEF i
  <2> QED
    BY <1>2, <1>4, <2>1
<1>6. OnWall(w) # Closed
  BY <1>1 DEF Runnable, Closed
<1>7. Wall(zone, i) < TwoDays
  <2>1. CASE Wall(zone, i) = w
    BY <1>1, <2>1
  <2>2. CASE k > 0 /\ w \in j .. j + k - 1 /\ Wall(zone, i) = j + k
    <3>1. ASSUME j + k >= TwoDays PROVE FALSE
      <4> DEFINE b == TwoDays - 1
      <4>1. b \in Nat /\ w <= b /\ b < SearchEnd /\ w >= j /\ b < j + k /\ k > 0
        <5>1. j \in Nat /\ k \in Int
          BY ZoneIs
        <5> HIDE DEF j, k, i
        <5> QED
          BY <1>1, <1>2, <2>2, <3>1, <5>1
      <4>2. OnWall(b) = Closed
        BY TwoDaysAre
      <4> HIDE DEF b
      <4>3. OnWall(b) = OnWall(w)
        BY <1>1, <4>1, SkipStays
      <4> QED
        BY <1>6, <4>2, <4>3
    <3> HIDE DEF i
    <3>2. j + k \in Nat
      BY <1>4, <2>2
    <3> QED
      BY <1>2, <2>2, <3>1, <3>2
  <2> QED
    BY <1>1, <2>1, <2>2, InstWall
<1>8. Wall(zone, i) < SearchEnd
  BY <1>2, <1>4, <1>7
<1>9. At(i) = OnWall(w) /\ At(i - 1) = OnWall(w - 1)
  <2>1. At(i) = OnWall(w)
    BY <1>1, <1>3, <1>8, AtInst
  <2>2. i > 0
    <3> HIDE DEF i
    <3> QED
      BY <1>2, <1>4, <1>5
  <2>3. At(i - 1) = OnWall(w - 1)
    BY <1>1, <1>3, <2>2, AtBefore
  <2> QED
    BY <2>1, <2>3
<1> HIDE DEF i
<1>10. Times(i).is = "open" /\ Times(i).time = OnWall(w).time
  <2>1. Runnable(At(i))
    BY <1>1, <1>9
  <2>2. Times(i).is = "open" /\ Times(i).time = At(i).time
    BY <2>1, OpenIs
  <2> QED
    BY <1>9, <2>2
<1>11. ASSUME Times(i - 1).is = "open" PROVE Times(i - 1).time # Times(i).time
  <2>1. Runnable(OnWall(w - 1)) /\ Times(i - 1).time = OnWall(w - 1).time
    BY <1>9, <1>11, OpenIs
  <2> QED
    BY <1>1, <1>10, <2>1, SameTime
<1>12. i \in Ahead /\ DayOf(zone, i) <= DayOf(zone, now) + 1
  BY <1>4, <1>5, <1>7, <1>8, AheadIs, TwoDaysAre
<1>13. i \in Begins
  BY <1>10, <1>11, <1>12 DEF Begins
<1> QED
  BY <1>4, <1>10, <1>13 DEF i

\* What next_window chooses from, and the wall minute an offer begins at.
NextOn(e) ==
  {[time |-> LabelAt(DayWindows(sched, e), b).time,
    start |-> LocalWallTs(zone, e, b),
    hhmm |-> b,
    day |-> e - DayOf(zone, now)] :
   b \in {b \in Boundaries(DayWindows(sched, e)):
            /\ e = DayOf(zone, now) => b > MinuteOf(zone, now)
            /\ Starts(DayWindows(sched, e), b)
            /\ LocalWallTs(zone, e, b) > now}}
Offers == NextOn(DayOf(zone, now)) \cup NextOn(DayOf(zone, now) + 1)
Nth(r) == r.day * DayLen + r.hhmm

\* next_window, of its offers.
LEMMA NextWindowIs ==
    ASSUME Readable(sched)
    PROVE  NextWindow(sched, zone, now) =
             IF Offers = {} THEN None
             ELSE CHOOSE w \in Offers : \A v \in Offers : Nth(w) <= Nth(v)
BY DEF NextWindow, Offers, NextOn, Nth

\* The two days an offer is of.
LEMMA OfferDays ==
    ASSUME HoursInv, NEW e \in {DayOf(zone, now), DayOf(zone, now) + 1}
    PROVE  /\ e \in Nat /\ e \in Probed(zone, now) /\ e - DayOf(zone, now) \in {0, 1}
           /\ \A b \in 0 .. DayLen - 1 :
                /\ e * DayLen + b < TwoDays
                /\ DayOf(zone, now) * DayLen + ((e - DayOf(zone, now)) * DayLen + b) = e * DayLen + b
                /\ (e - DayOf(zone, now)) * DayLen + b \in Nat
<1> DEFINE d == DayOf(zone, now)
           q == d * DayLen
           n == (d + 1) * DayLen
<1>1. d \in Nat /\ q \in Nat /\ n = q + DayLen /\ n \in Nat /\ DayLen \in Nat \ {0}
  BY TodayIs, DayLenAssumption
<1>2. TwoDays = n + DayLen
  BY TwoDaysAre
<1>3. e \in Nat /\ e \in Probed(zone, now) /\ e - d \in {0, 1}
  <2>1. e \in {d, d + 1}
    OBVIOUS
  <2> HIDE DEF d
  <2> QED
    BY <1>1, <2>1, WeekLenAssumption DEF Probed, d
<1>4. ASSUME NEW b \in 0 .. DayLen - 1
      PROVE  e * DayLen + b < TwoDays /\ q + ((e - d) * DayLen + b) = e * DayLen + b
             /\ (e - d) * DayLen + b \in Nat
  <2>1. CASE e = d
    <3>1. (e - d) * DayLen = 0 /\ e * DayLen = q
      BY <1>1, <2>1
    <3> DEFINE x == (e - d) * DayLen
               y == e * DayLen
    <3> HIDE DEF q, n, x, y
    <3>2. x = 0 /\ y = q
      BY <3>1 DEF x, y, q
    <3>3. y + b < TwoDays /\ q + (x + b) = y + b /\ x + b \in Nat
      BY <1>1, <1>2, <3>2
    <3> QED
      BY <3>3 DEF x, y
  <2>2. CASE e = d + 1
    <3> DEFINE x == (e - d) * DayLen
               y == e * DayLen
    <3>1. e - d = 1
      <4> HIDE DEF d
      <4> QED
        BY <1>1, <2>2
    <3>2. x = DayLen /\ y = n
      BY <1>1, <2>2, <3>1
    <3> HIDE DEF q, n, x, y
    <3>3. y + b < TwoDays /\ q + (x + b) = y + b /\ x + b \in Nat
      BY <1>1, <1>2, <3>2
    <3> QED
      BY <3>3 DEF x, y
  <2> QED
    BY <2>1, <2>2
<1> QED
  BY <1>3, <1>4

\* An offer is of a next window's wall minute.
LEMMA OfferIs ==
    ASSUME HoursInv, Undisturbed, NEW e \in {DayOf(zone, now), DayOf(zone, now) + 1}, NEW r \in NextOn(e)
    PROVE  \E w \in Nexts : /\ r.start = Inst(w) /\ r.time = OnWall(w).time
                            /\ w = DayOf(zone, now) * DayLen + Nth(r) /\ Nth(r) \in Nat
<1> DEFINE wins == DayWindows(sched, e)
<1>1. PICK b \in Boundaries(wins) :
        /\ Starts(wins, b) /\ LocalWallTs(zone, e, b) > now
        /\ r = [time |-> LabelAt(wins, b).time, start |-> LocalWallTs(zone, e, b), hhmm |-> b,
                day |-> e - DayOf(zone, now)]
  BY DEF NextOn
<1>2. e \in Nat /\ e \in Probed(zone, now)
  BY OfferDays
<1> DEFINE w == e * DayLen + b
<1>3. b \in 0 .. DayLen - 1 /\ w \in Nat /\ IsEdge(w) /\ OnWall(w) = LabelAt(wins, b)
  BY <1>2, EdgeOf
<1>4. LocalWallTs(zone, e, b) = Inst(w) /\ (Inst(w) > now <=> Wall(zone, now) < w)
  BY <1>2, EdgeProbed
<1>5. w < TwoDays /\ w = DayOf(zone, now) * DayLen + Nth(r) /\ Nth(r) \in Nat
  BY <1>1, <1>3, OfferDays DEF Nth
<1>6. Wall(zone, now) < w /\ w > 0
  <2>1. Wall(zone, now) \in Nat
    BY TodayIs
  <2> HIDE DEF w
  <2> QED
    BY <1>1, <1>3, <1>4, <2>1
<1>7. Runnable(OnWall(w)) /\ OnWall(w - 1) # OnWall(w)
  BY <1>1, <1>2, <1>6, StartsOnWall
<1> HIDE DEF w, wins
<1>8. w \in Nexts
  BY <1>3, <1>5, <1>6, <1>7 DEF Nexts
<1>9. r.start = Inst(w) /\ r.time = OnWall(w).time
  BY <1>1, <1>3, <1>4
<1> QED
  BY <1>5, <1>8, <1>9

\* And the wall minute of every next window is offered.
LEMMA IsOffered ==
    ASSUME HoursInv, Undisturbed, NEW w \in Nexts
    PROVE  \E r \in Offers : w = DayOf(zone, now) * DayLen + Nth(r) /\ Nth(r) \in Nat
<1> DEFINE d == DayOf(zone, now)
           m == MinuteOf(zone, now)
           a == Wall(zone, now)
           q == d * DayLen
           n == (d + 1) * DayLen
<1>1. w \in Nat /\ IsEdge(w) /\ a < w /\ w < TwoDays /\ Runnable(OnWall(w))
      /\ OnWall(w - 1) # OnWall(w)
  BY DEF Nexts
<1>2. d \in Nat /\ m \in 0 .. DayLen - 1 /\ a = q + m /\ a \in Nat /\ q \in Nat /\ n = q + DayLen
      /\ TwoDays = n + DayLen /\ TwoDays = ((d + 1) + 1) * DayLen /\ DayLen \in Nat
  <2>1. TwoDays = ((d + 1) + 1) * DayLen
    BY TodayIs DEF TwoDays
  <2> QED
    BY <2>1, TodayIs, TwoDaysAre, DayLenAssumption
<1>3. PICK e \in {d, d + 1} : e * DayLen <= w /\ w < (e + 1) * DayLen
  <2>1. CASE w < n
    <3>1. q <= w
      <4> HIDE DEF a, m, q, n
      <4> QED
        BY <1>1, <1>2
    <3> QED
      BY <2>1, <3>1
  <2>2. CASE w >= n
    BY <1>1, <1>2, <2>2
  <2>3. w < n \/ w >= n
    <3> HIDE DEF n, q
    <3> QED
      BY <1>1, <1>2
  <2> QED
    BY <2>1, <2>2, <2>3
<1>4. e \in Nat /\ e \in Probed(zone, now)
  BY OfferDays
<1> DEFINE wins == DayWindows(sched, e)
<1>5. PICK b \in Boundaries(wins) :
        w = e * DayLen + b /\ b \in 0 .. DayLen - 1 /\ OnWall(w) = LabelAt(wins, b)
  BY <1>1, <1>3, <1>4, EdgeIs
<1>6. w > 0
  <2> HIDE DEF a, q
  <2> QED
    BY <1>1, <1>2
<1>7. Starts(wins, b)
  BY <1>1, <1>4, <1>5, <1>6, StartsOnWall
<1>8. LocalWallTs(zone, e, b) > now
  <2>1. LocalWallTs(zone, e, b) = Inst(e * DayLen + b)
        /\ (Inst(e * DayLen + b) > now <=> a < e * DayLen + b)
    BY <1>4, EdgeProbed
  <2> QED
    BY <1>1, <1>5, <2>1
<1>9. ASSUME e = d PROVE b > m
  <2>1. w = q + b
    BY <1>5, <1>9
  <2> HIDE DEF q, a, m
  <2> QED
    BY <1>1, <1>2, <1>5, <2>1
<1> DEFINE r == [time |-> LabelAt(wins, b).time, start |-> LocalWallTs(zone, e, b), hhmm |-> b,
                 day |-> e - d]
<1>10. r \in NextOn(e)
  BY <1>7, <1>8, <1>9 DEF NextOn
<1>11. w = q + Nth(r) /\ Nth(r) \in Nat
  <2>1. Nth(r) = (e - d) * DayLen + b
    BY DEF Nth
  <2>2. q + ((e - d) * DayLen + b) = e * DayLen + b /\ (e - d) * DayLen + b \in Nat
    BY <1>5, OfferDays
  <2> HIDE DEF r
  <2> QED
    BY <1>5, <2>1, <2>2
<1>12. r \in Offers
  <2> HIDE DEF r
  <2> QED
    BY <1>3, <1>10 DEF Offers
<1> QED
  BY <1>11, <1>12

\* next_window: the first runnable span to begin today or tomorrow, under its name.
LEMMA NextWindowIsTrue ==
    ASSUME HoursInv, Undisturbed, Readable(sched)
    PROVE  LET next == NextWindow(sched, zone, now)
           IN IF Begins = {} THEN next = None
              ELSE next.start = Min(Begins) /\ next.time = Times(Min(Begins)).time
<1> DEFINE next == NextWindow(sched, zone, now)
           q == DayOf(zone, now) * DayLen
<1>1. \A r \in Offers : \E w \in Nexts : /\ r.start = Inst(w) /\ r.time = OnWall(w).time
                                         /\ w = q + Nth(r) /\ Nth(r) \in Nat
  BY OfferIs DEF Offers
<1>2. CASE Begins = {}
  <2>1. Offers = {}
    BY <1>1, <1>2, NextsBegin
  <2> QED
    BY <1>2, <2>1, NextWindowIs
<1>3. CASE Begins # {}
  <2>1. Offers # {}
    BY <1>3, BeginsEdge, IsOffered
  <2> DEFINE N == {Nth(r) : r \in Offers}
  <2>2. PICK n \in N : \A k \in N : n <= k
    <3>1. N \subseteq Nat /\ N # {}
      BY <1>1, <2>1
    <3> HIDE DEF N
    <3> QED
      BY <3>1, Least
  <2>3. \E r \in Offers : \A v \in Offers : Nth(r) <= Nth(v)
    BY <2>2
  <2>4. next \in Offers /\ \A v \in Offers : Nth(next) <= Nth(v)
    <3>1. next = CHOOSE w \in Offers : \A v \in Offers : Nth(w) <= Nth(v)
      BY <2>1, NextWindowIs
    <3> HIDE DEF next
    <3> QED
      BY <2>3, <3>1
  <2> HIDE DEF next
  <2>5. PICK w \in Nexts : /\ next.start = Inst(w) /\ next.time = OnWall(w).time
                           /\ w = q + Nth(next) /\ Nth(next) \in Nat
    BY <1>1, <2>4
  <2>6. q \in Nat
    BY TodayIs
  <2> HIDE DEF q
  <2>7. \A v \in Nexts : w <= v /\ v \in Nat
    <3> SUFFICES ASSUME NEW v \in Nexts PROVE w <= v /\ v \in Nat
      OBVIOUS
    <3>1. PICK r \in Offers : v = q + Nth(r) /\ Nth(r) \in Nat
      BY IsOffered DEF q
    <3>2. Nth(next) <= Nth(r)
      BY <2>4
    <3> QED
      BY <2>5, <2>6, <3>1, <3>2
  <2>8. w \in Nat /\ Inst(w) \in Begins /\ Inst(w) \in Nat /\ OnWall(w).time = Times(Inst(w)).time
    BY <2>7, NextsBegin
  <2>9. \A t \in Begins : Inst(w) <= t /\ t \in Int
    <3> SUFFICES ASSUME NEW t \in Begins PROVE Inst(w) <= t /\ t \in Int
      OBVIOUS
    <3>1. PICK v \in Nexts : Inst(v) = t
      BY BeginsEdge
    <3>2. w <= v /\ v \in Nat
      BY <2>7
    <3>3. Inst(w) <= Inst(v) /\ Inst(v) \in Nat
      BY <2>8, <3>2, InstWall
    <3> QED
      BY <3>1, <3>3
  <2>10. Min(Begins) = Inst(w)
    <3>1. Begins \subseteq Int /\ Inst(w) \in Int
      BY <2>8, <2>9
    <3> QED
      BY <2>8, <2>9, <3>1, MinIs
  <2> QED
    BY <1>3, <2>5, <2>8, <2>10 DEF next
<1> QED
  BY <1>2, <1>3

\* Every opening that is announced is right.
LEMMA OpeningIsTrue ==
    ASSUME HoursInv
    PROVE  AnnouncedOpeningIsTrue
BY TimesOpeningIsTrue, ClassicOpeningIsTrue, NextWindowIsTrue DEF AnnouncedOpeningIsTrue

\* span_end_minute, of a minute that is not closed: its label goes on up to there and not
\* beyond, and there it is still the same day.
LEMMA SpanGoesOn ==
    ASSUME HoursInv, NEW d \in Nat, NEW b \in 0 .. DayLen - 1,
           LabelAt(DayWindows(sched, d), b) # Closed
    PROVE  LET L(x) == LabelAt(DayWindows(sched, d), x)
               e == SpanEndMinute(DayWindows(sched, d), b)
           IN /\ e \in b + 1 .. DayLen - 1 /\ L(e) # L(b)
              /\ \A x \in b .. e - 1 : L(x) = L(b)
<1> DEFINE wins == DayWindows(sched, d)
           L(x) == LabelAt(wins, x)
           B == {x \in b + 1 .. DayLen - 1 : L(x) # L(b)}
           ends == {y \in Boundaries(wins): y > b /\ L(y) # L(b)}
<1>1. L(DayLen - 1) = Closed
  BY DayEndsClosed
<1>2. DayLen - 1 \in B
  <2>1. L(b) # Closed
    OBVIOUS
  <2>2. b # DayLen - 1
    BY <1>1, <2>1
  <2> HIDE DEF L
  <2> QED
    BY <1>1, <2>1, <2>2, DayLenAssumption
<1>3. PICK e \in B : \A k \in B : e <= k
  <2>1. B \subseteq Nat /\ B # {}
    BY <1>2
  <2> HIDE DEF B
  <2> QED
    BY <2>1, Least
<1>4. e \in b + 1 .. DayLen - 1 /\ L(e) # L(b)
  OBVIOUS
<1>5. ASSUME NEW x \in b .. e - 1 PROVE L(x) = L(b)
  <2>1. ASSUME x # b PROVE x \notin B /\ x \in b + 1 .. DayLen - 1
    <3> HIDE DEF B, L
    <3> QED
      BY <1>3, <1>4, <1>5, <2>1, DayLenAssumption
  <2> QED
    BY <2>1
<1>6. e \in Boundaries(wins)
  <2>1. e \in Nat /\ e > 0 /\ e - 1 \in b .. e - 1
    BY <1>4
  <2>2. L(e - 1) = L(b)
    BY <1>5, <2>1
  <2> QED
    BY <1>4, <2>1, <2>2, LabelGoesOn
<1>7. e \in ends /\ ends \subseteq Int /\ e \in Int
  <2>1. Boundaries(wins) \subseteq 0 .. DayLen - 1
    BY DayWindowsAre
  <2> QED
    BY <1>4, <1>6, <2>1
<1>8. ASSUME NEW y \in ends PROVE e <= y
  <2>1. y \in 0 .. DayLen - 1 /\ y > b /\ L(y) # L(b)
    BY DayWindowsAre
  <2>2. y \in B
    BY <2>1
  <2> QED
    BY <1>3, <2>2
<1>9. SpanEndMinute(wins, b) = IF ends = {} THEN DayLen ELSE Min(ends)
  BY DEF SpanEndMinute
<1>10. SpanEndMinute(wins, b) = e
  <2> HIDE DEF ends
  <2> QED
    BY <1>7, <1>8, <1>9, MinIs
<1> QED
  BY <1>4, <1>5, <1>10

\* A runnable minute is of a span that a boundary begins.
LEMMA SpanFrom ==
    ASSUME HoursInv, NEW d \in Nat, NEW k \in 0 .. DayLen - 1,
           Runnable(LabelAt(DayWindows(sched, d), k))
    PROVE  LET L(x) == LabelAt(DayWindows(sched, d), x)
           IN \E b \in Boundaries(DayWindows(sched, d)) :
                /\ b \in 0 .. k /\ Starts(DayWindows(sched, d), b)
                /\ \A x \in b .. k : L(x) = L(k)
<1> DEFINE wins == DayWindows(sched, d)
           L(x) == LabelAt(wins, x)
           B == {b \in 0 .. k : \A x \in b .. k : L(x) = L(k)}
<1>1. PICK b \in B : \A c \in B : b <= c
  <2>1. k \in B /\ B \subseteq Nat
    OBVIOUS
  <2> HIDE DEF B
  <2> QED
    BY <2>1, Least
<1>2. b \in 0 .. k /\ L(b) = L(k) /\ \A x \in b .. k : L(x) = L(k)
  OBVIOUS
<1>3. ASSUME b > 0 PROVE L(b - 1) # L(b)
  <2>1. ASSUME L(b - 1) = L(b) PROVE FALSE
    <3>1. \A x \in b - 1 .. k : x = b - 1 \/ x \in b .. k
      BY <1>2
    <3>2. \A x \in b - 1 .. k : L(x) = L(k)
      BY <1>2, <2>1, <3>1
    <3>3. b - 1 \in B
      BY <1>2, <1>3, <3>2
    <3> HIDE DEF B, L
    <3> QED
      BY <1>1, <1>2, <3>3
  <2> QED
    BY <2>1
<1>4. Runnable(L(b)) /\ L(b) # Closed
  BY <1>2 DEF Runnable, Closed
<1>5. b \in Boundaries(wins)
  <2>1. b \in Nat /\ (b > 0 \/ b = 0)
    BY <1>2
  <2> QED
    BY <1>3, <1>4, <2>1, LabelGoesOn
<1>6. Starts(wins, b)
  BY <1>3, <1>4 DEF Starts
<1> QED
  BY <1>2, <1>5, <1>6

\* The greatest of a set of minutes.
LEMMA MaxIs ==
    ASSUME NEW S, NEW x \in S, x \in Int, \A y \in S : y <= x, S \subseteq Int
    PROVE  S # {} /\ Max(S) = x
<1>1. Max(S) \in S /\ \A y \in S : Max(S) >= y
  BY DEF Max
<1>2. Max(S) \in Int /\ x <= Max(S) /\ Max(S) <= x
  BY <1>1
<1>3. \A y \in Int : y <= x /\ x <= y => y = x
  OBVIOUS
<1> QED
  BY <1>2, <1>3

\* Today's spans, and the minutes one ends or begins.
Spans(wins) ==
  {[from |-> b, to |-> SpanEndMinute(wins, b), time |-> LabelAt(wins, b).time] :
   b \in {b \in Boundaries(wins): Starts(wins, b)}}
EndedBy(wins, m) == {p \in Spans(wins): p.to <= m}
ComingBy(wins, m) == {p \in Spans(wins): p.from > m}
LastBy(wins, minute) ==
  {m \in 0 .. minute - 1: Runnable(LabelAt(wins, m)) /\ LabelAt(wins, m + 1) # LabelAt(wins, m)}
FirstBy(wins, minute) ==
  {m \in minute + 1 .. DayLen - 1: Runnable(LabelAt(wins, m)) /\ LabelAt(wins, m - 1) # LabelAt(wins, m)}

\* The spans that have ended today, by their last minutes.
LEMMA EndedIs ==
    ASSUME HoursInv, NEW d \in Nat, NEW m \in 0 .. DayLen - 1, NEW wins, wins = DayWindows(sched, d)
    PROVE  /\ \A p \in EndedBy(wins, m) :
                /\ p.to \in 1 .. m /\ p.to - 1 \in LastBy(wins, m)
                /\ p.time = LabelAt(wins, p.to - 1).time
           /\ \A k \in LastBy(wins, m) : \E p \in EndedBy(wins, m) : p.to = k + 1
<1> DEFINE L(x) == LabelAt(wins, x)
<1>1. ASSUME NEW p \in EndedBy(wins, m)
      PROVE  p.to \in 1 .. m /\ p.to - 1 \in LastBy(wins, m) /\ p.time = L(p.to - 1).time
  <2>1. PICK b \in Boundaries(wins) :
          Starts(wins, b) /\ p = [from |-> b, to |-> SpanEndMinute(wins, b), time |-> L(b).time]
    BY DEF EndedBy, Spans
  <2>2. p.to <= m
    BY DEF EndedBy
  <2> DEFINE e == SpanEndMinute(wins, b)
  <2>3. b \in 0 .. DayLen - 1
    BY DayWindowsAre
  <2>4. Runnable(L(b)) /\ L(b) # Closed
    BY <2>1 DEF Starts, Runnable, Closed
  <2>5. e \in b + 1 .. DayLen - 1 /\ L(e) # L(b) /\ \A x \in b .. e - 1 : L(x) = L(b)
    BY <2>3, <2>4, SpanGoesOn
  <2>6. p.to = e /\ p.time = L(b).time
    BY <2>1
  <2> HIDE DEF e
  <2>7. e \in 1 .. m /\ e - 1 \in 0 .. m - 1 /\ e - 1 \in b .. e - 1 /\ (e - 1) + 1 = e
    <3> HIDE DEF L
    <3> QED
      BY <2>2, <2>3, <2>5, <2>6
  <2>8. L(e - 1) = L(b)
    BY <2>5, <2>7
  <2>9. e - 1 \in LastBy(wins, m)
    BY <2>4, <2>5, <2>7, <2>8 DEF LastBy
  <2> QED
    BY <2>6, <2>7, <2>8, <2>9
<1>2. ASSUME NEW k \in LastBy(wins, m) PROVE \E p \in EndedBy(wins, m) : p.to = k + 1
  <2>1. k \in 0 .. m - 1 /\ k \in 0 .. DayLen - 1 /\ Runnable(L(k)) /\ L(k + 1) # L(k)
    BY DayLenAssumption DEF LastBy
  <2>2. PICK b \in Boundaries(wins) :
          b \in 0 .. k /\ Starts(wins, b) /\ \A x \in b .. k : L(x) = L(k)
    BY <2>1, SpanFrom
  <2> DEFINE e == SpanEndMinute(wins, b)
  <2>3. b \in 0 .. DayLen - 1 /\ L(b) = L(k)
    <3>1. b \in 0 .. DayLen - 1 /\ b \in b .. k
      <4> HIDE DEF L
      <4> QED
        BY <2>1, <2>2, DayLenAssumption
    <3> QED
      BY <2>2, <3>1
  <2>4. L(b) # Closed
    BY <2>2 DEF Starts, Runnable, Closed
  <2>5. e \in b + 1 .. DayLen - 1 /\ L(e) # L(b) /\ \A x \in b .. e - 1 : L(x) = L(b)
    BY <2>3, <2>4, SpanGoesOn
  <2> DEFINE p == [from |-> b, to |-> e, time |-> L(b).time]
  <2>6. p \in Spans(wins)
    BY <2>2 DEF Spans
  <2> HIDE DEF e
  <2>7. ~(e <= k)
    <3>1. e <= k => e \in b .. k
      <4> HIDE DEF L
      <4> QED
        BY <2>1, <2>2, <2>5
    <3> QED
      BY <2>2, <2>3, <2>5, <3>1
  <2>8. ~(k + 1 < e)
    <3>1. k + 1 < e => k + 1 \in b .. e - 1
      <4> HIDE DEF L
      <4> QED
        BY <2>1, <2>2, <2>5
    <3> QED
      BY <2>1, <2>3, <2>5, <3>1
  <2>9. e = k + 1 /\ e <= m
    <3> HIDE DEF L
    <3> QED
      BY <2>1, <2>2, <2>5, <2>7, <2>8
  <2>10. p \in EndedBy(wins, m)
    BY <2>6, <2>9 DEF EndedBy
  <2> QED
    BY <2>9, <2>10
<1> QED
  BY <1>1, <1>2

\* The spans to come today, by their first minutes.
LEMMA ComingIs ==
    ASSUME HoursInv, NEW d \in Nat, NEW m \in 0 .. DayLen - 1, NEW wins, wins = DayWindows(sched, d)
    PROVE  /\ \A p \in ComingBy(wins, m) :
                p.from \in FirstBy(wins, m) /\ p.time = LabelAt(wins, p.from).time
           /\ \A k \in FirstBy(wins, m) : \E p \in ComingBy(wins, m) : p.from = k
<1> DEFINE L(x) == LabelAt(wins, x)
<1>1. ASSUME NEW p \in ComingBy(wins, m)
      PROVE  p.from \in FirstBy(wins, m) /\ p.time = L(p.from).time
  <2>1. PICK b \in Boundaries(wins) :
          Starts(wins, b) /\ p = [from |-> b, to |-> SpanEndMinute(wins, b), time |-> L(b).time]
    BY DEF ComingBy, Spans
  <2>2. p.from = b /\ p.time = L(b).time /\ b > m
    BY <2>1 DEF ComingBy
  <2>3. b \in 0 .. DayLen - 1
    BY DayWindowsAre
  <2>4. b \in m + 1 .. DayLen - 1 /\ b > 0
    BY <2>2, <2>3
  <2>5. Runnable(L(b)) /\ L(b - 1) # L(b)
    BY <2>1, <2>4 DEF Starts
  <2> QED
    BY <2>2, <2>4, <2>5 DEF FirstBy
<1>2. ASSUME NEW k \in FirstBy(wins, m) PROVE \E p \in ComingBy(wins, m) : p.from = k
  <2>1. k \in m + 1 .. DayLen - 1 /\ Runnable(L(k)) /\ L(k - 1) # L(k)
    BY DEF FirstBy
  <2>2. k \in Nat /\ k > 0 /\ k > m
    BY <2>1
  <2>3. k \in Boundaries(wins)
    BY <2>1, <2>2, LabelGoesOn
  <2>4. Starts(wins, k)
    BY <2>1 DEF Starts
  <2> DEFINE p == [from |-> k, to |-> SpanEndMinute(wins, k), time |-> L(k).time]
  <2>5. p \in Spans(wins)
    BY <2>3, <2>4 DEF Spans
  <2>6. p \in ComingBy(wins, m)
    BY <2>2, <2>5 DEF ComingBy
  <2> QED
    BY <2>6
<1> QED
  BY <1>1, <1>2

\* default_ask_time: the span that ended last today, else the next one today.
LEMMA AskIs ==
    ASSUME HoursInv
    PROVE  AskDefaultIsToday
<1> DEFINE d == DayOf(zone, now)
           m == MinuteOf(zone, now)
           wins == DayWindows(sched, d)
           L(x) == LabelAt(wins, x)
           E == EndedBy(wins, m)
           C == ComingBy(wins, m)
           last == LastBy(wins, m)
           first == FirstBy(wins, m)
           asked == DefaultAskTime(sched, zone, now)
<1> SUFFICES ASSUME Readable(sched)
             PROVE  asked = IF last # {} THEN L(Max(last)).time
                            ELSE IF first # {} THEN L(Min(first)).time
                            ELSE None
  BY DEF AskDefaultIsToday, LastBy, FirstBy
<1>1. asked = IF E # {} THEN (CHOOSE p \in E : \A q \in E : q.to <= p.to).time
              ELSE IF C # {} THEN (CHOOSE p \in C : \A q \in C : p.from <= q.from).time
              ELSE None
  BY DEF DefaultAskTime, EndedBy, ComingBy, Spans
<1>2. d \in Nat /\ m \in 0 .. DayLen - 1 /\ m \in Nat
  BY TodayIs
<1> HIDE DEF wins
<1>3. /\ \A p \in E : p.to \in 1 .. m /\ p.to - 1 \in last /\ p.time = L(p.to - 1).time
      /\ \A k \in last : \E p \in E : p.to = k + 1
  BY <1>2, EndedIs DEF wins
<1>4. /\ \A p \in C : p.from \in first /\ p.time = L(p.from).time
      /\ \A k \in first : \E p \in C : p.from = k
  BY <1>2, ComingIs DEF wins
<1>5. last \subseteq Nat /\ first \subseteq Nat /\ last \subseteq Int /\ first \subseteq Int
  BY <1>2 DEF LastBy, FirstBy
<1> HIDE DEF E, C, last, first, L, asked, m, d
<1>6. (E # {} <=> last # {}) /\ (C # {} <=> first # {})
  BY <1>3, <1>4
<1>7. CASE E # {}
  <2> DEFINE N == {m - p.to : p \in E}
             p == CHOOSE p \in E : \A q \in E : q.to <= p.to
  <2>1. N \subseteq Nat /\ N # {}
    BY <1>2, <1>3, <1>7
  <2>2. PICK n \in N : \A k \in N : n <= k
    <3> HIDE DEF N
    <3> QED
      BY <2>1, Least
  <2>3. PICK r \in E : n = m - r.to
    OBVIOUS
  <2>4. \A q \in E : q.to <= r.to
    <3> SUFFICES ASSUME NEW q \in E PROVE q.to <= r.to
      OBVIOUS
    <3>1. m - r.to <= m - q.to
      BY <2>2, <2>3
    <3> QED
      BY <1>2, <1>3, <3>1
  <2>5. p \in E /\ \A q \in E : q.to <= p.to
    BY <2>3, <2>4
  <2> HIDE DEF p
  <2> DEFINE x == p.to - 1
  <2>6. x \in last /\ x \in Int /\ p.time = L(x).time
    BY <1>3, <2>5
  <2>7. \A k \in last : k <= x
    <3> SUFFICES ASSUME NEW k \in last PROVE k <= x
      OBVIOUS
    <3>1. PICK q \in E : q.to = k + 1
      BY <1>3
    <3>2. q.to <= p.to /\ p.to \in Int /\ k \in Int
      BY <1>3, <1>5, <2>5
    <3> QED
      BY <3>1, <3>2
  <2> HIDE DEF x
  <2>8. last # {} /\ Max(last) = x
    BY <1>5, <2>6, <2>7, MaxIs
  <2>9. asked = p.time
    BY <1>1, <1>7 DEF p
  <2> QED
    BY <2>6, <2>8, <2>9
<1>8. CASE E = {} /\ C # {}
  <2> DEFINE N == {p.from : p \in C}
             p == CHOOSE p \in C : \A q \in C : p.from <= q.from
  <2>1. N \subseteq Nat /\ N # {}
    <3>1. ASSUME NEW x \in C PROVE x.from \in Nat
      <4>1. x.from \in first
        BY <1>4
      <4> QED
        BY <1>5, <4>1
    <3> QED
      BY <1>8, <3>1
  <2>2. PICK n \in N : \A k \in N : n <= k
    <3> HIDE DEF N
    <3> QED
      BY <2>1, Least
  <2>3. PICK r \in C : n = r.from
    OBVIOUS
  <2>4. \A q \in C : r.from <= q.from
    BY <2>2, <2>3
  <2>5. p \in C /\ \A q \in C : p.from <= q.from
    BY <2>3, <2>4
  <2> HIDE DEF p
  <2> DEFINE x == p.from
  <2>6. x \in first /\ x \in Int /\ p.time = L(x).time
    BY <1>4, <1>5, <2>5
  <2>7. \A k \in first : x <= k
    BY <1>4, <2>5
  <2> HIDE DEF x
  <2>8. first # {} /\ Min(first) = x
    BY <1>5, <2>6, <2>7, MinIs
  <2>9. asked = p.time
    BY <1>1, <1>8 DEF p
  <2> QED
    BY <1>6, <1>8, <2>6, <2>8, <2>9
<1>9. CASE E = {} /\ C = {}
  BY <1>1, <1>6, <1>9
<1> QED
  BY <1>7, <1>8, <1>9

\* All that is shown of a clause's hours.
Hours == WhatIsShownIsTrue /\ TagsOnlyNarrow

\* It is right at every instant.
LEMMA HoursAre ==
    ASSUME HoursInv
    PROVE  Hours
BY OpeningIsTrue, EndIsTrue, AskIs, TagsNarrow DEF Hours, WhatIsShownIsTrue

\* The clock runs on through one clause and one timezone, whatever part is looked at.
THEOREM HoursInvHolds == DeviceSpec => []HoursInv
<1>1. DeviceInit => HoursInv
  BY DEF DeviceInit, Init, HoursInv
<1>2. HoursInv /\ [DeviceNext]_<<part, vars, timeVars, pairingVars>> => HoursInv'
  <2> SUFFICES ASSUME HoursInv, [DeviceNext]_<<part, vars, timeVars, pairingVars>>
               PROVE  HoursInv'
    OBVIOUS
  <2>1. Next \/ UNCHANGED vars
    BY DEF DeviceNext
  <2>2. CASE Next
    BY <2>2 DEF Next, Tick, HoursInv
  <2>3. CASE UNCHANGED vars
    BY <2>3 DEF vars, HoursInv
  <2> QED
    BY <2>1, <2>2, <2>3
<1> QED
  BY <1>1, <1>2, PTL DEF DeviceSpec

\* Every opening, end and named time a child or a guardian is shown is the right one, and a
\* tag only takes from what may run: for any schedules, timezones, tags and length of a day
\* and a week, but where a change of offset disturbs a window (evaluate_times,
\* evaluate_grant_schedule, next_window, default_ask_time).
THEOREM HoursAreRightHolds == DeviceSpec => []HoursAreRight
<1>1. HoursInv => HoursAreRight
  BY HoursAre DEF HoursAreRight, Hours
<1> QED
  BY <1>1, HoursInvHolds, PTL
=============================================================================
