------------------------------ MODULE MCDevice ------------------------------
(* Device for TLC: the schedules, zones and scenes of its parts. *)
EXTENDS Device

CONSTANTS tea, nap, o1, o2, g1, g2

-----------------------------------------------------------------------------
\* Schedule: two weekdays, one with up to two windows of any kind and one with at most
\* one; one date overridden; days that skip one minute or two, one that repeats two.

Window(s, e, tag) == [start |-> s, end |-> e, time |-> tag]

Windows == {Window(s, e, tag) : s \in 0 .. DayLen - 1, e \in 0 .. DayLen - 1, tag \in {None, tea, nap}}
Proper == {w \in Windows: w.start < w.end}

FirstDays == {<<>>} \cup {<<w>> : w \in Proper} \cup {<<w, v>> : w \in Proper, v \in Proper}
OtherDays == {<<>>, <<Window(1, 2, None)>>, <<Window(0, 3, tea)>>, <<Window(2, 1, None)>>}
Overrides == {<<>>, 1 :> <<>>, 2 :> <<Window(1, 3, None), Window(1, 2, nap)>>}

Weekly(first, other, ovr) ==
  [version |-> TRUE, zoned |-> TRUE, paused |-> FALSE,
   weekly |-> (0 :> first) @@ (1 :> other), overrides |-> ovr]

Empty == Weekly(<<>>, <<>>, <<>>)

MCSchedules ==
  {Weekly(f, o, <<>>) : f \in FirstDays, o \in OtherDays}
    \cup {Weekly(<<w>>, o, v) : w \in Proper, o \in OtherDays, v \in Overrides}
    \cup {[Empty EXCEPT !.version = v, !.zoned = z, !.paused = p] :
            v \in BOOLEAN, z \in BOOLEAN, p \in BOOLEAN}

MCZones ==
  {[jump |-> 0, shift |-> 0], [jump |-> 5, shift |-> 1], [jump |-> 5, shift |-> 2],
   [jump |-> 7, shift |-> -2]}

-----------------------------------------------------------------------------
\* TimeLeft: days of four minutes.

Cap(day, week) == [is |-> "plain", day |-> day, week |-> week]
NoCap == [is |-> "none", day |-> None, week |-> None]

\* The labels and the slots of a day, minute by minute.
Day(a, b, c, d) == 0 :> a @@ 1 :> b @@ 2 :> c @@ 3 :> d
Whole == Day("free", "free", "free", "free")
Clear == Day(0, 1, 2, 3)
Repeated == Day(0, 1, 1, 2)

Plain == [events |-> {}, label |-> Whole, slot |-> Clear, sched |-> "none",
          cap |-> NoCap, away |-> FALSE, inventory |-> TRUE, minutes |-> 7]

\* Two devices, a grant, a take-back, a journal that may be missing or repeat.
Budgets ==
  {[Plain EXCEPT !.cap = c.cap, !.slot = c.slot, !.away = TRUE, !.minutes = 5, !.events = e] :
     c \in {[cap |-> Cap(2, None), slot |-> Clear], [cap |-> Cap(2, None), slot |-> Repeated],
            [cap |-> Cap(None, 3), slot |-> Clear]},
     e \in {{[do |-> "view", journal |-> TRUE], [do |-> "give", n |-> 2], [do |-> "take", n |-> 1]},
            {[do |-> "view", journal |-> FALSE], [do |-> "give", n |-> 1]}}}

\* Named times of each kind around a closed window, pools and hours given for it.
Timed ==
  {[Plain EXCEPT !.sched = s, !.label = l, !.cap = c, !.inventory = i, !.events = e] :
     s \in {"set", "paused", "unreadable"},
     l \in {Day("free", tea, "closed", "closed"), Day("closed", nap, "free", "unknown"),
            Day(tea, nap, "closed", "free")},
     c \in {Cap(2, None), Cap(1, 3), [NoCap EXCEPT !.is = "paused"]}, i \in BOOLEAN,
     e \in {{[do |-> "pool", id |-> tea, n |-> 1], [do |-> "hours", n |-> 1],
             [do |-> "cut", n |-> 1], [do |-> "back"]},
            {[do |-> "pool", id |-> nap, n |-> 2], [do |-> "give", n |-> 1],
             [do |-> "cap", to |-> [NoCap EXCEPT !.is = "paused"]]}}}

\* A stand-down beside everything that might lift it.
StoodDown ==
  {[Plain EXCEPT !.cap = d.cap, !.label = d.label, !.sched = "set", !.minutes = 6, !.events = e
      \cup {[do |-> "order", id |-> o1, until |-> 5], [do |-> "restart"]}] :
     d \in {[cap |-> NoCap, label |-> Day(nap, "free", tea, "closed")],
            [cap |-> Cap(2, None), label |-> Whole]},
     e \in {{[do |-> "order", id |-> o2, until |-> 4], [do |-> "back"], [do |-> "lose"]},
            {[do |-> "order", id |-> None, until |-> 0], [do |-> "back"], [do |-> "pool", id |-> tea, n |-> 2]},
            {[do |-> "give", n |-> 2], [do |-> "hours", n |-> 1], [do |-> "back"]}}}

\* One thing given late, beside each kind of boundary it may be spent across.
GivenLate ==
  {[Plain EXCEPT !.sched = "set", !.label = l, !.cap = c, !.minutes = 6, !.events = {e}] :
     l \in {Whole, Day("free", "free", "closed", "free"), Day("free", "free", "free", tea),
            Day(tea, tea, "free", "free"), Day(nap, "free", tea, "closed")},
     c \in {NoCap, Cap(1, None), Cap(2, None), Cap(1, 3)},
     e \in {[do |-> "hours", n |-> 1], [do |-> "hours", n |-> 2], [do |-> "give", n |-> 1],
            [do |-> "give", n |-> 2], [do |-> "pool", id |-> tea, n |-> 2]}}

MCTimeScenes == Budgets \cup Timed \cup StoodDown \cup GivenLate

-----------------------------------------------------------------------------
\* Pairing: a token lives for the tick it was minted in, which is enough for one to
\* expire and for a release to be older than a pairing.

MCPairScenes ==
  {[offer |-> {g1}, link |-> {g2}, edit |-> FALSE, faults |-> 1],
   [offer |-> {g1, g2}, link |-> {}, edit |-> FALSE, faults |-> 2],
   [offer |-> {}, link |-> {g1, g2}, edit |-> FALSE, faults |-> 1],
   [offer |-> {}, link |-> {g1, g2}, edit |-> TRUE, faults |-> 0]}
=============================================================================
