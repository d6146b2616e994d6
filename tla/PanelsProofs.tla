---------------------------- MODULE PanelsProofs ----------------------------
(* The control plane and the engine under every operator call, lever, stop,  *)
(* death of the engine and lost command (Panels), for any number of sources, *)
(* levers and API threads, any T-bar resolution and any bound: what the      *)
(* control plane says and what the engine does agree unless the two parted,  *)
(* what is on air is red, and a lever that did not move starts nothing.      *)
(*                                                                           *)
(* That the two agree (Agree) is not inductive: a call changes the panel     *)
(* before the engine has its command.  In between the engine is where it was *)
(* when the call began, or its running transition has ended since; what the  *)
(* panel then is to the engine, call by call, is Pending.                    *)
EXTENDS Panels, SequenceTheorems, TLAPS

\* The panel p with the next transition n and the engine's ME e.
Agree(p, n, e) ==
  /\ e.next = [type |-> n.type, tied |-> n.tied]
  /\ p.held = None =>
       /\ e.mix # None => ~e.mix.manual
       /\ Ended(e).program = p.program /\ Ended(e).preview = p.preview /\ Ended(e).key = p.key
  /\ p.held # None =>
       /\ e.mix # None /\ e.mix.manual /\ e.mix.tie = IF p.heldTies THEN "now" ELSE "no"
       /\ e.program = p.held.out /\ p.program = p.held.out /\ e.mix.target = p.held.in
       /\ e.preview = p.preview /\ Back(e).key = p.key
       /\ IF e.mix.after = None THEN p.preview # p.held.in
          ELSE e.mix.after = p.held.out /\ p.preview = p.held.in
       /\ p.held.in \in Red(p)

\* The panel as another call left it.
WithPreview(p, s) == [p EXCEPT !.preview = s]
WithKey(p, on) == [p EXCEPT !.key = on]
WithHeld(p, bar) == [p EXCEPT !.held = bar]

\* ... when the command k and then the rest r of a call are to come.
PendingTake(k, r, p, n, e) ==
  /\ k.op = "take" /\ r.do = "ties" /\ p.held = None
  /\ e.next = [type |-> n.type, tied |-> n.tied]
  /\ p.program = k.source /\ p.key = Ended(e).key
  /\ p.preview = IF k.preview = None THEN Ended(e).preview ELSE k.preview
  /\ r.tied = k.ties /\ (k.ties => n.tied)
PendingPreview(k, r, p, n, e) ==
  /\ k.op = "preview" /\ r.do = "none" /\ p.preview = k.source
  /\ \E s \in Sources : Agree(WithPreview(p, s), n, e)
PendingKey(k, r, p, n, e) ==
  /\ k.op = "key" /\ p.key = k.on
  /\ r.do = "none" \/ (r.do = "ties" /\ ~r.tied /\ ~r.flips)
  /\ \E on \in BOOLEAN : Agree(WithKey(p, on), n, e)
PendingKeyAuto(k, r, p, n, e) ==
  /\ k.op = "keyAuto" /\ r.do = "ties" /\ ~r.tied /\ r.flips /\ p.held = None
  /\ \E on \in BOOLEAN : on # p.key /\ Agree(WithKey(p, on), n, e)
PendingTransition(k, r, p, n, e) ==
  /\ k.op = "transition" /\ r.do = "none" /\ k.next = [type |-> n.type, tied |-> n.tied]
  /\ Agree(p, [type |-> e.next.type, tied |-> e.next.tied], e)
PendingAuto(k, r, p, n, e) ==
  /\ k.op = "auto" /\ r.do = "rest" /\ p.held = None
  /\ \E bar \in Bar(At \ {0, Full}) : bar.in = r.in /\ Agree(WithHeld(p, bar), n, e)
PendingPosition(k, r, p, n, e) ==
  /\ k.op = "position" /\ r.do = "bar" /\ r.held.at = k.t /\ Agree(p, n, e)
  /\ p.held = None => /\ p.heldTies = n.tied /\ p.mix = {p.program, p.preview} /\ k.t > 0
                      /\ n.type # "stinger"
  /\ r.held.out = (IF p.held = None THEN p.program ELSE p.held.out)
  /\ r.held.in = (IF p.held = None THEN p.preview ELSE p.held.in)

Pending(k, r, p, n, e) ==
  \/ PendingTake(k, r, p, n, e) \/ PendingPreview(k, r, p, n, e) \/ PendingKey(k, r, p, n, e)
  \/ PendingKeyAuto(k, r, p, n, e) \/ PendingTransition(k, r, p, n, e)
  \/ PendingAuto(k, r, p, n, e) \/ PendingPosition(k, r, p, n, e)

Follow ==
  ready /\ apart = {} =>
    /\ Quiet => Agree(panel, next, engine)
    /\ \A c \in Calls : call[c] # NoCall => Pending(call[c].command, call[c].rest, panel, next, engine)
\* Without a race one call is under way: it has the end of the T-bar it saw, and
\* what it does at last ends no transition that the T-bar holds by then.
Alone ==
  "raced" \notin apart =>
    \A c \in Calls : call[c] # NoCall =>
      /\ \A d \in Calls \ {c} : call[d] = NoCall
      /\ call[c].lever # None => call[c].lever.end = panel.end
      /\ panel.held # None => call[c].rest.do # "rest" /\ (call[c].rest.do = "ties" => ~call[c].rest.flips)
\* A lever that is picked up has moved, or rests at the T-bar's end.
BeenSince ==
  \A l \in Levers :
    /\ panel.last[l] # None => been[l] \in {panel.last[l], Full + 1}
    /\ l \in Range(panel.picked) => been[l] \in {RestsAt(panel.end), Full + 1}

IInv == TypeOK /\ Follow /\ Alone /\ BeenSince

-----------------------------------------------------------------------------
(* The levers that are picked up *)

LEMMA BoundedIs ==
  ASSUME NEW s, NEW n \in Nat
  PROVE  s \in BoundedSeq(Levers, n) <=> s \in Seq(Levers) /\ Len(s) <= n
<1>1. s \in BoundedSeq(Levers, n) <=> \E m \in 0 .. n : s \in [1 .. m -> Levers]
  BY DEF BoundedSeq, SeqOf
<1>2. ASSUME NEW m \in 0 .. n, s \in [1 .. m -> Levers] PROVE s \in Seq(Levers) /\ Len(s) <= n
  BY <1>2
<1>3. ASSUME s \in Seq(Levers), Len(s) <= n PROVE s \in [1 .. Len(s) -> Levers] /\ Len(s) \in 0 .. n
  BY <1>3
<1> QED BY <1>1, <1>2, <1>3

LEMMA RemoveAtIs ==
  ASSUME NEW s \in Seq(Levers), NEW i \in 1 .. Len(s)
  PROVE  /\ RemoveAt(s, i) \in Seq(Levers) /\ Len(RemoveAt(s, i)) = Len(s) - 1
         /\ \A j \in 1 .. Len(s) - 1 : RemoveAt(s, i)[j] = IF j < i THEN s[j] ELSE s[j + 1]
<1> DEFINE a == SubSeq(s, 1, i - 1)
           b == SubSeq(s, i + 1, Len(s))
<1>1. /\ a \in Seq(Levers) /\ Len(a) = i - 1 /\ \A j \in 1 .. i - 1 : a[j] = s[j]
      /\ b \in Seq(Levers) /\ Len(b) = Len(s) - i /\ \A j \in 1 .. Len(s) - i : b[j] = s[i + j]
  OBVIOUS
<1>2. RemoveAt(s, i) = a \o b
  BY DEF RemoveAt
<1> HIDE DEF a, b
<1>3. /\ a \o b \in Seq(Levers) /\ Len(a \o b) = Len(s) - 1
      /\ \A j \in 1 .. Len(s) - 1 : (a \o b)[j] = IF j < i THEN a[j] ELSE b[j - (i - 1)]
  <2>1. Len(a) + Len(b) = Len(s) - 1
    BY <1>1
  <2>2. /\ a \o b \in Seq(Levers) /\ Len(a \o b) = Len(a) + Len(b)
        /\ \A j \in 1 .. Len(a) + Len(b) :
             (a \o b)[j] = IF j <= Len(a) THEN a[j] ELSE b[j - Len(a)]
    BY <1>1, ConcatProperties
  <2>3. Len(a) = i - 1
    BY <1>1
  <2>4. \A j \in 1 .. Len(s) - 1 : j <= Len(a) <=> j < i
    BY <2>3
  <2> HIDE DEF a, b
  <2> QED BY <2>1, <2>2, <2>3, <2>4
<1>4. \A j \in 1 .. Len(s) - 1 : j >= i => b[j - (i - 1)] = s[j + 1]
  <2> SUFFICES ASSUME NEW j \in 1 .. Len(s) - 1, j >= i PROVE b[j - (i - 1)] = s[j + 1]
    OBVIOUS
  <2>1. j - (i - 1) \in 1 .. Len(s) - i /\ i + (j - (i - 1)) = j + 1
    OBVIOUS
  <2> QED BY <1>1, <2>1
<1> QED BY <1>1, <1>2, <1>3, <1>4

\* What is left of levers told apart, and that the one removed is not.
LEMMA RemoveAtKeeps ==
  ASSUME NEW s \in Seq(Levers), IsInjective(s), NEW i \in 1 .. Len(s)
  PROVE  /\ IsInjective(RemoveAt(s, i))
         /\ \A l : l \in Range(RemoveAt(s, i)) <=> l \in Range(s) /\ l # s[i]
<1> DEFINE t == RemoveAt(s, i)
<1>1. /\ t \in Seq(Levers) /\ Len(t) = Len(s) - 1
      /\ \A j \in 1 .. Len(s) - 1 : t[j] = IF j < i THEN s[j] ELSE s[j + 1]
  BY RemoveAtIs
<1>2. DOMAIN s = 1 .. Len(s) /\ DOMAIN t = 1 .. Len(s) - 1
  BY <1>1
<1>3. \A j, k \in 1 .. Len(s) : s[j] = s[k] => j = k
  BY <1>2 DEF IsInjective
<1> HIDE DEF t
<1>4. IsInjective(t)
  <2> SUFFICES ASSUME NEW j \in 1 .. Len(s) - 1, NEW k \in 1 .. Len(s) - 1, t[j] = t[k]
               PROVE  j = k
    BY <1>2 DEF IsInjective
  <2> QED BY <1>1, <1>3
<1>5. \A j \in 1 .. Len(s) - 1 : t[j] \in Range(s) /\ t[j] # s[i]
  <2> SUFFICES ASSUME NEW j \in 1 .. Len(s) - 1 PROVE t[j] \in Range(s) /\ t[j] # s[i]
    OBVIOUS
  <2>1. CASE j < i
    BY <1>1, <1>2, <1>3, <2>1 DEF Range
  <2>2. CASE j >= i
    <3>1. j + 1 \in 1 .. Len(s) /\ t[j] = s[j + 1] /\ j + 1 # i
      BY <1>1, <2>2
    <3> QED BY <1>2, <1>3, <3>1 DEF Range
  <2> QED BY <2>1, <2>2
<1>6. \A j \in 1 .. Len(s) : j # i => s[j] \in Range(t)
  <2> SUFFICES ASSUME NEW j \in 1 .. Len(s), j # i PROVE s[j] \in Range(t)
    OBVIOUS
  <2>1. CASE j < i
    <3>1. j \in 1 .. Len(s) - 1 /\ t[j] = s[j]
      BY <1>1, <2>1
    <3> QED BY <1>2, <3>1 DEF Range
  <2>2. CASE j > i
    <3>1. j - 1 \in 1 .. Len(s) - 1 /\ t[j - 1] = s[j]
      BY <1>1, <2>2
    <3> QED BY <1>2, <3>1 DEF Range
  <2> QED BY <2>1, <2>2
<1> QED BY <1>2, <1>4, <1>5, <1>6 DEF Range, t

LEMMA AppendKeeps ==
  ASSUME NEW s \in Seq(Levers), IsInjective(s), NEW l \in Levers, l \notin Range(s)
  PROVE  /\ Append(s, l) \in Seq(Levers) /\ Len(Append(s, l)) = Len(s) + 1
         /\ IsInjective(Append(s, l))
         /\ \A x : x \in Range(Append(s, l)) <=> x \in Range(s) \/ x = l
<1> DEFINE t == Append(s, l)
<1>1. /\ t \in Seq(Levers) /\ Len(t) = Len(s) + 1 /\ t[Len(s) + 1] = l
      /\ \A j \in 1 .. Len(s) : t[j] = s[j]
  OBVIOUS
<1>2. DOMAIN s = 1 .. Len(s) /\ DOMAIN t = 1 .. Len(s) + 1
  BY <1>1
<1> HIDE DEF t
<1>3. \A j \in 1 .. Len(s) + 1 : j = Len(s) + 1 \/ j \in 1 .. Len(s)
  OBVIOUS
<1>4. \A j \in 1 .. Len(s) : s[j] # l
  BY <1>2 DEF Range
<1>5. IsInjective(t)
  BY <1>1, <1>2, <1>3, <1>4 DEF IsInjective
<1>6. \A x : x \in Range(t) <=> x \in Range(s) \/ x = l
  BY <1>1, <1>2, <1>3 DEF Range
<1> QED BY <1>1, <1>5, <1>6 DEF t

Levered(p) == IsInjective(p.picked) /\ p.picked \in Seq(Levers) /\ Len(p.picked) <= TbarSources + 1

LEMMA PicksIs ==
  ASSUME NEW p \in PanelType, Levered(p), NEW l \in Levers
  PROVE  /\ Picks(p, l) \in PanelType /\ Levered(Picks(p, l))
         /\ Picks(p, l) = [p EXCEPT !.picked = Picks(p, l).picked]
         /\ l \in Range(Picks(p, l).picked)
         /\ \A x \in Range(Picks(p, l).picked) : x = l \/ x \in Range(p.picked)
         /\ p.held # None /\ p.driver \in Range(p.picked) => p.driver \in Range(Picks(p, l).picked)
<1> DEFINE full == l \notin Range(p.picked) /\ Len(p.picked) >= TbarSources
           victim == IF p.held # None /\ Head(p.picked) = p.driver THEN 2 ELSE 1
           less == IF full THEN RemoveAt(p.picked, victim) ELSE Without(p.picked, l)
<1>0. TbarSources \in Nat /\ TbarSources >= 1
  BY PanelsAssumption
<1>1. Picks(p, l) = [p EXCEPT !.picked = Append(less, l)]
  BY DEF Picks, PanelType
<1>2. DOMAIN p.picked = 1 .. Len(p.picked) /\ Len(p.picked) \in Nat
  BY DEF Levered
<1>3. /\ less \in Seq(Levers) /\ IsInjective(less) /\ l \notin Range(less)
      /\ Len(less) <= TbarSources
      /\ \A x \in Range(less) : x \in Range(p.picked)
      /\ p.held # None /\ p.driver \in Range(p.picked) => p.driver \in Range(less) \/ p.driver = l
  <2>1. CASE full /\ victim \in 1 .. Len(p.picked)
    <3>1. less = RemoveAt(p.picked, victim)
      BY <2>1
    <3>2. p.held # None => p.picked[victim] # p.driver
      <4>1. CASE p.held # None /\ Head(p.picked) = p.driver
        <5>1. p.picked[1] = p.driver /\ victim = 2 /\ 1 \in 1 .. Len(p.picked)
          BY <2>1, <4>1 DEF Levered
        <5> QED BY <1>2, <2>1, <5>1 DEF Levered, IsInjective
      <4>2. CASE ~(p.held # None /\ Head(p.picked) = p.driver)
        BY <2>1, <4>2 DEF Levered
      <4> QED BY <4>1, <4>2
    <3> HIDE DEF victim, less
    <3>3. /\ less \in Seq(Levers) /\ Len(less) = Len(p.picked) - 1 /\ IsInjective(less)
          /\ \A x : x \in Range(less) <=> x \in Range(p.picked) /\ x # p.picked[victim]
      BY <2>1, <3>1, RemoveAtIs, RemoveAtKeeps DEF Levered
    <3> QED BY <1>0, <1>2, <2>1, <3>2, <3>3 DEF Levered
  <2>2. CASE full /\ victim \notin 1 .. Len(p.picked)
    <3>1. Len(p.picked) >= 1
      BY <1>0, <1>2, <2>2
    <3>2. victim \in {1, 2}
      OBVIOUS
    <3>3. Len(p.picked) = 1 /\ victim = 2
      <4>1. victim \notin 1 .. Len(p.picked)
        BY <2>2
      <4> HIDE DEF victim, full, less
      <4>2. PICK n \in Nat : n = Len(p.picked)
        BY <1>2
      <4>3. victim \notin 1 .. n /\ n >= 1
        BY <3>1, <4>1, <4>2
      <4>4. victim # 1 /\ victim = 2
        BY <3>2, <4>3
      <4>5. n = 1
        BY <4>3, <4>4
      <4> QED BY <4>2, <4>4, <4>5
    <3>4. less = RemoveAt(p.picked, 2)
      BY <2>2, <3>3
    <3>5. RemoveAt(p.picked, 2) = p.picked
      <4>1. SubSeq(p.picked, 1, 1) = p.picked /\ SubSeq(p.picked, 3, 1) = << >>
        BY <3>3 DEF Levered
      <4>2. RemoveAt(p.picked, 2) = SubSeq(p.picked, 1, 1) \o SubSeq(p.picked, 3, 1)
        BY <3>3 DEF RemoveAt
      <4>3. p.picked \o << >> = p.picked
        BY ConcatEmptySeq DEF Levered
      <4> QED BY <4>1, <4>2, <4>3
    <3> HIDE DEF less
    <3> QED BY <1>0, <2>2, <3>3, <3>4, <3>5 DEF Levered
  <2>3. CASE ~full /\ l \in Range(p.picked)
    <3> DEFINE i == CHOOSE i \in DOMAIN p.picked : p.picked[i] = l
    <3>1. less = RemoveAt(p.picked, i)
      BY <2>3 DEF Without
    <3>2. i \in 1 .. Len(p.picked) /\ p.picked[i] = l
      BY <1>2, <2>3 DEF Range
    <3> HIDE DEF i, less
    <3>3. /\ less \in Seq(Levers) /\ Len(less) = Len(p.picked) - 1 /\ IsInjective(less)
          /\ \A x : x \in Range(less) <=> x \in Range(p.picked) /\ x # p.picked[i]
      BY <3>1, <3>2, RemoveAtIs, RemoveAtKeeps DEF Levered
    <3> QED BY <1>0, <1>2, <3>2, <3>3 DEF Levered
  <2>4. CASE ~full /\ l \notin Range(p.picked)
    <3>1. less = p.picked /\ Len(p.picked) < TbarSources
      BY <1>0, <1>2, <2>4 DEF Without
    <3> QED BY <1>0, <2>4, <3>1 DEF Levered
  <2> QED BY <2>1, <2>2, <2>3, <2>4
<1> HIDE DEF less
<1>4. /\ Append(less, l) \in Seq(Levers) /\ Len(Append(less, l)) = Len(less) + 1
      /\ IsInjective(Append(less, l))
      /\ \A x : x \in Range(Append(less, l)) <=> x \in Range(less) \/ x = l
  BY <1>3, AppendKeeps
<1>5. Len(less) \in Nat
  BY <1>3
<1>6. Append(less, l) \in BoundedSeq(Levers, TbarSources + 1)
  <2>1. Len(Append(less, l)) <= TbarSources + 1 /\ TbarSources + 1 \in Nat
    BY <1>0, <1>3, <1>4, <1>5
  <2> QED BY <1>4, <2>1, BoundedIs
<1>7. Picks(p, l).picked = Append(less, l)
  BY <1>1 DEF PanelType
<1>8. Picks(p, l) \in PanelType
  BY <1>1, <1>6 DEF PanelType
<1>9. Levered(Picks(p, l))
  BY <1>0, <1>3, <1>4, <1>5, <1>7 DEF Levered
<1> QED BY <1>1, <1>3, <1>4, <1>7, <1>8, <1>9
-----------------------------------------------------------------------------
(* What the operations on the panel do *)

Paneled(p) == p \in PanelType /\ Levered(p)

SameLevers(q, p) ==
  q.end = p.end /\ q.picked = p.picked /\ q.last = p.last /\ q.driver = p.driver

\* The levers have to come to the T-bar's end again.
Unpicked(q) == q.picked = << >> /\ q.last = [l \in Levers |-> None]

LEMMA PaneledIs ==
  ASSUME NEW p
  PROVE  Paneled(p) <=> p \in PanelType /\ IsInjective(p.picked)
<1>1. TbarSources + 1 \in Nat
  BY PanelsAssumption
<1>2. p \in PanelType => p.picked \in BoundedSeq(Levers, TbarSources + 1)
  BY DEF PanelType
<1> QED BY <1>1, <1>2, BoundedIs DEF Paneled, Levered

LEMMA NoneIsPicked ==
  << >> \in BoundedSeq(Levers, TbarSources + 1) /\ IsInjective(<< >>) /\ Range(<< >>) = {}
<1>1. << >> \in Seq(Levers) /\ Len(<< >>) <= TbarSources + 1 /\ TbarSources + 1 \in Nat
  BY PanelsAssumption
<1>2. DOMAIN << >> = {}
  OBVIOUS
<1> QED BY <1>1, <1>2, BoundedIs DEF IsInjective, Range

LEMMA FlipIs ==
  ASSUME NEW p, Paneled(p)
  PROVE  /\ Paneled(Flip(p)) /\ Unpicked(Flip(p)) /\ Flip(p).end = Other(p.end)
         /\ Flip(p).program = p.program /\ Flip(p).preview = p.preview /\ Flip(p).key = p.key
         /\ Flip(p).heldTies = p.heldTies /\ Flip(p).mix = p.mix /\ Flip(p).held = p.held
         /\ Flip(p).driver = p.driver
<1>1. p \in PanelType /\ Other(p.end) \in {"top", "bottom"}
  BY PaneledIs DEF Other
<1>2. [l \in Levers |-> None] \in [Levers -> At \cup {None}]
  OBVIOUS
<1>3. Flip(p) \in PanelType
  BY <1>1, <1>2, NoneIsPicked DEF Flip, PanelType
<1>4. /\ Unpicked(Flip(p)) /\ Flip(p).end = Other(p.end)
      /\ Flip(p).program = p.program /\ Flip(p).preview = p.preview /\ Flip(p).key = p.key
      /\ Flip(p).heldTies = p.heldTies /\ Flip(p).mix = p.mix /\ Flip(p).held = p.held
      /\ Flip(p).driver = p.driver
  BY <1>1 DEF Flip, PanelType, Unpicked
<1> QED BY <1>3, <1>4, NoneIsPicked, PaneledIs DEF Unpicked

LEMMA TakeTiesIs ==
  ASSUME NEW p, Paneled(p), NEW tied \in BOOLEAN
  PROVE  /\ Paneled(TakeTies(p, tied)) /\ SameLevers(TakeTies(p, tied), p)
         /\ TakeTies(p, tied).key = IF tied THEN ~p.key ELSE p.key
         /\ TakeTies(p, tied).program = p.program /\ TakeTies(p, tied).preview = p.preview
         /\ TakeTies(p, tied).heldTies = p.heldTies /\ TakeTies(p, tied).mix = p.mix
         /\ TakeTies(p, tied).held = p.held
BY PaneledIs DEF TakeTies, PanelType, SameLevers

LEMMA EndHeldTiesIs ==
  ASSUME NEW p, Paneled(p)
  PROVE  /\ Paneled(EndHeldTies(p)) /\ SameLevers(EndHeldTies(p), p)
         /\ EndHeldTies(p).key = IF p.heldTies THEN ~p.key ELSE p.key
         /\ EndHeldTies(p).program = p.program /\ EndHeldTies(p).preview = p.preview
         /\ EndHeldTies(p).heldTies = FALSE /\ EndHeldTies(p).mix = p.mix
         /\ EndHeldTies(p).held = p.held
<1> DEFINE q == TakeTies(p, p.heldTies)
<1>1. p.heldTies \in BOOLEAN
  BY PaneledIs DEF PanelType
<1>2. /\ Paneled(q) /\ SameLevers(q, p)
      /\ q.key = (IF p.heldTies THEN ~p.key ELSE p.key)
      /\ q.program = p.program /\ q.preview = p.preview
      /\ q.mix = p.mix /\ q.held = p.held
  BY <1>1, TakeTiesIs
<1>3. EndHeldTies(p) = [q EXCEPT !.heldTies = FALSE]
  BY DEF EndHeldTies
<1> HIDE DEF q
<1> QED BY <1>2, <1>3, PaneledIs DEF PanelType, SameLevers

LEMMA ToProgramIs ==
  ASSUME NEW p, Paneled(p), NEW source \in Sources, NEW swap \in BOOLEAN
  PROVE  LET q == ToProgram(p, source, swap)
         IN /\ Paneled(q) /\ SameLevers(q, p)
            /\ q.program = source
            /\ q.preview = IF swap /\ p.program # source THEN p.program ELSE p.preview
            /\ q.key = p.key /\ q.heldTies = p.heldTies /\ q.mix = {} /\ q.held = p.held
BY PaneledIs DEF ToProgram, PanelType, SameLevers

\* A held transition that ends with `in' on Program.
LEMMA CompleteIs ==
  ASSUME NEW p, Paneled(p), NEW in \in Sources
  PROVE  LET q == Complete(p, in)
         IN /\ Paneled(q) /\ SameLevers(q, p)
            /\ q.program = in
            /\ q.preview = IF p.preview = in /\ p.program # in THEN p.program ELSE p.preview
            /\ q.key = IF p.heldTies THEN ~p.key ELSE p.key
            /\ q.heldTies = FALSE /\ q.mix = {} /\ q.held = p.held
<1> DEFINE e == EndHeldTies(p)
           swap == p.preview = in
           q == ToProgram(e, in, swap)
<1>1. /\ Paneled(e) /\ SameLevers(e, p)
      /\ e.key = (IF p.heldTies THEN ~p.key ELSE p.key)
      /\ e.program = p.program /\ e.preview = p.preview
      /\ e.heldTies = FALSE /\ e.mix = p.mix /\ e.held = p.held
  BY EndHeldTiesIs
<1>2. Complete(p, in) = q
  BY DEF Complete
<1>3. swap \in BOOLEAN
  OBVIOUS
<1>4. /\ Paneled(q) /\ SameLevers(q, e)
      /\ q.program = in
      /\ q.preview = (IF swap /\ e.program # in THEN e.program ELSE e.preview)
      /\ q.key = e.key /\ q.heldTies = e.heldTies /\ q.mix = {} /\ q.held = e.held
  <2> HIDE DEF e, swap
  <2> QED BY <1>1, <1>3, ToProgramIs
<1> QED BY <1>1, <1>2, <1>4 DEF SameLevers

\* ... as _put_on_program() and set_position() end it: from the new end of the T-bar.
Ends(p, in) == Complete(Flip([p EXCEPT !.held = None]), in)

LEMMA EndsIs ==
  ASSUME NEW p, Paneled(p), NEW in \in Sources
  PROVE  LET q == Ends(p, in)
         IN /\ Paneled(q) /\ Unpicked(q) /\ q.end = Other(p.end) /\ q.driver = p.driver
            /\ q.program = in
            /\ q.preview = IF p.preview = in /\ p.program # in THEN p.program ELSE p.preview
            /\ q.key = IF p.heldTies THEN ~p.key ELSE p.key
            /\ q.heldTies = FALSE /\ q.mix = {} /\ q.held = None
<1> DEFINE r == [p EXCEPT !.held = None]
           f == Flip(r)
           q == Complete(f, in)
<1>1. /\ Paneled(r) /\ SameLevers(r, p) /\ r.program = p.program /\ r.preview = p.preview
      /\ r.key = p.key /\ r.heldTies = p.heldTies /\ r.held = None
  BY PaneledIs DEF PanelType, SameLevers
<1> HIDE DEF r
<1>2. /\ Paneled(f) /\ Unpicked(f) /\ f.end = Other(r.end) /\ f.driver = r.driver
      /\ f.program = r.program /\ f.preview = r.preview /\ f.key = r.key
      /\ f.heldTies = r.heldTies /\ f.held = r.held
  BY <1>1, FlipIs
<1> HIDE DEF f
<1>3. /\ Paneled(q) /\ SameLevers(q, f)
      /\ q.program = in
      /\ q.preview = (IF f.preview = in /\ f.program # in THEN f.program ELSE f.preview)
      /\ q.key = (IF f.heldTies THEN ~f.key ELSE f.key)
      /\ q.heldTies = FALSE /\ q.mix = {} /\ q.held = f.held
  BY <1>2, CompleteIs
<1>4. Ends(p, in) = q
  BY DEF Ends, f, r
<1> QED BY <1>1, <1>2, <1>3, <1>4 DEF SameLevers, Unpicked

LEMMA FinishedIs ==
  ASSUME NEW p, Paneled(p), p.held # None
  PROVE  Finished(p) = Ends(p, p.held.in) /\ p.held.in \in Sources
BY PaneledIs DEF Finished, Ends, PanelType, Bar

\* The panel after _put_on_program(): a held transition has ended before.
LEMMA PutIs ==
  ASSUME NEW p, Paneled(p), NEW source \in Sources, NEW swap \in BOOLEAN
  PROVE  LET from == IF p.held = None THEN p ELSE Finished(p)
             q == Put(p, source, swap)
         IN /\ Paneled(from) /\ Paneled(q) /\ q.held = None /\ q.program = source
            /\ q.preview = IF swap /\ from.program # source THEN from.program ELSE from.preview
            /\ q.key = from.key
            /\ IF p.held = None THEN SameLevers(q, p)
               ELSE Unpicked(q) /\ q.end = Other(p.end) /\ q.driver = p.driver
<1> DEFINE from == IF p.held = None THEN p ELSE Finished(p)
           q == ToProgram(from, source, swap)
<1>1. /\ Paneled(from) /\ from.held = None
      /\ IF p.held = None THEN SameLevers(from, p)
         ELSE Unpicked(from) /\ from.end = Other(p.end) /\ from.driver = p.driver
  <2>1. CASE p.held = None
    BY <2>1 DEF SameLevers
  <2>2. CASE p.held # None
    <3>1. from = Ends(p, p.held.in) /\ p.held.in \in Sources
      BY <2>2, FinishedIs
    <3> DEFINE in == p.held.in
    <3>2. in \in Sources /\ from = Ends(p, in)
      BY <3>1
    <3> HIDE DEF from, in
    <3>3. /\ Paneled(Ends(p, in)) /\ Unpicked(Ends(p, in)) /\ Ends(p, in).end = Other(p.end)
          /\ Ends(p, in).driver = p.driver /\ Ends(p, in).held = None
      BY <3>2, EndsIs
    <3> QED BY <2>2, <3>2, <3>3
  <2> QED BY <2>1, <2>2
<1> HIDE DEF from
<1>2. /\ Paneled(q) /\ SameLevers(q, from)
      /\ q.program = source
      /\ q.preview = (IF swap /\ from.program # source THEN from.program ELSE from.preview)
      /\ q.key = from.key /\ q.heldTies = from.heldTies /\ q.mix = {} /\ q.held = from.held
  BY <1>1, ToProgramIs
<1>3. Put(p, source, swap) = q
  BY DEF Put, from
<1> QED BY <1>1, <1>2, <1>3 DEF from, SameLevers, Unpicked

LEMMA HeldTwice ==
  ASSUME NEW p, NEW a, NEW b
  PROVE  [[p EXCEPT !.held = a] EXCEPT !.held = b] = [p EXCEPT !.held = b]
OBVIOUS

\* The panel after the rest of a call.
Flips(r) == r.do = "rest" \/ (r.do = "ties" /\ r.flips)

LEMMA RestsKeep ==
  ASSUME NEW p, Paneled(p), NEW r \in RestType
  PROVE  LET q == Rests(p, r)
         IN /\ Paneled(q)
            /\ \/ q.end = p.end /\ q.picked = p.picked /\ q.last = p.last
               \/ Unpicked(q)
            /\ q.driver = p.driver
            /\ q.held # None /\ ~Flips(r) => q.end = p.end /\ q.picked = p.picked
<1>1. CASE r.do = "none"
  BY <1>1 DEF Rests, Flips
<1>2. CASE r.do = "ties"
  <2> DEFINE t == TakeTies(p, r.tied)
  <2>1. r.tied \in BOOLEAN /\ r.flips \in BOOLEAN
    BY <1>2 DEF RestType
  <2>2. Paneled(t) /\ SameLevers(t, p)
    BY <2>1, TakeTiesIs
  <2>3. Rests(p, r) = IF r.flips THEN Flip(t) ELSE t
    BY <1>2 DEF Rests
  <2> HIDE DEF t
  <2>4. Paneled(Flip(t)) /\ Unpicked(Flip(t)) /\ Flip(t).driver = t.driver
    BY <2>2, FlipIs
  <2> QED BY <1>2, <2>2, <2>3, <2>4 DEF SameLevers, Flips
<1>3. CASE r.do = "rest"
  <2> DEFINE e == EndHeldTies(p)
             swap == p.preview = r.in
             q == Put(e, r.in, swap)
  <2>1. r.in \in Sources /\ swap \in BOOLEAN
    BY <1>3 DEF RestType
  <2>2. Paneled(e) /\ SameLevers(e, p)
    BY EndHeldTiesIs
  <2>3. Rests(p, r) = Flip(q)
    BY <1>3 DEF Rests
  <2> HIDE DEF e, swap
  <2>4. Paneled(q) /\ q.driver = e.driver
    BY <2>1, <2>2, PutIs DEF SameLevers
  <2> HIDE DEF q
  <2>5. Paneled(Flip(q)) /\ Unpicked(Flip(q)) /\ Flip(q).driver = q.driver
    BY <2>4, FlipIs
  <2> QED BY <1>3, <2>2, <2>3, <2>4, <2>5 DEF SameLevers, Flips
<1>4. CASE r.do = "bar"
  <2> DEFINE bar == r.held
  <2>1. bar \in Bar(At) /\ Rests(p, r) = AtBar(p, bar)
    BY <1>4 DEF RestType, Rests
  <2>2. bar.at \in At /\ bar.in \in Sources /\ bar.out \in Sources /\ Full # 0
    BY <2>1, PanelsAssumption DEF Bar
  <2> HIDE DEF bar
  <2>3. CASE bar.at = Full
    <3>1. AtBar(p, bar) = Ends(p, bar.in)
      <4>1. AtBar(p, bar) = Finished([p EXCEPT !.held = bar])
        BY <2>2, <2>3 DEF AtBar
      <4>2. [[p EXCEPT !.held = bar] EXCEPT !.held = None] = [p EXCEPT !.held = None]
        BY HeldTwice
      <4>3. [p EXCEPT !.held = bar].held = bar
        BY PaneledIs DEF PanelType
      <4> QED BY <4>1, <4>2, <4>3 DEF Finished, Ends
    <3> DEFINE in == bar.in
               q == Ends(p, in)
    <3>2. in \in Sources /\ Rests(p, r) = q
      BY <2>1, <2>2, <3>1
    <3> HIDE DEF in
    <3>3. Paneled(q) /\ Unpicked(q) /\ q.driver = p.driver /\ q.held = None
      BY <3>2, EndsIs
    <3> HIDE DEF q
    <3> QED BY <3>2, <3>3
  <2>4. CASE bar.at = 0
    <3> DEFINE q == [p EXCEPT !.held = None, !.mix = {}, !.heldTies = FALSE]
    <3>1. AtBar(p, bar) = q
      BY <2>2, <2>4 DEF AtBar
    <3>2. q \in PanelType /\ q.end = p.end /\ q.picked = p.picked /\ q.last = p.last
          /\ q.driver = p.driver /\ q.held = None
      BY PaneledIs DEF PanelType
    <3> HIDE DEF q
    <3>3. Paneled(q)
      BY <3>2, PaneledIs
    <3> QED BY <2>1, <3>1, <3>2, <3>3
  <2>5. CASE bar.at \notin {0, Full}
    <3> DEFINE q == [p EXCEPT !.held = bar]
    <3>1. AtBar(p, bar) = q
      BY <2>5 DEF AtBar
    <3>2. bar \in Bar(At \ {0, Full})
      BY <2>1, <2>2, <2>5 DEF Bar
    <3>3. q \in PanelType /\ q.end = p.end /\ q.picked = p.picked /\ q.last = p.last
          /\ q.driver = p.driver
      BY <3>2, PaneledIs DEF PanelType
    <3> HIDE DEF q
    <3>4. Paneled(q)
      BY <3>3, PaneledIs
    <3> QED BY <2>1, <3>1, <3>3, <3>4
  <2> QED BY <2>3, <2>4, <2>5
<1> QED BY <1>1, <1>2, <1>3, <1>4 DEF RestType

\* What set_lever() adds: the lever may be picked up, and may drive.
LEMMA AfterLeverIs ==
  ASSUME NEW p, Paneled(p), NEW lever \in LeverType \cup {None}
  PROVE  LET q == AfterLever(p, lever)
         IN /\ Paneled(q)
            /\ q = [p EXCEPT !.driver = q.driver, !.picked = q.picked]
            /\ \/ q.picked = p.picked
               \/ /\ lever # None /\ lever.who \in Levers /\ p.end # lever.end
                  /\ lever.v = RestsAt(p.end)
                  /\ \A l \in Range(q.picked) : l \in Range(p.picked) \/ l = lever.who
<1>1. p \in PanelType
  BY PaneledIs
<1>2. CASE lever = None
  BY <1>1, <1>2 DEF AfterLever, PanelType
<1>3. CASE lever # None
  <2> DEFINE hardware == lever.who # None
             drives == IF p.held = None THEN [p EXCEPT !.driver = None]
                       ELSE IF hardware /\ lever.t # lever.before
                            THEN [p EXCEPT !.driver = lever.who] ELSE p
             q == AfterLever(p, lever)
  <2>1. lever \in LeverType
    BY <1>3
  <2>2. lever.who \in Levers \cup {None}
    BY <2>1 DEF LeverType
  <2>3. /\ drives \in PanelType /\ drives.picked = p.picked
        /\ drives = [p EXCEPT !.driver = drives.driver]
    BY <1>1, <2>2 DEF PanelType
  <2>4. q = IF hardware /\ p.end # lever.end /\ lever.v = RestsAt(p.end)
            THEN Picks(drives, lever.who) ELSE drives
    BY <1>3 DEF AfterLever
  <2>5. Paneled(drives)
    BY <2>3, PaneledIs
  <2> HIDE DEF q, drives
  <2>6. CASE hardware /\ p.end # lever.end /\ lever.v = RestsAt(p.end)
    <3>1. lever.who \in Levers /\ q = Picks(drives, lever.who)
      BY <2>2, <2>4, <2>6
    <3>2. /\ q \in PanelType /\ Levered(q)
          /\ q = [drives EXCEPT !.picked = q.picked]
          /\ \A x \in Range(q.picked) : x = lever.who \/ x \in Range(drives.picked)
      BY <2>5, <3>1, PicksIs DEF Paneled
    <3>3. q = [p EXCEPT !.driver = q.driver, !.picked = q.picked]
      BY <1>1, <2>3, <3>2 DEF PanelType
    <3> QED BY <1>3, <2>3, <2>6, <3>1, <3>2, <3>3 DEF q, Paneled
  <2>7. CASE ~(hardware /\ p.end # lever.end /\ lever.v = RestsAt(p.end))
    <3>1. q = drives
      BY <2>4, <2>7
    <3>2. q = [p EXCEPT !.driver = q.driver, !.picked = q.picked]
      BY <1>1, <2>3, <3>1 DEF PanelType
    <3> QED BY <2>3, <2>5, <3>1, <3>2 DEF q
  <2> QED BY <2>6, <2>7
<1> QED BY <1>2, <1>3

LEMMA ReadiedIs ==
  ASSUME NEW p, Paneled(p)
  PROVE  /\ Paneled(Readied(p)) /\ Unpicked(Readied(p)) /\ Readied(p).end = p.end
         /\ Readied(p).program = p.program /\ Readied(p).preview = p.preview
         /\ Readied(p).key = p.key /\ Readied(p).held = None
<1>1. [l \in Levers |-> None] \in [Levers -> At \cup {None}]
  OBVIOUS
<1> QED BY <1>1, PaneledIs, NoneIsPicked DEF Readied, PanelType, Unpicked

-----------------------------------------------------------------------------
(* What commands do to the engine's ME *)

LEMMA EndedIs ==
  ASSUME NEW e \in EngineType
  PROVE  /\ Ended(e) \in EngineType /\ Ended(e).mix = None /\ Ended(e).next = e.next
         /\ Back(e) \in EngineType /\ Back(e).mix = None /\ Back(e).next = e.next
         /\ Back(e).program = e.program /\ Back(e).preview = e.preview
         /\ IF e.mix = None THEN Ended(e) = e /\ Back(e) = e
            ELSE /\ Ended(e).program = e.mix.target
                 /\ Ended(e).preview = IF e.mix.after = None THEN e.preview ELSE e.mix.after
                 /\ Ended(e).key = IF e.mix.tie = "cut" THEN ~e.key ELSE e.key
                 /\ Back(e).key = IF e.mix.tie = "now" THEN ~e.key ELSE e.key
<1>1. CASE e.mix = None
  BY <1>1 DEF Ended, Back, EngineType
<1>2. CASE e.mix # None
  <2>1. e.mix \in MixType
    BY <1>2 DEF EngineType
  <2>2. e.mix.target \in Sources /\ e.mix.after \in Sources \cup {None}
    BY <2>1 DEF MixType
  <2>3. /\ Ended(e) \in EngineType /\ Ended(e).mix = None /\ Ended(e).next = e.next
        /\ Ended(e).program = e.mix.target
        /\ Ended(e).preview = IF e.mix.after = None THEN e.preview ELSE e.mix.after
        /\ Ended(e).key = IF e.mix.tie = "cut" THEN ~e.key ELSE e.key
    BY <1>2, <2>2 DEF Ended, EngineType
  <2>4. /\ Back(e) \in EngineType /\ Back(e).mix = None /\ Back(e).next = e.next
        /\ Back(e).program = e.program /\ Back(e).preview = e.preview
        /\ Back(e).key = IF e.mix.tie = "now" THEN ~e.key ELSE e.key
    BY <1>2 DEF Back, EngineType
  <2> QED BY <1>2, <2>3, <2>4
<1> QED BY <1>1, <1>2

\* The engine's ME q, in which e now mixes.
Mixing(q, e, target, after, manual, tie) ==
  /\ q \in EngineType /\ q.next = e.next /\ q.mix # None
  /\ q.program = e.program /\ q.preview = e.preview
  /\ q.key = IF tie = "now" THEN ~e.key ELSE e.key
  /\ q.mix.target = target /\ q.mix.after = after /\ q.mix.tie = tie /\ q.mix.manual = manual

LEMMA MixesType ==
  ASSUME NEW e \in EngineType, NEW target \in Sources, NEW after \in Sources \cup {None},
         NEW manual \in BOOLEAN, NEW tie \in {"no", "now", "cut"}
  PROVE  Mixing(Mixes(e, target, after, manual, tie), e, target, after, manual, tie)
<1>1. [target |-> target, after |-> after, manual |-> manual, tie |-> tie] \in MixType
  BY DEF MixType
<1> QED BY <1>1, NoneApart DEF Mixes, EngineType, Mixing

-----------------------------------------------------------------------------
(* The panel and the engine agree *)

\* All but the levers and the T-bar's end.
SameBuses(q, p) ==
  /\ q.program = p.program /\ q.preview = p.preview /\ q.key = p.key
  /\ q.heldTies = p.heldTies /\ q.mix = p.mix /\ q.held = p.held

LEMMA AgreeSame ==
  ASSUME NEW p, NEW q, NEW n, NEW e, SameBuses(q, p), Agree(p, n, e)
  PROVE  Agree(q, n, e)
BY DEF SameBuses, Agree, Red

LEMMA PendingSame ==
  ASSUME NEW p \in PanelType, NEW q \in PanelType, NEW n, NEW e, NEW k, NEW r,
         SameBuses(q, p), Pending(k, r, p, n, e)
  PROVE  Pending(k, r, q, n, e)
<1>1. /\ \A s : SameBuses(WithPreview(q, s), WithPreview(p, s))
      /\ \A on : SameBuses(WithKey(q, on), WithKey(p, on))
      /\ \A bar : SameBuses(WithHeld(q, bar), WithHeld(p, bar))
  BY DEF SameBuses, PanelType, WithPreview, WithKey, WithHeld
<1>2. /\ \A s : Agree(WithPreview(p, s), n, e) => Agree(WithPreview(q, s), n, e)
      /\ \A on : Agree(WithKey(p, on), n, e) => Agree(WithKey(q, on), n, e)
      /\ \A bar : Agree(WithHeld(p, bar), n, e) => Agree(WithHeld(q, bar), n, e)
      /\ \A m : Agree(p, m, e) => Agree(q, m, e)
  BY <1>1, AgreeSame
<1>3. /\ q.program = p.program /\ q.preview = p.preview /\ q.key = p.key
      /\ q.heldTies = p.heldTies /\ q.mix = p.mix /\ q.held = p.held
  BY DEF SameBuses
<1>4. PendingTake(k, r, p, n, e) => PendingTake(k, r, q, n, e)
  BY <1>2, <1>3 DEF PendingTake
<1>5. PendingPreview(k, r, p, n, e) => PendingPreview(k, r, q, n, e)
  BY <1>2, <1>3 DEF PendingPreview
<1>6. PendingKey(k, r, p, n, e) => PendingKey(k, r, q, n, e)
  BY <1>2, <1>3 DEF PendingKey
<1>7. PendingKeyAuto(k, r, p, n, e) => PendingKeyAuto(k, r, q, n, e)
  BY <1>2, <1>3 DEF PendingKeyAuto
<1>8. PendingTransition(k, r, p, n, e) => PendingTransition(k, r, q, n, e)
  BY <1>2, <1>3 DEF PendingTransition
<1>9. PendingAuto(k, r, p, n, e) => PendingAuto(k, r, q, n, e)
  BY <1>2, <1>3 DEF PendingAuto
<1>10. PendingPosition(k, r, p, n, e) => PendingPosition(k, r, q, n, e)
  BY <1>2, <1>3 DEF PendingPosition
<1> QED BY <1>4, <1>5, <1>6, <1>7, <1>8, <1>9, <1>10 DEF Pending

\* The engine moves by itself: a transition that runs ends, a stinger cuts its keyer.
Moved(e, f) ==
  \/ e.mix # None /\ ~e.mix.manual /\ f = Ended(e)
  \/ e.mix # None /\ e.mix.tie = "cut" /\ f = [e EXCEPT !.key = ~@, !.mix.tie = "no"]

LEMMA MovedIs ==
  ASSUME NEW e \in EngineType, NEW f, Moved(e, f)
  PROVE  /\ f \in EngineType /\ f.next = e.next
         /\ Ended(f).program = Ended(e).program /\ Ended(f).preview = Ended(e).preview
         /\ Ended(f).key = Ended(e).key
         /\ f.mix # None => e.mix # None /\ (f.mix.manual <=> e.mix.manual)
         /\ e.mix # None /\ (e.mix.manual => e.mix.tie = "cut")
<1>1. CASE e.mix # None /\ ~e.mix.manual /\ f = Ended(e)
  BY <1>1, EndedIs
<1>2. CASE e.mix # None /\ e.mix.tie = "cut" /\ f = [e EXCEPT !.key = ~@, !.mix.tie = "no"]
  <2>1. e.mix \in MixType
    BY <1>2 DEF EngineType
  <2>2. f = [e EXCEPT !.key = ~@, !.mix = [@ EXCEPT !.tie = "no"]]
    BY <1>2
  <2>3. [e.mix EXCEPT !.tie = "no"] \in MixType
    BY <2>1 DEF MixType
  <2>4. /\ f \in EngineType /\ f.next = e.next /\ f.program = e.program /\ f.preview = e.preview
        /\ f.key = ~e.key /\ f.mix = [e.mix EXCEPT !.tie = "no"]
    BY <2>2, <2>3 DEF EngineType
  <2>5. /\ f.mix # None /\ f.mix.target = e.mix.target /\ f.mix.after = e.mix.after
        /\ f.mix.manual = e.mix.manual /\ f.mix.tie = "no"
    BY <2>1, <2>3, <2>4, NoneApart DEF MixType
  <2>6. /\ Ended(e).program = e.mix.target /\ Ended(e).key = ~e.key
        /\ Ended(e).preview = (IF e.mix.after = None THEN e.preview ELSE e.mix.after)
    BY <1>2, EndedIs
  <2>7. /\ Ended(f).program = f.mix.target /\ Ended(f).key = f.key
        /\ Ended(f).preview = (IF f.mix.after = None THEN f.preview ELSE f.mix.after)
    BY <2>4, <2>5, EndedIs
  <2>8. Ended(f).program = Ended(e).program /\ Ended(f).preview = Ended(e).preview
    BY <2>4, <2>5, <2>6, <2>7
  <2>9. Ended(f).key = Ended(e).key
    BY <2>4, <2>6, <2>7
  <2> QED BY <1>2, <2>4, <2>5, <2>8, <2>9
<1> QED BY <1>1, <1>2 DEF Moved

LEMMA AgreeMoved ==
  ASSUME NEW p, NEW n, NEW e \in EngineType, NEW f, Moved(e, f), Agree(p, n, e)
  PROVE  p.held = None /\ Agree(p, n, f)
<1>1. p.held = None
  BY MovedIs DEF Agree
<1> QED BY <1>1, MovedIs DEF Agree

LEMMA PendingMoved ==
  ASSUME NEW p, NEW n, NEW k, NEW r, NEW e \in EngineType, NEW f, Moved(e, f),
         Pending(k, r, p, n, e)
  PROVE  Pending(k, r, p, n, f)
<1>1. \A q, m : Agree(q, m, e) => Agree(q, m, f)
  BY AgreeMoved
<1>2. f.next = e.next /\ Ended(f).key = Ended(e).key /\ Ended(f).preview = Ended(e).preview
  BY MovedIs
<1>4. PendingTake(k, r, p, n, e) => PendingTake(k, r, p, n, f)
  BY <1>1, <1>2 DEF PendingTake
<1>5. PendingPreview(k, r, p, n, e) => PendingPreview(k, r, p, n, f)
  BY <1>1, <1>2 DEF PendingPreview
<1>6. PendingKey(k, r, p, n, e) => PendingKey(k, r, p, n, f)
  BY <1>1, <1>2 DEF PendingKey
<1>7. PendingKeyAuto(k, r, p, n, e) => PendingKeyAuto(k, r, p, n, f)
  BY <1>1, <1>2 DEF PendingKeyAuto
<1>8. PendingTransition(k, r, p, n, e) => PendingTransition(k, r, p, n, f)
  BY <1>1, <1>2 DEF PendingTransition
<1>9. PendingAuto(k, r, p, n, e) => PendingAuto(k, r, p, n, f)
  BY <1>1, <1>2 DEF PendingAuto
<1>10. PendingPosition(k, r, p, n, e) => PendingPosition(k, r, p, n, f)
  BY <1>1, <1>2 DEF PendingPosition
<1> QED BY <1>4, <1>5, <1>6, <1>7, <1>8, <1>9, <1>10 DEF Pending

\* A held transition that ends, in both.
LEMMA AgreeEnded ==
  ASSUME NEW p, Paneled(p), NEW n, NEW e \in EngineType, Agree(p, n, e)
  PROVE  LET from == IF p.held = None THEN p ELSE Finished(p)
         IN from.program = Ended(e).program /\ from.preview = Ended(e).preview
            /\ from.key = Ended(e).key
<1>1. CASE p.held = None
  BY <1>1 DEF Agree
<1>2. CASE p.held # None
  <2> DEFINE in == p.held.in
             q == Ends(p, in)
  <2>1. in \in Sources /\ Finished(p) = q
    BY <1>2, FinishedIs
  <2>2. /\ e.mix # None /\ e.mix.manual /\ e.mix.tie = IF p.heldTies THEN "now" ELSE "no"
        /\ e.program = p.held.out /\ p.program = p.held.out /\ e.mix.target = in
        /\ e.preview = p.preview /\ Back(e).key = p.key
        /\ IF e.mix.after = None THEN p.preview # in
           ELSE e.mix.after = p.held.out /\ p.preview = in
    BY <1>2 DEF Agree
  <2> HIDE DEF in
  <2>3. /\ q.program = in
        /\ q.preview = (IF p.preview = in /\ p.program # in THEN p.program ELSE p.preview)
        /\ q.key = (IF p.heldTies THEN ~p.key ELSE p.key)
    BY <2>1, EndsIs
  <2> HIDE DEF q
  <2>4. p.key \in BOOLEAN /\ p.heldTies \in BOOLEAN /\ e.key \in BOOLEAN
    BY PaneledIs DEF PanelType, EngineType
  <2>5. q.key = Ended(e).key
    BY <2>2, <2>3, <2>4, EndedIs
  <2>6. q.program = Ended(e).program /\ q.preview = Ended(e).preview
    BY <2>2, <2>3, EndedIs
  <2> QED BY <1>2, <2>1, <2>5, <2>6
<1> QED BY <1>1, <1>2


\* The engine's ME q, in which e takes `source' to Program.
Taking(q, e, source, after, ties) ==
  /\ q \in EngineType /\ q.next = e.next /\ (q.mix # None => ~q.mix.manual)
  /\ Ended(q).program = source
  /\ Ended(q).preview = IF after = None THEN Ended(e).preview ELSE after
  /\ Ended(q).key = IF ties /\ e.next.tied THEN ~Ended(e).key ELSE Ended(e).key

LEMMA TakesIs ==
  ASSUME NEW e \in EngineType, NEW source \in Sources, NEW after \in Sources \cup {None},
         NEW kind \in {"cut", "mix", "stinger"}, NEW ties \in BOOLEAN
  PROVE  Taking(Takes(e, source, after, kind, ties), e, source, after, ties)
<1> DEFINE f == Ended(e)
           tied == ties /\ f.next.tied
           q == Takes(e, source, after, kind, ties)
<1>1. f \in EngineType /\ f.mix = None /\ f.next = e.next /\ (tied <=> ties /\ e.next.tied)
  BY EndedIs
<1>2. /\ kind = "cut" => q = [f EXCEPT !.program = source,
                                       !.preview = IF after = None THEN @ ELSE after,
                                       !.key = IF tied THEN ~@ ELSE @]
      /\ kind # "cut" => q = Mixes(f, source, after, FALSE, Ties(kind, tied))
  BY DEF Takes
<1>3. tied \in BOOLEAN
  BY <1>1 DEF EngineType, EngineNext
<1> HIDE DEF f, tied, q
<1>4. f.key \in BOOLEAN
  BY <1>1 DEF EngineType
<1>5. CASE kind = "cut"
  <2>1. /\ q \in EngineType /\ q.next = f.next /\ q.mix = None
        /\ q.program = source /\ q.preview = (IF after = None THEN f.preview ELSE after)
        /\ q.key = IF tied THEN ~f.key ELSE f.key
    BY <1>1, <1>2, <1>5 DEF EngineType
  <2>2. Ended(q) = q
    BY <2>1, EndedIs
  <2> QED BY <1>1, <2>1, <2>2 DEF q, f, Taking
<1>6. CASE kind # "cut"
  <2> DEFINE tie == Ties(kind, tied)
             manual == FALSE
  <2>1. tie \in {"no", "now", "cut"} /\ (tied <=> tie # "no") /\ manual \in BOOLEAN
    BY <1>3, <1>6 DEF Ties
  <2>2. q = Mixes(f, source, after, manual, tie)
    BY <1>2, <1>6
  <2> HIDE DEF tie, manual
  <2>a. Mixing(q, f, source, after, manual, tie)
    BY <1>1, <2>1, <2>2, MixesType
  <2>3. /\ q \in EngineType /\ q.next = f.next /\ q.mix # None
        /\ q.program = f.program /\ q.preview = f.preview
        /\ q.key = (IF tie = "now" THEN ~f.key ELSE f.key)
    BY <2>a DEF Mixing
  <2>4. /\ q.mix.target = source /\ q.mix.after = after /\ ~q.mix.manual /\ q.mix.tie = tie
    BY <2>a DEF Mixing, manual
  <2>5. /\ Ended(q).program = source
        /\ Ended(q).preview = (IF after = None THEN q.preview ELSE after)
        /\ Ended(q).key = (IF tie = "cut" THEN ~q.key ELSE q.key)
    BY <2>3, <2>4, EndedIs
  <2>6. Ended(q).key = IF tied THEN ~f.key ELSE f.key
    BY <1>3, <1>4, <2>1, <2>3, <2>5
  <2> QED BY <1>1, <2>3, <2>4, <2>5, <2>6 DEF q, f, Taking
<1> QED BY <1>5, <1>6

\* The rest of a held transition, by itself.
LEMMA ReleasedIs ==
  ASSUME NEW e \in EngineType, e.mix # None
  PROVE  LET q == [e EXCEPT !.mix.manual = FALSE]
         IN /\ q \in EngineType /\ q.next = e.next /\ q.mix # None /\ ~q.mix.manual
            /\ Ended(q).program = Ended(e).program /\ Ended(q).preview = Ended(e).preview
            /\ Ended(q).key = Ended(e).key
<1> DEFINE q == [e EXCEPT !.mix.manual = FALSE]
           m == [e.mix EXCEPT !.manual = FALSE]
<1>1. e.mix \in MixType
  BY DEF EngineType
<1>2. m \in MixType /\ m.target = e.mix.target /\ m.after = e.mix.after /\ m.tie = e.mix.tie
      /\ ~m.manual /\ m # None
  BY <1>1, NoneApart DEF MixType
<1>3. q = [e EXCEPT !.mix = m]
  OBVIOUS
<1> HIDE DEF m
<1>4. /\ q \in EngineType /\ q.next = e.next /\ q.mix = m /\ q.program = e.program
      /\ q.preview = e.preview /\ q.key = e.key
  BY <1>2, <1>3 DEF EngineType
<1> HIDE DEF q
<1>5. /\ Ended(q).program = q.mix.target
      /\ Ended(q).preview = (IF q.mix.after = None THEN q.preview ELSE q.mix.after)
      /\ Ended(q).key = (IF q.mix.tie = "cut" THEN ~q.key ELSE q.key)
  BY <1>2, <1>4, EndedIs
<1>6. /\ Ended(e).program = e.mix.target
      /\ Ended(e).preview = (IF e.mix.after = None THEN e.preview ELSE e.mix.after)
      /\ Ended(e).key = (IF e.mix.tie = "cut" THEN ~e.key ELSE e.key)
  BY EndedIs
<1>7. Ended(q).program = Ended(e).program /\ Ended(q).preview = Ended(e).preview
      /\ Ended(q).key = Ended(e).key
  BY <1>2, <1>4, <1>5, <1>6
<1> QED BY <1>2, <1>4, <1>7 DEF q

LEMMA AutosType ==
  ASSUME NEW e \in EngineType
  PROVE  Autos(e) \in EngineType /\ Autos(e).next = e.next
<1>1. CASE e.mix # None
  BY <1>1, ReleasedIs DEF Autos
<1>2. CASE e.mix = None
  <2> DEFINE kind == IF e.next.type = "stinger" THEN "cut" ELSE e.next.type
             source == e.preview
             after == e.program
             ties == TRUE
  <2>1. Autos(e) = Takes(e, source, after, kind, ties)
    BY <1>2 DEF Autos
  <2>2. kind \in {"cut", "mix", "stinger"}
    BY PanelsAssumption DEF EngineType, EngineNext
  <2>3. source \in Sources /\ after \in Sources \cup {None} /\ ties \in BOOLEAN
    BY DEF EngineType
  <2> HIDE DEF kind, source, after, ties
  <2>4. Taking(Autos(e), e, source, after, ties)
    BY <2>1, <2>2, <2>3, TakesIs
  <2> QED BY <2>4 DEF Taking
<1> QED BY <1>1, <1>2

\* The engine's T-bar: what it starts is Program to Preview.
Starts(e) == Mixes(e, e.preview, e.program, TRUE, Ties("mix", e.next.tied))

LEMMA StartsIs ==
  ASSUME NEW e \in EngineType
  PROVE  LET q == Starts(e)
         IN /\ q \in EngineType /\ q.next = e.next /\ q.mix # None
            /\ q.program = e.program /\ q.preview = e.preview
            /\ q.key = IF e.next.tied THEN ~e.key ELSE e.key
            /\ q.mix.target = e.preview /\ q.mix.after = e.program /\ q.mix.manual
            /\ q.mix.tie = IF e.next.tied THEN "now" ELSE "no"
<1> DEFINE tie == Ties("mix", e.next.tied)
           target == e.preview
           after == e.program
           manual == TRUE
           q == Starts(e)
<1>1. /\ e.next.tied \in BOOLEAN /\ target \in Sources /\ after \in Sources \cup {None}
      /\ manual \in BOOLEAN
  BY DEF EngineType, EngineNext
<1>2. tie = (IF e.next.tied THEN "now" ELSE "no") /\ tie \in {"no", "now", "cut"}
  BY <1>1 DEF Ties
<1>3. q = Mixes(e, target, after, manual, tie)
  BY DEF Starts
<1> HIDE DEF tie, target, after, manual, q
<1>a. Mixing(q, e, target, after, manual, tie)
  BY <1>1, <1>2, <1>3, MixesType
<1>4. /\ q \in EngineType /\ q.next = e.next /\ q.mix # None
      /\ q.program = e.program /\ q.preview = e.preview
      /\ q.key = (IF tie = "now" THEN ~e.key ELSE e.key)
  BY <1>a DEF Mixing
<1>5. q.mix.target = target /\ q.mix.after = after /\ q.mix.manual /\ q.mix.tie = tie
  BY <1>a DEF Mixing, manual
<1> QED BY <1>1, <1>2, <1>4, <1>5 DEF q, target, after

LEMMA PositionedType ==
  ASSUME NEW e \in EngineType, NEW t \in At
  PROVE  Positioned(e, t) \in EngineType /\ Positioned(e, t).next = e.next
<1> DEFINE on == IF e.mix # None THEN e ELSE Starts(e)
<1>1. on \in EngineType /\ on.next = e.next
  BY StartsIs
<1>2. Positioned(e, t) = IF t = 0 THEN Back(e)
                         ELSE IF e.mix = None /\ e.next.type = "stinger" THEN Autos(e)
                         ELSE IF t = Full THEN Ended(on) ELSE on
  BY DEF Positioned, Starts
<1> HIDE DEF on
<1> QED BY <1>1, <1>2, EndedIs, AutosType

LEMMA PreviewedIs ==
  ASSUME NEW e \in EngineType, NEW s \in Sources
  PROVE  LET q == Previewed(e, s)
         IN /\ q \in EngineType /\ q.next = e.next /\ q.program = e.program /\ q.preview = s
            /\ q.key = e.key
            /\ IF e.mix = None THEN q.mix = None
               ELSE /\ q.mix # None /\ q.mix.target = e.mix.target /\ q.mix.after = None
                    /\ q.mix.manual = e.mix.manual /\ q.mix.tie = e.mix.tie
<1>1. CASE e.mix = None
  BY <1>1 DEF Previewed, EngineType
<1>2. CASE e.mix # None
  <2> DEFINE m == [e.mix EXCEPT !.after = None]
  <2>1. e.mix \in MixType
    BY <1>2 DEF EngineType
  <2>2. m \in MixType /\ m # None /\ m.target = e.mix.target /\ m.after = None
        /\ m.manual = e.mix.manual /\ m.tie = e.mix.tie
    BY <2>1, NoneApart DEF MixType
  <2>3. Previewed(e, s) = [e EXCEPT !.preview = s, !.mix = m]
    BY <1>2 DEF Previewed
  <2> HIDE DEF m
  <2> QED BY <1>2, <2>2, <2>3 DEF EngineType
<1> QED BY <1>1, <1>2

LEMMA KeyedIs ==
  ASSUME NEW e \in EngineType, NEW on \in BOOLEAN
  PROVE  LET q == Keyed(e, on)
         IN /\ q \in EngineType /\ q.next = e.next /\ q.program = e.program
            /\ q.preview = e.preview /\ q.key = on
            /\ IF e.mix = None THEN q.mix = None
               ELSE /\ q.mix # None /\ q.mix.target = e.mix.target /\ q.mix.after = e.mix.after
                    /\ q.mix.manual = e.mix.manual /\ q.mix.tie = "no"
<1>1. CASE e.mix = None
  BY <1>1 DEF Keyed, EngineType
<1>2. CASE e.mix # None
  <2> DEFINE m == [e.mix EXCEPT !.tie = "no"]
  <2>1. e.mix \in MixType
    BY <1>2 DEF EngineType
  <2>2. m \in MixType /\ m # None /\ m.target = e.mix.target /\ m.after = e.mix.after
        /\ m.manual = e.mix.manual /\ m.tie = "no"
    BY <2>1, NoneApart DEF MixType
  <2>3. Keyed(e, on) = [e EXCEPT !.key = on, !.mix = m]
    BY <1>2 DEF Keyed
  <2> HIDE DEF m
  <2> QED BY <1>2, <2>2, <2>3 DEF EngineType
<1> QED BY <1>1, <1>2

LEMMA DoesIs ==
  ASSUME NEW e, NEW k
  PROVE  /\ Refuses(e, k) => Does(e, k) = e
         /\ k.op = "take" => Does(e, k) = Takes(e, k.source, k.preview, k.kind, k.ties)
         /\ k.op = "preview" => Does(e, k) = Previewed(e, k.source)
         /\ k.op = "position" /\ ~Refuses(e, k) => Does(e, k) = Positioned(e, k.t)
         /\ k.op = "auto" /\ ~Refuses(e, k) => Does(e, k) = Autos(e)
         /\ k.op = "transition" => Does(e, k) = [e EXCEPT !.next = k.next]
         /\ k.op = "key" => Does(e, k) = Keyed(e, k.on)
         /\ k.op = "keyAuto" => Does(e, k) = Keyed(e, ~e.key)
<1> USE DEF Does, Refuses
<1>1. Refuses(e, k) => Does(e, k) = e
  OBVIOUS
<1>2. k.op = "take" => Does(e, k) = Takes(e, k.source, k.preview, k.kind, k.ties)
  OBVIOUS
<1>3. k.op = "preview" => Does(e, k) = Previewed(e, k.source)
  OBVIOUS
<1>4. k.op = "position" /\ ~Refuses(e, k) => Does(e, k) = Positioned(e, k.t)
  OBVIOUS
<1>5. k.op = "auto" /\ ~Refuses(e, k) => Does(e, k) = Autos(e)
  OBVIOUS
<1>6. k.op = "transition" => Does(e, k) = [e EXCEPT !.next = k.next]
  OBVIOUS
<1>7. k.op = "key" => Does(e, k) = Keyed(e, k.on)
  OBVIOUS
<1>8. k.op = "keyAuto" => Does(e, k) = Keyed(e, ~e.key)
  OBVIOUS
<1> QED BY <1>1, <1>2, <1>3, <1>4, <1>5, <1>6, <1>7, <1>8

LEMMA DoesType ==
  ASSUME NEW e \in EngineType, NEW k \in CommandType
  PROVE  Does(e, k) \in EngineType
<1>1. CASE Refuses(e, k)
  BY <1>1, DoesIs
<1>2. CASE ~Refuses(e, k)
  <2>1. CASE k.op = "take"
    <3> DEFINE source == k.source
               after == k.preview
               kind == k.kind
               ties == k.ties
    <3>1. /\ source \in Sources /\ after \in Sources \cup {None} /\ ties \in BOOLEAN
          /\ kind \in {"cut", "mix", "stinger"}
      BY <2>1 DEF CommandType
    <3>2. Does(e, k) = Takes(e, source, after, kind, ties)
      BY <2>1, DoesIs
    <3> HIDE DEF source, after, kind, ties
    <3>3. Taking(Does(e, k), e, source, after, ties)
      BY <3>1, <3>2, TakesIs
    <3> QED BY <3>3 DEF Taking
  <2>2. CASE k.op = "preview"
    <3>1. k.source \in Sources
      BY <2>2 DEF CommandType
    <3> QED BY <2>2, <3>1, DoesIs, PreviewedIs
  <2>3. CASE k.op = "position"
    <3>1. k.t \in At
      BY <2>3 DEF CommandType
    <3> QED BY <1>2, <2>3, <3>1, DoesIs, PositionedType
  <2>4. CASE k.op = "auto"
    BY <1>2, <2>4, DoesIs, AutosType
  <2>5. CASE k.op = "transition"
    <3>1. k.next \in EngineNext
      BY <2>5 DEF CommandType
    <3> QED BY <2>5, <3>1, DoesIs DEF EngineType
  <2>6. CASE k.op \in {"key", "keyAuto"}
    <3> DEFINE on == IF k.op = "key" THEN k.on ELSE ~e.key
    <3>1. on \in BOOLEAN
      BY <2>6 DEF CommandType, EngineType
    <3>2. Does(e, k) = Keyed(e, on)
      BY <2>6, DoesIs
    <3> HIDE DEF on
    <3> QED BY <3>1, <3>2, KeyedIs
  <2> QED BY <2>1, <2>2, <2>3, <2>4, <2>5, <2>6 DEF CommandType
<1> QED BY <1>1, <1>2


-----------------------------------------------------------------------------
(* What a call leaves when its command and its rest are done *)

LEMMA RestTies ==
  ASSUME NEW p, Paneled(p), NEW r \in RestType, r.do = "ties"
  PROVE  LET q == Rests(p, r)
         IN /\ q.program = p.program /\ q.preview = p.preview /\ q.heldTies = p.heldTies
            /\ q.mix = p.mix /\ q.held = p.held /\ q.key = IF r.tied THEN ~p.key ELSE p.key
<1> DEFINE tied == r.tied
           t == TakeTies(p, tied)
<1>1. tied \in BOOLEAN /\ r.flips \in BOOLEAN
  BY DEF RestType
<1>2. Rests(p, r) = IF r.flips THEN Flip(t) ELSE t
  BY DEF Rests
<1> HIDE DEF tied
<1>3. /\ Paneled(t) /\ t.program = p.program /\ t.preview = p.preview /\ t.heldTies = p.heldTies
      /\ t.mix = p.mix /\ t.held = p.held /\ t.key = (IF tied THEN ~p.key ELSE p.key)
  BY <1>1, TakeTiesIs
<1> HIDE DEF t
<1>4. /\ Flip(t).program = t.program /\ Flip(t).preview = t.preview /\ Flip(t).key = t.key
      /\ Flip(t).heldTies = t.heldTies /\ Flip(t).mix = t.mix /\ Flip(t).held = t.held
  BY <1>3, FlipIs
<1> QED BY <1>2, <1>3, <1>4 DEF tied

LEMMA ToldTake ==
  ASSUME NEW p, Paneled(p), NEW n \in NextType, NEW e \in EngineType, NEW k \in CommandType,
         NEW r \in RestType, PendingTake(k, r, p, n, e)
  PROVE  Agree(Rests(p, r), n, Does(e, k))
<1> DEFINE source == k.source
           after == k.preview
           kind == k.kind
           ties == k.ties
           q == Does(e, k)
           s == Rests(p, r)
<1>1. k.op = "take"
  BY DEF PendingTake
<1>2. /\ source \in Sources /\ after \in Sources \cup {None} /\ ties \in BOOLEAN
      /\ kind \in {"cut", "mix", "stinger"}
  BY <1>1 DEF CommandType
<1>3. q = Takes(e, source, after, kind, ties)
  BY <1>1, DoesIs
<1>4. /\ r.do = "ties" /\ p.held = None /\ e.next = [type |-> n.type, tied |-> n.tied]
      /\ p.program = source /\ p.key = Ended(e).key
      /\ p.preview = (IF after = None THEN Ended(e).preview ELSE after)
      /\ r.tied = ties /\ (ties => n.tied)
  BY DEF PendingTake
<1>5. s.program = p.program /\ s.preview = p.preview /\ s.held = p.held
      /\ s.key = IF r.tied THEN ~p.key ELSE p.key
  BY <1>4, RestTies
<1> HIDE DEF source, after, kind, ties, q, s
<1>6. Taking(q, e, source, after, ties)
  BY <1>2, <1>3, TakesIs
<1>7. e.next.tied = n.tied
  BY <1>4
<1>8. q.next = [type |-> n.type, tied |-> n.tied] /\ (q.mix # None => ~q.mix.manual)
  BY <1>4, <1>6 DEF Taking
<1>9. Ended(q).program = s.program /\ Ended(q).preview = s.preview
  BY <1>4, <1>5, <1>6 DEF Taking
<1>10. Ended(q).key = s.key
  BY <1>4, <1>5, <1>6, <1>7 DEF Taking
<1> QED BY <1>4, <1>5, <1>8, <1>9, <1>10 DEF Agree, q, s

LEMMA ToldPreview ==
  ASSUME NEW p, Paneled(p), NEW n \in NextType, NEW e \in EngineType, NEW k \in CommandType,
         NEW r \in RestType, PendingPreview(k, r, p, n, e), Parts(e, k) = {}
  PROVE  Agree(Rests(p, r), n, Does(e, k))
<1> DEFINE source == k.source
           q == Does(e, k)
<1>1. k.op = "preview" /\ r.do = "none" /\ p.preview = source
  BY DEF PendingPreview
<1>2. source \in Sources
  BY <1>1 DEF CommandType
<1>3. Rests(p, r) = p /\ q = Previewed(e, source)
  BY <1>1, DoesIs DEF Rests
<1>4. PICK s \in Sources : Agree(WithPreview(p, s), n, e)
  BY DEF PendingPreview
<1> DEFINE o == WithPreview(p, s)
<1>5. /\ o.program = p.program /\ o.preview = s /\ o.key = p.key /\ o.heldTies = p.heldTies
      /\ o.mix = p.mix /\ o.held = p.held
  BY PaneledIs DEF WithPreview, PanelType
<1>6. ~(e.mix # None /\ e.mix.manual /\ source = e.mix.target)
  BY <1>1 DEF Parts
<1> HIDE DEF source, q, o
<1>7. /\ q \in EngineType /\ q.next = e.next /\ q.program = e.program /\ q.preview = source
      /\ q.key = e.key
      /\ IF e.mix = None THEN q.mix = None
         ELSE /\ q.mix # None /\ q.mix.target = e.mix.target /\ q.mix.after = None
              /\ q.mix.manual = e.mix.manual /\ q.mix.tie = e.mix.tie
  BY <1>2, <1>3, PreviewedIs
<1>8. Agree(o, n, e)
  BY <1>4 DEF o
<1>9. q.next = [type |-> n.type, tied |-> n.tied]
  BY <1>7, <1>8 DEF Agree
<1>10. CASE p.held = None
  <2>1. /\ e.mix # None => ~e.mix.manual
        /\ Ended(e).program = p.program /\ Ended(e).key = p.key
    BY <1>5, <1>8, <1>10 DEF Agree
  <2>2. Ended(q).program = Ended(e).program /\ Ended(q).key = Ended(e).key
        /\ Ended(q).preview = source
    BY <1>7, EndedIs
  <2> QED BY <1>1, <1>3, <1>7, <1>9, <1>10, <2>1, <2>2 DEF Agree, q
<1>11. CASE p.held # None
  <2>1. /\ e.mix # None /\ e.mix.manual /\ e.mix.tie = IF p.heldTies THEN "now" ELSE "no"
        /\ e.program = p.held.out /\ p.program = p.held.out /\ e.mix.target = p.held.in
        /\ Back(e).key = p.key /\ p.held.in \in Red(o)
    BY <1>5, <1>8, <1>11 DEF Agree
  <2>2. Back(q).key = Back(e).key
    BY <1>7, <2>1, EndedIs
  <2>3. Red(o) = Red(p)
    BY <1>5 DEF Red
  <2> QED BY <1>1, <1>3, <1>6, <1>7, <1>9, <1>11, <2>1, <2>2, <2>3 DEF Agree, q
<1> QED BY <1>10, <1>11

\* A keyer's own command, where it is not tied to what runs.
LEMMA KeyedAgrees ==
  ASSUME NEW p, Paneled(p), NEW o, NEW n, NEW e \in EngineType, NEW on \in BOOLEAN,
         e.mix # None => e.mix.tie = "no",
         o.program = p.program /\ o.preview = p.preview /\ o.heldTies = p.heldTies
         /\ o.mix = p.mix /\ o.held = p.held /\ p.key = on,
         Agree(o, n, e)
  PROVE  Agree(p, n, Keyed(e, on))
<1> DEFINE q == Keyed(e, on)
<1>1. /\ q \in EngineType /\ q.next = e.next /\ q.program = e.program
      /\ q.preview = e.preview /\ q.key = on
      /\ IF e.mix = None THEN q.mix = None
         ELSE /\ q.mix # None /\ q.mix.target = e.mix.target /\ q.mix.after = e.mix.after
              /\ q.mix.manual = e.mix.manual /\ q.mix.tie = "no"
  BY KeyedIs
<1> HIDE DEF q
<1>2. q.next = [type |-> n.type, tied |-> n.tied]
  BY <1>1 DEF Agree
<1>3. CASE p.held = None
  <2>1. /\ e.mix # None => ~e.mix.manual
        /\ Ended(e).program = p.program /\ Ended(e).preview = p.preview
    BY <1>3 DEF Agree
  <2>2. Ended(q).program = Ended(e).program /\ Ended(q).preview = Ended(e).preview
    BY <1>1, EndedIs
  <2>3. Ended(q).key = on
    BY <1>1, EndedIs
  <2> QED BY <1>1, <1>2, <1>3, <2>1, <2>2, <2>3 DEF Agree, q
<1>4. CASE p.held # None
  <2>1. /\ e.mix # None /\ e.mix.manual /\ e.mix.tie = IF p.heldTies THEN "now" ELSE "no"
        /\ e.program = p.held.out /\ p.program = p.held.out /\ e.mix.target = p.held.in
        /\ e.preview = p.preview
        /\ IF e.mix.after = None THEN p.preview # p.held.in
           ELSE e.mix.after = p.held.out /\ p.preview = p.held.in
        /\ p.held.in \in Red(o)
    BY <1>4 DEF Agree
  <2>2. Back(q).key = on
    BY <1>1, <2>1, EndedIs
  <2>3. Red(o) = Red(p)
    BY DEF Red
  <2> QED BY <1>1, <1>2, <1>4, <2>1, <2>2, <2>3 DEF Agree, q
<1> QED BY <1>3, <1>4

LEMMA ToldKey ==
  ASSUME NEW p, Paneled(p), NEW n \in NextType, NEW e \in EngineType, NEW k \in CommandType,
         NEW r \in RestType, Parts(e, k) = {},
         PendingKey(k, r, p, n, e) \/ PendingKeyAuto(k, r, p, n, e)
  PROVE  Agree(Rests(p, r), n, Does(e, k))
<1> DEFINE on == p.key
<1>1. on \in BOOLEAN
  BY PaneledIs DEF PanelType
<1>2. PICK was \in BOOLEAN : /\ Agree(WithKey(p, was), n, e)
                             /\ k.op = "keyAuto" => was # on /\ p.held = None
  BY DEF PendingKey, PendingKeyAuto
<1> DEFINE o == WithKey(p, was)
<1>3. /\ o.program = p.program /\ o.preview = p.preview /\ o.key = was
      /\ o.heldTies = p.heldTies /\ o.mix = p.mix /\ o.held = p.held
  BY PaneledIs DEF WithKey, PanelType
<1>4. k.op \in {"key", "keyAuto"} /\ (e.mix # None => e.mix.tie = "no")
  BY DEF PendingKey, PendingKeyAuto, Parts
<1>5. Agree(o, n, e)
  BY <1>2
<1> HIDE DEF o
<1>6. Does(e, k) = Keyed(e, on)
  <2>1. CASE k.op = "key"
    BY <2>1, DoesIs DEF PendingKey, PendingKeyAuto
  <2>2. CASE k.op = "keyAuto"
    <3>1. e.key = was
      BY <1>2, <1>3, <1>4, <1>5, <2>2, EndedIs DEF Agree
    <3> DEFINE off == ~e.key
    <3>2. Does(e, k) = Keyed(e, off)
      BY <2>2, DoesIs
    <3>3. off = on
      BY <1>1, <1>2, <2>2, <3>1
    <3> HIDE DEF off
    <3> QED BY <3>2, <3>3
  <2> QED BY <1>4, <2>1, <2>2
<1> HIDE DEF on
<1>7. Agree(p, n, Keyed(e, on))
  BY <1>1, <1>3, <1>4, <1>5, KeyedAgrees DEF on
<1>8. SameBuses(Rests(p, r), p)
  <2>1. CASE r.do = "none"
    BY <2>1 DEF Rests, SameBuses
  <2>2. CASE r.do = "ties" /\ ~r.tied
    BY <2>2, RestTies DEF SameBuses
  <2> QED BY <2>1, <2>2 DEF PendingKey, PendingKeyAuto
<1> QED BY <1>6, <1>7, <1>8, AgreeSame

LEMMA ToldTransition ==
  ASSUME NEW p, Paneled(p), NEW n \in NextType, NEW e \in EngineType, NEW k \in CommandType,
         NEW r \in RestType, PendingTransition(k, r, p, n, e)
  PROVE  Agree(Rests(p, r), n, Does(e, k))
<1> DEFINE q == Does(e, k)
<1>1. /\ k.op = "transition" /\ r.do = "none" /\ k.next = [type |-> n.type, tied |-> n.tied]
      /\ Agree(p, [type |-> e.next.type, tied |-> e.next.tied], e)
  BY DEF PendingTransition
<1>2. Rests(p, r) = p /\ q = [e EXCEPT !.next = k.next]
  BY <1>1, DoesIs DEF Rests
<1>3. k.next \in EngineNext
  BY <1>1 DEF EngineNext, NextType
<1>4. /\ q \in EngineType /\ q.next = k.next /\ q.program = e.program /\ q.preview = e.preview
      /\ q.key = e.key /\ q.mix = e.mix
  BY <1>2, <1>3 DEF EngineType
<1> HIDE DEF q
<1>5. Ended(q).program = Ended(e).program /\ Ended(q).preview = Ended(e).preview
      /\ Ended(q).key = Ended(e).key /\ Back(q).key = Back(e).key
  BY <1>4, EndedIs
<1> QED BY <1>1, <1>2, <1>4, <1>5 DEF Agree, q


\* An Auto from a T-bar that holds a transition.
LEMMA ToldAuto ==
  ASSUME NEW p, Paneled(p), NEW n \in NextType, NEW e \in EngineType, NEW k \in CommandType,
         NEW r \in RestType, PendingAuto(k, r, p, n, e)
  PROVE  Agree(Rests(p, r), n, Does(e, k))
<1> DEFINE in == r.in
           q == Does(e, k)
           s == Rests(p, r)
<1>1. k.op = "auto" /\ r.do = "rest" /\ p.held = None
  BY DEF PendingAuto
<1>2. in \in Sources
  BY <1>1 DEF RestType
<1>3. PICK bar \in Bar(At \ {0, Full}) : bar.in = in /\ Agree(WithHeld(p, bar), n, e)
  BY DEF PendingAuto
<1> DEFINE o == WithHeld(p, bar)
<1>4. /\ o.program = p.program /\ o.preview = p.preview /\ o.key = p.key
      /\ o.heldTies = p.heldTies /\ o.held = bar
  BY PaneledIs DEF WithHeld, PanelType
<1>5. bar # None
  BY <1>3, NoneApart DEF Bar
<1> HIDE DEF o
<1>6. Agree(o, n, e)
  BY <1>3 DEF o
<1>7. /\ e.next = [type |-> n.type, tied |-> n.tied]
      /\ e.mix # None /\ e.mix.manual /\ e.mix.tie = (IF p.heldTies THEN "now" ELSE "no")
      /\ e.program = bar.out /\ p.program = bar.out /\ e.mix.target = in
      /\ e.preview = p.preview /\ Back(e).key = p.key
      /\ IF e.mix.after = None THEN p.preview # in ELSE e.mix.after = bar.out /\ p.preview = in
  BY <1>3, <1>4, <1>5, <1>6 DEF Agree
<1>8. q = [e EXCEPT !.mix.manual = FALSE]
  <2>1. ~Refuses(e, k)
    BY <1>7 DEF Refuses
  <2> QED BY <1>1, <1>7, <2>1, DoesIs DEF Autos
<1> HIDE DEF q
<1>9. /\ q \in EngineType /\ q.next = e.next /\ q.mix # None /\ ~q.mix.manual
      /\ Ended(q).program = Ended(e).program /\ Ended(q).preview = Ended(e).preview
      /\ Ended(q).key = Ended(e).key
  BY <1>7, <1>8, ReleasedIs
<1> DEFINE h == EndHeldTies(p)
           swap == p.preview = in
           u == Put(h, in, swap)
<1>10. /\ Paneled(h) /\ h.key = (IF p.heldTies THEN ~p.key ELSE p.key)
       /\ h.program = p.program /\ h.preview = p.preview /\ h.held = p.held
  BY EndHeldTiesIs
<1>11. swap \in BOOLEAN
  OBVIOUS
<1>12. s = Flip(u)
  BY <1>1 DEF Rests
<1> HIDE DEF in, h, swap, s
<1>13. /\ Paneled(u) /\ u.held = None /\ u.program = in
       /\ u.preview = (IF swap /\ h.program # in THEN h.program ELSE h.preview)
       /\ u.key = h.key
  <2> DEFINE from == IF h.held = None THEN h ELSE Finished(h)
  <2>1. from = h
    BY <1>1, <1>10
  <2>2. /\ Paneled(u) /\ u.held = None /\ u.program = in
        /\ u.preview = (IF swap /\ from.program # in THEN from.program ELSE from.preview)
        /\ u.key = from.key
    BY <1>2, <1>10, <1>11, PutIs
  <2> HIDE DEF from, u
  <2> QED BY <2>1, <2>2
<1> HIDE DEF u
<1>14. s.program = u.program /\ s.preview = u.preview /\ s.key = u.key /\ s.held = u.held
  BY <1>12, <1>13, FlipIs
<1>15. p.key \in BOOLEAN /\ p.heldTies \in BOOLEAN /\ e.key \in BOOLEAN
  BY PaneledIs DEF PanelType, EngineType
<1>16. Ended(q).program = s.program
  BY <1>7, <1>9, <1>13, <1>14, EndedIs
<1>17. Ended(q).preview = s.preview
  BY <1>7, <1>9, <1>10, <1>13, <1>14, EndedIs DEF swap
<1>18. Ended(q).key = s.key
  <2>1. s.key = IF p.heldTies THEN ~p.key ELSE p.key
    BY <1>10, <1>13, <1>14
  <2>2. Ended(e).key = e.key /\ p.key = IF p.heldTies THEN ~e.key ELSE e.key
    BY <1>7, EndedIs
  <2> QED BY <1>9, <1>15, <2>1, <2>2
<1>19. s.held = None
  BY <1>13, <1>14
<1> QED BY <1>7, <1>9, <1>16, <1>17, <1>18, <1>19 DEF Agree, q, s

\* A move of the T-bar: off its 0 it starts the transition, at its end it completes it.
LEMMA ToldPosition ==
  ASSUME NEW p, Paneled(p), NEW n \in NextType, NEW e \in EngineType, NEW k \in CommandType,
         NEW r \in RestType, PendingPosition(k, r, p, n, e), Parts(e, k) = {}
  PROVE  Agree(Rests(p, r), n, Does(e, k))
<1> DEFINE bar == r.held
           in == bar.in
           t == k.t
           q == Does(e, k)
           s == Rests(p, r)
<1>1. /\ k.op = "position" /\ r.do = "bar" /\ bar.at = t /\ Agree(p, n, e)
      /\ p.held = None => /\ p.heldTies = n.tied /\ p.mix = {p.program, p.preview} /\ t > 0
                          /\ n.type # "stinger"
      /\ bar.out = (IF p.held = None THEN p.program ELSE p.held.out)
      /\ in = (IF p.held = None THEN p.preview ELSE p.held.in)
  BY DEF PendingPosition
<1>2. bar \in Bar(At) /\ in \in Sources /\ t \in At /\ Full # 0
  <2>1. bar \in Bar(At)
    BY <1>1 DEF RestType
  <2> QED BY <1>1, <2>1, PanelsAssumption DEF Bar
<1>3. ~Refuses(e, k)
  BY DEF Parts
<1>4. q = Positioned(e, t)
  BY <1>1, <1>3, DoesIs
<1>5. s = AtBar(p, bar)
  BY <1>1 DEF Rests
<1>6. e.mix # None => e.mix.manual
  BY <1>1, <1>3 DEF Refuses
<1>7. /\ p.held = None => e.mix = None
      /\ e.next = [type |-> n.type, tied |-> n.tied]
  BY <1>1, <1>6 DEF Agree
<1> DEFINE on == IF e.mix # None THEN e ELSE Starts(e)
<1>8. on \in EngineType /\ on.next = e.next
  BY StartsIs
<1>9. /\ t = 0 => q = Back(e)
      /\ t = Full => q = Ended(on)
      /\ t \notin {0, Full} => q = on
  <2>1. Positioned(e, t) = IF t = 0 THEN Back(e)
                           ELSE IF e.mix = None /\ e.next.type = "stinger" THEN Autos(e)
                           ELSE IF t = Full THEN Ended(on) ELSE on
    BY DEF Positioned, Starts
  <2>2. ~(t # 0 /\ e.mix = None /\ e.next.type = "stinger")
    BY <1>1, <1>7 DEF Agree
  <2> HIDE DEF on, t
  <2> QED BY <1>2, <1>4, <2>1, <2>2
\* With the T-bar off 0 the panel and the engine mix the same.
<1>10. t # 0 => /\ on.mix # None /\ on.mix.manual
                /\ on.mix.tie = (IF p.heldTies THEN "now" ELSE "no")
                /\ on.program = bar.out /\ p.program = bar.out /\ on.mix.target = in
                /\ on.preview = p.preview /\ Back(on).key = p.key
                /\ IF on.mix.after = None THEN p.preview # in
                   ELSE on.mix.after = bar.out /\ p.preview = in
                /\ in \in Red(p)
  <2>1. CASE p.held = None
    <3>1. /\ e.mix = None /\ e.program = p.program /\ e.preview = p.preview /\ e.key = p.key
          /\ e.next.tied = p.heldTies
      BY <1>1, <1>7, <2>1, EndedIs DEF Agree
    <3>2. on = Starts(e)
      BY <3>1
    <3> HIDE DEF on
    <3>3. /\ on.mix # None /\ on.program = e.program /\ on.preview = e.preview
          /\ on.key = (IF e.next.tied THEN ~e.key ELSE e.key)
          /\ on.mix.target = e.preview /\ on.mix.after = e.program /\ on.mix.manual
          /\ on.mix.tie = (IF e.next.tied THEN "now" ELSE "no")
      BY <3>2, StartsIs
    <3>4. Back(on).key = IF on.mix.tie = "now" THEN ~on.key ELSE on.key
      BY <1>8, <3>3, EndedIs
    <3>5. e.key \in BOOLEAN /\ e.next.tied \in BOOLEAN
      BY DEF EngineType, EngineNext
    <3>6. Back(on).key = p.key
      BY <3>1, <3>3, <3>4, <3>5
    <3>7. in \in Red(p)
      BY <1>1, <2>1 DEF Red
    <3>8. p.program # None
      BY PaneledIs, PanelsAssumption DEF PanelType
    <3> QED BY <1>1, <2>1, <3>1, <3>3, <3>6, <3>7, <3>8
  <2>2. CASE p.held # None
    <3>1. /\ e.mix # None /\ e.mix.manual /\ e.mix.tie = (IF p.heldTies THEN "now" ELSE "no")
          /\ e.program = p.held.out /\ p.program = p.held.out /\ e.mix.target = p.held.in
          /\ e.preview = p.preview /\ Back(e).key = p.key
          /\ IF e.mix.after = None THEN p.preview # p.held.in
             ELSE e.mix.after = p.held.out /\ p.preview = p.held.in
          /\ p.held.in \in Red(p)
      BY <1>1, <2>2 DEF Agree
    <3>2. on = e
      BY <3>1
    <3> HIDE DEF on
    <3> QED BY <1>1, <2>2, <3>1, <3>2
  <2> QED BY <2>1, <2>2
<1> HIDE DEF on, q, s, t, in, bar
<1>11. CASE t = 0
  <2>1. p.held # None
    BY <1>1, <1>11
  <2>2. e.mix # None /\ e.program = p.program /\ e.preview = p.preview /\ Back(e).key = p.key
    BY <1>1, <2>1 DEF Agree
  <2>3. s.program = p.program /\ s.preview = p.preview /\ s.key = p.key /\ s.held = None
    <3>1. s = [p EXCEPT !.held = None, !.mix = {}, !.heldTies = FALSE]
      BY <1>1, <1>2, <1>5, <1>11 DEF AtBar
    <3> QED BY <3>1, PaneledIs DEF PanelType
  <2>4. q = Back(e)
    BY <1>9, <1>11
  <2>5. q \in EngineType /\ q.mix = None /\ q.next = e.next /\ q.program = e.program
        /\ q.preview = e.preview
    BY <2>4, EndedIs
  <2>6. Ended(q) = q
    BY <2>5, EndedIs
  <2> QED BY <1>7, <2>2, <2>3, <2>4, <2>5, <2>6 DEF Agree, q, s
<1>12. CASE t = Full
  <2>1. s = Ends(p, in)
    <3>1. s = Finished(WithHeld(p, bar))
      BY <1>1, <1>2, <1>5, <1>12 DEF AtBar, WithHeld
    <3>2. WithHeld(p, bar).held = bar
      BY PaneledIs DEF PanelType, WithHeld
    <3>3. [WithHeld(p, bar) EXCEPT !.held = None] = [p EXCEPT !.held = None]
      BY HeldTwice DEF WithHeld
    <3> QED BY <3>1, <3>2, <3>3 DEF Finished, Ends, in
  <2>2. /\ Ends(p, in).program = in /\ Ends(p, in).held = None
        /\ Ends(p, in).preview = (IF p.preview = in /\ p.program # in THEN p.program ELSE p.preview)
        /\ Ends(p, in).key = (IF p.heldTies THEN ~p.key ELSE p.key)
    BY <1>2, EndsIs
  <2>3. q = Ended(on)
    BY <1>2, <1>9, <1>12
  <2>4. q \in EngineType /\ q.mix = None /\ q.next = e.next
    BY <1>8, <2>3, EndedIs
  <2>5. Ended(q) = q
    BY <2>4, EndedIs
  <2>6. /\ on.mix # None /\ on.mix.tie = (IF p.heldTies THEN "now" ELSE "no")
        /\ p.program = bar.out /\ on.mix.target = in
        /\ on.preview = p.preview /\ Back(on).key = p.key
        /\ IF on.mix.after = None THEN p.preview # in
           ELSE on.mix.after = bar.out /\ p.preview = in
    BY <1>2, <1>10, <1>12
  <2>7. q.program = in /\ q.preview = IF on.mix.after = None THEN on.preview ELSE on.mix.after
    BY <1>8, <2>3, <2>6, EndedIs
  <2>8. q.preview = Ends(p, in).preview
    BY <2>2, <2>6, <2>7
  <2>9. q.key = Ends(p, in).key
    <3>1. q.key = on.key /\ p.key = IF p.heldTies THEN ~on.key ELSE on.key
      BY <1>8, <2>3, <2>6, EndedIs
    <3>2. on.key \in BOOLEAN
      BY <1>8 DEF EngineType
    <3> QED BY <2>2, <3>1, <3>2
  <2> QED BY <1>7, <2>1, <2>2, <2>4, <2>5, <2>7, <2>8, <2>9 DEF Agree, q, s
<1>13. CASE t \notin {0, Full}
  <2>1. s = [p EXCEPT !.held = bar]
    BY <1>1, <1>5, <1>13 DEF AtBar
  <2>2. /\ s.program = p.program /\ s.preview = p.preview /\ s.key = p.key
        /\ s.heldTies = p.heldTies /\ s.mix = p.mix /\ s.held = bar
    BY <2>1, PaneledIs DEF PanelType
  <2>3. bar # None
    BY <1>2, NoneApart
  <2>4. q = on /\ bar.in = in
    BY <1>9, <1>13 DEF in
  <2>5. Red(s) = Red(p)
    BY <2>2 DEF Red
  <2> QED BY <1>7, <1>8, <1>10, <1>13, <2>2, <2>3, <2>4, <2>5 DEF Agree, q, s
<1> QED BY <1>11, <1>12, <1>13

LEMMA ToldIs ==
  ASSUME NEW p, Paneled(p), NEW n \in NextType, NEW e \in EngineType, NEW k \in CommandType,
         NEW r \in RestType, Pending(k, r, p, n, e), Parts(e, k) = {}
  PROVE  Agree(Rests(p, r), n, Does(e, k))
BY ToldTake, ToldPreview, ToldKey, ToldTransition, ToldAuto, ToldPosition DEF Pending


-----------------------------------------------------------------------------
(* The first step of a call *)

\* A call begins on the panel p, its levers as the call found them.
Begun(c, p, lever) ==
  \E q, k, r :
    /\ Begins(c, q, k, r, lever)
    /\ Paneled(q) /\ k \in CommandType /\ r \in RestType
    /\ SameLevers(q, p) \/ (Unpicked(q) /\ q.held = None)
    /\ q.held # None => ~Flips(r)
    /\ lever # None => q.end = p.end
    /\ \A e \in EngineType : Agree(p, next, e) => Pending(k, r, q, next', e)

LEMMA PutsBegun ==
  ASSUME NEW c, NEW p, Paneled(p), NEW source \in Sources, NEW swap \in BOOLEAN,
         NEW kind \in {"cut", "mix", "stinger"}, NEW ties \in BOOLEAN, NEW flips \in BOOLEAN,
         NEW lever, lever # None => p.held = None, next \in NextType, next' = next,
         Puts(c, p, source, swap, kind, ties, flips, lever)
  PROVE  Begun(c, p, lever)
<1> DEFINE from == IF p.held = None THEN p ELSE Finished(p)
           tied == ties /\ next.tied
           after == IF swap /\ from.program # source THEN from.program ELSE None
           q == Put(p, source, swap)
           k == [op |-> "take", source |-> source, kind |-> kind, ties |-> tied, preview |-> after]
           r == [do |-> "ties", tied |-> tied, flips |-> flips]
<1>1. Begins(c, q, k, r, lever)
  BY DEF Puts
<1>2. tied \in BOOLEAN /\ (tied => next.tied)
  BY DEF NextType
<1>3. /\ Paneled(from) /\ Paneled(q) /\ q.held = None /\ q.program = source
      /\ q.preview = (IF swap /\ from.program # source THEN from.program ELSE from.preview)
      /\ q.key = from.key
      /\ IF p.held = None THEN SameLevers(q, p)
         ELSE Unpicked(q) /\ q.end = Other(p.end) /\ q.driver = p.driver
  BY PutIs
<1>4. from.program \in Sources
  BY <1>3, PaneledIs DEF PanelType
<1>5. \A e \in EngineType : Agree(p, next, e) =>
        from.program = Ended(e).program /\ from.preview = Ended(e).preview /\ from.key = Ended(e).key
  BY AgreeEnded
<1> HIDE DEF from, tied, q
<1>6. after \in Sources \cup {None}
  BY <1>4
<1>7. q.preview = IF after = None THEN from.preview ELSE after
  BY <1>3, <1>4, PanelsAssumption
<1> HIDE DEF after
<1>8. k \in CommandType /\ r \in RestType
  BY <1>2, <1>6 DEF CommandType, RestType
<1>9. /\ k.op = "take" /\ k.source = source /\ k.ties = tied /\ k.preview = after
      /\ r.do = "ties" /\ r.tied = tied
  OBVIOUS
<1> HIDE DEF k, r
<1>10. ASSUME NEW e \in EngineType, Agree(p, next, e)
       PROVE  Pending(k, r, q, next', e)
  <2>1. from.preview = Ended(e).preview /\ from.key = Ended(e).key
    BY <1>5, <1>10
  <2>2. e.next = [type |-> next.type, tied |-> next.tied]
    BY <1>10 DEF Agree
  <2>3. PendingTake(k, r, q, next, e)
    BY <1>2, <1>3, <1>7, <1>9, <2>1, <2>2 DEF PendingTake
  <2> QED BY <2>3 DEF Pending
<1>11. SameLevers(q, p) \/ (Unpicked(q) /\ q.held = None)
  BY <1>3
<1>12. lever # None => q.end = p.end
  BY <1>3 DEF SameLevers
<1> QED BY <1>1, <1>3, <1>8, <1>10, <1>11, <1>12 DEF Begun

LEMMA KeysBegun ==
  ASSUME NEW c, NEW p, Paneled(p), NEW auto \in BOOLEAN, auto => p.held = None, NEW lever,
         next' = next, KeysOnly(c, p, auto, lever)
  PROVE  Begun(c, p, lever)
<1> DEFINE on == ~p.key
           q == WithKey(p, on)
           k == IF auto THEN [op |-> "keyAuto"] ELSE [op |-> "key", on |-> on]
           no == FALSE
           r == [do |-> "ties", tied |-> no, flips |-> auto]
<1>1. Begins(c, q, k, r, lever)
  BY DEF KeysOnly, WithKey
<1>2. p.key \in BOOLEAN /\ on \in BOOLEAN /\ on # p.key /\ no \in BOOLEAN /\ ~no
  BY PaneledIs DEF PanelType
<1> HIDE DEF on, no
<1>3. /\ q \in PanelType /\ q.program = p.program /\ q.preview = p.preview /\ q.key = on
      /\ q.heldTies = p.heldTies /\ q.mix = p.mix /\ q.held = p.held /\ SameLevers(q, p)
  BY <1>2, PaneledIs DEF WithKey, PanelType, SameLevers
<1>4. Paneled(q)
  BY <1>3, PaneledIs DEF SameLevers
<1>5. k \in CommandType
  BY <1>2 DEF CommandType
<1>6. r \in RestType /\ r.do = "ties" /\ ~r.tied /\ r.flips = auto
  BY <1>2 DEF RestType
<1>7. IF auto THEN k.op = "keyAuto" ELSE k.op = "key" /\ k.on = on
  OBVIOUS
<1> DEFINE w == WithKey(q, p.key)
<1>8. SameBuses(w, p)
  BY <1>3 DEF WithKey, PanelType, SameBuses
<1>9. ASSUME NEW e \in EngineType, Agree(p, next, e)
      PROVE  Pending(k, r, q, next', e)
  <2> HIDE DEF q, k, r, w
  <2>1. Agree(w, next, e)
    BY <1>8, <1>9, AgreeSame
  <2>2. CASE auto
    BY <1>2, <1>3, <1>6, <1>7, <2>1, <2>2 DEF Pending, PendingKeyAuto, w
  <2>3. CASE ~auto
    BY <1>2, <1>3, <1>6, <1>7, <2>1, <2>3 DEF Pending, PendingKey, w
  <2> QED BY <2>2, <2>3
<1> HIDE DEF q, k, r
<1>10. q.held # None => ~Flips(r)
  BY <1>3, <1>6 DEF Flips
<1> QED BY <1>1, <1>3, <1>4, <1>5, <1>6, <1>9, <1>10 DEF Begun, SameLevers

LEMMA AutoBegun ==
  ASSUME NEW c, NEW p, Paneled(p), NEW lever, lever # None => p.held = None,
         next \in NextType, next' = next, AutoOf(c, p, lever)
  PROVE  Begun(c, p, lever)
<1>1. CASE p.held # None
  <2> DEFINE q == [p EXCEPT !.held = None]
             k == [op |-> "auto"]
             in == p.held.in
             r == [do |-> "rest", in |-> in]
             bar == p.held
             w == WithHeld(q, bar)
  <2>1. Begins(c, q, k, r, lever)
    BY <1>1 DEF AutoOf
  <2>2. /\ q \in PanelType /\ q.picked = p.picked /\ q.held = None /\ SameLevers(q, p)
        /\ q.program = p.program /\ q.preview = p.preview /\ q.key = p.key
        /\ q.heldTies = p.heldTies /\ q.mix = p.mix
    BY PaneledIs DEF PanelType, SameLevers
  <2>3. Paneled(q)
    BY <2>2, PaneledIs
  <2>4. bar \in Bar(At \ {0, Full})
    BY <1>1, PaneledIs DEF PanelType
  <2>5. in \in Sources /\ bar.in = in
    BY <2>4 DEF Bar
  <2> HIDE DEF in, bar
  <2>6. k \in CommandType /\ k.op = "auto" /\ r \in RestType /\ r.do = "rest" /\ r.in = in
    BY <2>5 DEF CommandType, RestType
  <2>7. SameBuses(w, p)
    BY <2>2 DEF WithHeld, PanelType, SameBuses, bar
  <2> HIDE DEF q, k, r, w
  <2>8. ASSUME NEW e \in EngineType, Agree(p, next, e)
        PROVE  Pending(k, r, q, next', e)
    <3>1. Agree(w, next, e)
      BY <2>7, <2>8, AgreeSame
    <3> QED BY <2>2, <2>4, <2>5, <2>6, <3>1 DEF Pending, PendingAuto, w
  <2> QED BY <2>1, <2>2, <2>3, <2>6, <2>8 DEF Begun, SameLevers
<1>2. CASE p.held = None /\ ~next.background /\ KeysOnly(c, p, TRUE, lever)
  <2> DEFINE auto == TRUE
  <2>1. auto \in BOOLEAN /\ KeysOnly(c, p, auto, lever)
    BY <1>2
  <2> HIDE DEF auto
  <2> QED BY <1>2, <2>1, KeysBegun
<1>3. CASE p.held = None /\ next.background
           /\ \E kind \in Kinds(next.type) : Puts(c, p, p.preview, TRUE, kind, TRUE, TRUE, lever)
  <2>1. PICK kind \in Kinds(next.type) : Puts(c, p, p.preview, TRUE, kind, TRUE, TRUE, lever)
    BY <1>3
  <2> DEFINE yes == TRUE
             source == p.preview
  <2>2. kind \in {"cut", "mix", "stinger"} /\ yes \in BOOLEAN /\ source \in Sources
    BY PanelsAssumption, PaneledIs DEF Kinds, NextType, PanelType
  <2>3. Puts(c, p, source, yes, kind, yes, yes, lever)
    BY <2>1
  <2> HIDE DEF yes, source
  <2> QED BY <2>2, <2>3, PutsBegun
<1> QED BY <1>1, <1>2, <1>3 DEF AutoOf

LEMMA ScrubsBegun ==
  ASSUME NEW c, NEW p, Paneled(p), NEW t \in At, NEW lever, next \in NextType, next' = next,
         p.held = None => t > 0 /\ next.type # "stinger", Scrubs(c, p, t, lever)
  PROVE  Begun(c, p, lever)
<1> DEFINE q == IF p.held = None
                THEN [p EXCEPT !.mix = {p.program, p.preview}, !.heldTies = next.tied] ELSE p
           out == IF p.held = None THEN p.program ELSE p.held.out
           in == IF p.held = None THEN p.preview ELSE p.held.in
           bar == [at |-> t, out |-> out, in |-> in]
           k == [op |-> "position", t |-> t]
           r == [do |-> "bar", held |-> bar]
<1>1. Begins(c, q, k, r, lever)
  BY DEF Scrubs
<1>2. out \in Sources /\ in \in Sources
  BY PaneledIs DEF PanelType, Bar
<1>3. /\ q \in PanelType /\ q.program = p.program /\ q.preview = p.preview /\ q.key = p.key
      /\ q.held = p.held /\ SameLevers(q, p)
      /\ p.held = None => q.heldTies = next.tied /\ q.mix = {p.program, p.preview}
      /\ p.held # None => q = p
  <2>1. p \in PanelType /\ next.tied \in BOOLEAN /\ {p.program, p.preview} \in SUBSET Sources
    BY PaneledIs DEF PanelType, NextType
  <2>2. CASE p.held = None
    BY <2>1, <2>2 DEF PanelType, SameLevers
  <2>3. CASE p.held # None
    BY <2>1, <2>3 DEF SameLevers
  <2> QED BY <2>2, <2>3
<1>4. Paneled(q)
  BY <1>3, PaneledIs DEF SameLevers
<1> HIDE DEF q
<1>5. /\ out = (IF q.held = None THEN q.program ELSE q.held.out)
      /\ in = (IF q.held = None THEN q.preview ELSE q.held.in)
  BY <1>3
<1> HIDE DEF out, in
<1>6. bar \in Bar(At) /\ bar.at = t /\ bar.out = out /\ bar.in = in
  BY <1>2 DEF Bar
<1> HIDE DEF bar
<1>7. /\ k \in CommandType /\ k.op = "position" /\ k.t = t
      /\ r \in RestType /\ r.do = "bar" /\ r.held = bar
  BY <1>6 DEF CommandType, RestType
<1> HIDE DEF k, r
<1>8. ASSUME NEW e \in EngineType, Agree(p, next, e)
      PROVE  Pending(k, r, q, next', e)
  <2>1. Agree(q, next, e)
    <3>1. CASE p.held = None
      BY <1>3, <1>8, <3>1 DEF Agree
    <3>2. CASE p.held # None
      BY <1>3, <1>8, <3>2
    <3> QED BY <3>1, <3>2
  <2>2. PendingPosition(k, r, q, next, e)
    BY <1>3, <1>5, <1>6, <1>7, <2>1 DEF PendingPosition
  <2> QED BY <2>2 DEF Pending
<1>9. ~Flips(r)
  BY <1>7 DEF Flips
<1> QED BY <1>1, <1>3, <1>4, <1>7, <1>8, <1>9 DEF Begun, SameLevers

LEMMA PositionBegun ==
  ASSUME NEW c, NEW p, Paneled(p), NEW t \in At, NEW lever, next \in NextType, next' = next,
         Position(c, p, t, lever)
  PROVE  Begun(c, p, lever)
BY AutoBegun, ScrubsBegun DEF Position


-----------------------------------------------------------------------------
(* The calls *)

\* What an operator's call or a GUI's lever does first.
Opened(c) ==
  \E lever \in LeverType \cup {None} :
    /\ lever # None => lever.who = None /\ lever.end = panel.end
    /\ Begun(c, panel, lever)

LEMMA TypePanel ==
  ASSUME TypeOK
  PROVE  Paneled(panel) /\ next \in NextType /\ panel \in PanelType
BY PaneledIs DEF TypeOK

LEMMA TakeOpens ==
  ASSUME TypeOK, NEW c, TakeCall(c)
  PROVE  Opened(c) /\ next' \in NextType
<1> DEFINE no == FALSE
<1>1. PICK s \in Sources, kind \in {"cut", "mix", "stinger"} :
        Puts(c, panel, s, no, kind, no, no, None)
  BY DEF TakeCall
<1>2. Paneled(panel) /\ next \in NextType /\ next' = next /\ no \in BOOLEAN
  BY TypePanel DEF TakeCall
<1> HIDE DEF no
<1>3. Begun(c, panel, None)
  BY <1>1, <1>2, PutsBegun
<1> QED BY <1>2, <1>3 DEF Opened

LEMMA CutOpens ==
  ASSUME TypeOK, NEW c, CutCall(c) \/ FadeCall(c)
  PROVE  Opened(c) /\ next' \in NextType
<1> DEFINE no == FALSE
           yes == TRUE
           source == panel.preview
<1>1. Paneled(panel) /\ next \in NextType /\ next' = next
  BY TypePanel DEF CutCall, FadeCall
<1>2. no \in BOOLEAN /\ yes \in BOOLEAN /\ source \in Sources /\ ~no
  BY TypePanel DEF PanelType
<1>3. \/ KeysOnly(c, panel, no, None)
      \/ \E kind \in {"cut", "stinger"} : Puts(c, panel, source, yes, kind, yes, no, None)
      \/ Puts(c, panel, source, yes, "mix", no, no, None)
  BY DEF CutCall, FadeCall, Kinds
<1> HIDE DEF no, yes, source
<1>4. CASE KeysOnly(c, panel, no, None)
  <2>1. Begun(c, panel, None)
    BY <1>1, <1>2, <1>4, KeysBegun
  <2> QED BY <1>1, <2>1 DEF Opened
<1>5. CASE \E kind \in {"cut", "stinger"} : Puts(c, panel, source, yes, kind, yes, no, None)
  <2>1. PICK kind \in {"cut", "mix", "stinger"} : Puts(c, panel, source, yes, kind, yes, no, None)
    BY <1>5
  <2>2. Begun(c, panel, None)
    BY <1>1, <1>2, <2>1, PutsBegun
  <2> QED BY <1>1, <2>2 DEF Opened
<1>6. CASE Puts(c, panel, source, yes, "mix", no, no, None)
  <2>1. PICK kind \in {"cut", "mix", "stinger"} : Puts(c, panel, source, yes, kind, no, no, None)
    BY <1>6
  <2>2. Begun(c, panel, None)
    BY <1>1, <1>2, <2>1, PutsBegun
  <2> QED BY <1>1, <2>2 DEF Opened
<1> QED BY <1>3, <1>4, <1>5, <1>6

LEMMA AutoOpens ==
  ASSUME TypeOK, NEW c, AutoCall(c) \/ PositionCall(c)
  PROVE  Opened(c) /\ next' \in NextType
<1>1. Paneled(panel) /\ next \in NextType /\ next' = next
  BY TypePanel DEF AutoCall, PositionCall
<1>2. Begun(c, panel, None)
  BY <1>1, AutoBegun, PositionBegun DEF AutoCall, PositionCall
<1> QED BY <1>1, <1>2 DEF Opened

LEMMA PreviewOpens ==
  ASSUME TypeOK, NEW c, PreviewCall(c)
  PROVE  Opened(c) /\ next' \in NextType
<1> DEFINE r == NoCall.rest
<1>1. Paneled(panel) /\ next \in NextType /\ next' = next
  BY TypePanel DEF PreviewCall
<1>2. PICK s \in Sources :
        Begins(c, WithPreview(panel, s), [op |-> "preview", source |-> s], r, None)
  BY DEF PreviewCall, WithPreview
<1> DEFINE q == WithPreview(panel, s)
           k == [op |-> "preview", source |-> s]
           was == panel.preview
           w == WithPreview(q, was)
<1>3. /\ q \in PanelType /\ q.program = panel.program /\ q.preview = s /\ q.key = panel.key
      /\ q.heldTies = panel.heldTies /\ q.mix = panel.mix /\ q.held = panel.held
      /\ SameLevers(q, panel) /\ was \in Sources
  BY TypePanel DEF WithPreview, PanelType, SameLevers
<1>4. Paneled(q)
  BY <1>1, <1>3, PaneledIs DEF SameLevers
<1>5. SameBuses(w, panel)
  BY <1>3 DEF WithPreview, PanelType, SameBuses
<1>6. k \in CommandType /\ k.op = "preview" /\ k.source = s /\ r \in RestType /\ r.do = "none"
  BY DEF CommandType, RestType, NoCall
<1> HIDE DEF q, k, r, was, w
<1>7. ASSUME NEW e \in EngineType, Agree(panel, next, e)
      PROVE  Pending(k, r, q, next', e)
  <2>1. Agree(w, next, e)
    BY <1>5, <1>7, AgreeSame
  <2> QED BY <1>1, <1>3, <1>6, <2>1 DEF Pending, PendingPreview, w
<1>8. ~Flips(r)
  BY <1>6 DEF Flips
<1>9. Begun(c, panel, None)
  BY <1>2, <1>3, <1>4, <1>6, <1>7, <1>8 DEF Begun, q, k
<1> QED BY <1>1, <1>9 DEF Opened

LEMMA TransitionOpens ==
  ASSUME TypeOK, NEW c, TransitionCall(c)
  PROVE  Opened(c) /\ next' \in NextType
<1> DEFINE r == NoCall.rest
<1>1. Paneled(panel)
  BY TypePanel
<1>2. PICK n \in NextType :
        /\ next' = n
        /\ Begins(c, panel, [op |-> "transition", next |-> [type |-> n.type, tied |-> n.tied]], r,
                  None)
  BY DEF TransitionCall
<1> DEFINE m == [type |-> n.type, tied |-> n.tied]
           k == [op |-> "transition", next |-> m]
<1>3. m \in EngineNext
  BY DEF EngineNext, NextType
<1> HIDE DEF m
<1>4. k \in CommandType /\ k.op = "transition" /\ k.next = m /\ r \in RestType /\ r.do = "none"
  BY <1>3 DEF CommandType, RestType, NoCall
<1>5. Begins(c, panel, k, r, None)
  BY <1>2 DEF m
<1> HIDE DEF k, r
<1>6. ASSUME NEW e \in EngineType, Agree(panel, next, e)
      PROVE  Pending(k, r, panel, next', e)
  <2> DEFINE o == [type |-> e.next.type, tied |-> e.next.tied]
  <2>1. e.next = [type |-> next.type, tied |-> next.tied]
    BY <1>6 DEF Agree
  <2>2. e.next = [type |-> o.type, tied |-> o.tied]
    BY <2>1
  <2> HIDE DEF o
  <2>3. Agree(panel, o, e)
    BY <1>6, <2>2 DEF Agree
  <2> QED BY <1>2, <1>4, <2>3 DEF Pending, PendingTransition, o, m
<1>7. ~Flips(r)
  BY <1>4 DEF Flips
<1>8. Begun(c, panel, None)
  BY <1>1, <1>4, <1>5, <1>6, <1>7 DEF Begun, SameLevers
<1> QED BY <1>2, <1>8 DEF Opened

LEMMA KeyOpens ==
  ASSUME TypeOK, NEW c, KeyCall(c)
  PROVE  Opened(c) /\ next' \in NextType
<1> DEFINE r == NoCall.rest
<1>1. Paneled(panel) /\ next \in NextType /\ next' = next
  BY TypePanel DEF KeyCall
<1>2. PICK on \in BOOLEAN : Begins(c, WithKey(panel, on), [op |-> "key", on |-> on], r, None)
  BY DEF KeyCall, WithKey
<1> DEFINE q == WithKey(panel, on)
           k == [op |-> "key", on |-> on]
           was == panel.key
           w == WithKey(q, was)
<1>3. /\ q \in PanelType /\ q.program = panel.program /\ q.preview = panel.preview /\ q.key = on
      /\ q.heldTies = panel.heldTies /\ q.mix = panel.mix /\ q.held = panel.held
      /\ SameLevers(q, panel) /\ was \in BOOLEAN
  BY TypePanel DEF WithKey, PanelType, SameLevers
<1>4. Paneled(q)
  BY <1>1, <1>3, PaneledIs DEF SameLevers
<1>5. SameBuses(w, panel)
  BY <1>3 DEF WithKey, PanelType, SameBuses
<1>6. k \in CommandType /\ k.op = "key" /\ k.on = on /\ r \in RestType /\ r.do = "none"
  BY DEF CommandType, RestType, NoCall
<1> HIDE DEF q, k, r, was, w
<1>7. ASSUME NEW e \in EngineType, Agree(panel, next, e)
      PROVE  Pending(k, r, q, next', e)
  <2>1. Agree(w, next, e)
    BY <1>5, <1>7, AgreeSame
  <2> QED BY <1>1, <1>3, <1>6, <2>1 DEF Pending, PendingKey, w
<1>8. ~Flips(r)
  BY <1>6 DEF Flips
<1>9. Begun(c, panel, None)
  BY <1>2, <1>3, <1>4, <1>6, <1>7, <1>8 DEF Begun, q, k
<1> QED BY <1>1, <1>9 DEF Opened

\* A lever at v: it starts nothing at the end it rests at, or begins a call of its own.
LEMMA MovesBegin ==
  ASSUME NEW c, NEW p, Paneled(p), NEW l \in Levers \cup {None}, NEW v \in At,
         next \in NextType, next' = next, Moves(c, p, l, v)
  PROVE  \/ /\ p.held = None /\ v = RestsAt(p.end)
            /\ panel' = p /\ UNCHANGED <<running, engine, call, apart, events>>
         \/ \E lever \in LeverType :
              /\ lever.who = l /\ lever.v = v /\ lever.end = p.end
              /\ p.held = None => v # RestsAt(p.end)
              /\ Begun(c, p, lever)
<1> DEFINE t == Progress(v, p.end)
           before == IF p.held = None THEN 0 ELSE p.held.at
           end == p.end
           lever == [who |-> l, v |-> v, t |-> t, end |-> end, before |-> before]
<1>1. p \in PanelType /\ end \in {"top", "bottom"} /\ Full \in Nat \ {0}
  BY PaneledIs, PanelsAssumption DEF PanelType
<1>2. t \in At /\ (t = 0 <=> v = RestsAt(end)) /\ before \in At
  BY <1>1 DEF Progress, RestsAt, At, PanelType, Bar
<1>3. \/ /\ p.held = None /\ t = 0
         /\ panel' = p /\ UNCHANGED <<running, engine, call, apart, events>>
      \/ Position(c, p, t, lever)
  BY DEF Moves
<1>4. CASE Position(c, p, t, lever)
  <2>1. p.held = None => t # 0
    BY <1>1, <1>2, <1>4 DEF Position, At
  <2> HIDE DEF t, before, end
  <2>2. lever \in LeverType /\ lever.who = l /\ lever.v = v /\ lever.end = end
    BY <1>1, <1>2 DEF LeverType
  <2> HIDE DEF lever
  <2>3. Begun(c, p, lever)
    BY <1>2, <1>4, PositionBegun
  <2> QED BY <1>2, <2>1, <2>2, <2>3 DEF end
<1> QED BY <1>2, <1>3, <1>4

LEMMA GuiOpens ==
  ASSUME TypeOK, NEW c, NEW v \in At, LeverOfGui(c, v)
  PROVE  /\ next' \in NextType
         /\ \/ Opened(c)
            \/ panel' = panel /\ next' = next /\ UNCHANGED <<running, engine, call, apart, events>>
<1>1. Paneled(panel) /\ next \in NextType /\ next' = next /\ Moves(c, panel, None, v)
  BY TypePanel DEF LeverOfGui
<1>2. CASE panel' = panel /\ UNCHANGED <<running, engine, call, apart, events>>
  BY <1>1, <1>2
<1>3. CASE \E lever \in LeverType : lever.who = None /\ lever.end = panel.end
                                    /\ Begun(c, panel, lever)
  BY <1>1, <1>3 DEF Opened
<1> QED BY <1>1, <1>2, <1>3, MovesBegin

LEMMA OperatorOpens ==
  ASSUME TypeOK, NEW c, Operator(c)
  PROVE  /\ next' \in NextType /\ Free(c)
         /\ \/ Opened(c)
            \/ panel' = panel /\ next' = next /\ UNCHANGED <<running, engine, call, apart, events>>
<1>1. Free(c)
  BY DEF Operator, TakeCall, CutCall, FadeCall, AutoCall, PreviewCall, PositionCall,
         TransitionCall, KeyCall, LeverOfGui
<1> QED BY <1>1, TakeOpens, CutOpens, AutoOpens, PreviewOpens, TransitionOpens, KeyOpens, GuiOpens
        DEF Operator


-----------------------------------------------------------------------------
(* The invariant *)

Places == (0 .. Full + 1) \cup {None}

LEMMA NotesType ==
  ASSUME TypeOK, NEW l \in Levers \cup {None}, NEW v \in At,
         Notes(l, v) \/ (l # None /\ NotesLever(l, v))
  PROVE  been' \in [Levers -> Places]
<1>1. been \in [Levers -> Places] /\ Full \in Nat /\ None \notin Levers
  BY PanelsAssumption DEF TypeOK, Places
<1>2. v \in Places /\ Full + 1 \in Places /\ None \in Places
  BY <1>1 DEF Places, At
<1>3. CASE Notes(l, v)
  <2> DEFINE old == IF panel'.end = panel.end THEN been ELSE [x \in Levers |-> None]
  <2>1. old \in [Levers -> Places]
    BY <1>1, <1>2
  <2>2. been' = IF l = None THEN old
                ELSE [old EXCEPT ![l] = IF @ \in {None, v} THEN v ELSE Full + 1]
    BY <1>3 DEF Notes
  <2> HIDE DEF old
  <2> QED BY <1>2, <2>1, <2>2
<1>4. CASE l # None /\ NotesLever(l, v)
  <2>1. CASE been' = [been EXCEPT ![l] = Full + 1]
    BY <1>1, <1>2, <2>1
  <2> QED BY <1>3, <1>4, <2>1 DEF NotesLever
<1> QED BY <1>3, <1>4

\* What a lever's place may be when it is remembered or picked up.
LEMMA Noted ==
  ASSUME TypeOK, BeenSince, NEW l \in Levers \cup {None}, NEW v \in At, Notes(l, v),
         panel' \in PanelType,
         \A x \in Levers :
           /\ panel'.last[x] # None =>
                \/ panel'.end = panel.end /\ panel'.last[x] = panel.last[x]
                \/ x = l /\ panel'.last[x] = v
           /\ x \in Range(panel'.picked) =>
                \/ panel'.end = panel.end /\ x \in Range(panel.picked)
                \/ x = l /\ (v = RestsAt(panel'.end) \/ been'[x] = Full + 1)
  PROVE  BeenSince'
<1> DEFINE old == IF panel'.end = panel.end THEN been ELSE [x \in Levers |-> None]
<1>1. /\ been \in [Levers -> Places] /\ None \notin Levers /\ Full \in Nat
      /\ None \notin 0 .. Full + 1
  BY PanelsAssumption, NoneApart DEF TypeOK, Places
<1>2. old \in [Levers -> Places]
  BY <1>1 DEF Places
<1>3. been' = IF l = None THEN old
              ELSE [old EXCEPT ![l] = IF @ \in {None, v} THEN v ELSE Full + 1]
  BY DEF Notes
<1>4. v # Full + 1 /\ v # None /\ Full + 1 # None
  BY <1>1 DEF At
<1>5. panel'.end = panel.end => old = been
  OBVIOUS
<1> HIDE DEF old
<1> SUFFICES ASSUME NEW x \in Levers
             PROVE  /\ panel'.last[x] # None => been'[x] \in {panel'.last[x], Full + 1}
                    /\ x \in Range(panel'.picked) => been'[x] \in {RestsAt(panel'.end), Full + 1}
  BY DEF BeenSince
<1>6. /\ panel.last[x] # None => been[x] \in {panel.last[x], Full + 1}
      /\ x \in Range(panel.picked) => been[x] \in {RestsAt(panel.end), Full + 1}
  BY DEF BeenSince
<1>7. x # l => been'[x] = old[x]
  BY <1>2, <1>3
<1>8. x = l => been'[x] = IF old[x] \in {None, v} THEN v ELSE Full + 1
  BY <1>1, <1>2, <1>3
<1>9. panel.last[x] \in At \cup {None} /\ RestsAt(panel.end) # None
  <2>1. panel \in PanelType
    BY TypePanel
  <2>2. RestsAt(panel.end) \in 0 .. Full + 1
    BY <1>1, <2>1 DEF RestsAt, Progress, PanelType
  <2> QED BY <1>1, <2>1, <2>2 DEF PanelType
<1>10. ASSUME panel'.last[x] # None PROVE been'[x] \in {panel'.last[x], Full + 1}
  <2>1. CASE x = l /\ panel'.last[x] = v
    BY <1>8, <2>1
  <2>2. CASE panel'.end = panel.end /\ panel'.last[x] = panel.last[x]
    <3>1. old[x] \in {panel'.last[x], Full + 1} /\ old[x] # None
      BY <1>4, <1>5, <1>6, <1>10, <2>2
    <3> QED BY <1>4, <1>7, <1>8, <3>1
  <2> QED BY <1>10, <2>1, <2>2
<1>11. ASSUME x \in Range(panel'.picked) PROVE been'[x] \in {RestsAt(panel'.end), Full + 1}
  <2>1. CASE x = l /\ (v = RestsAt(panel'.end) \/ been'[x] = Full + 1)
    BY <1>8, <2>1
  <2>2. CASE panel'.end = panel.end /\ x \in Range(panel.picked)
    <3>1. old[x] \in {RestsAt(panel'.end), Full + 1} /\ old[x] # None
      BY <1>4, <1>5, <1>6, <1>9, <2>2
    <3> QED BY <1>4, <1>7, <1>8, <3>1
  <2> QED BY <1>11, <2>1, <2>2
<1> QED BY <1>10, <1>11

LEMMA BegunKeeps ==
  ASSUME TypeOK, Follow, Alone, NEW c \in Calls, Free(c), NEW p, Paneled(p), SameBuses(p, panel),
         p.end = panel.end, NEW lever \in LeverType \cup {None}, lever # None => lever.end = p.end,
         next' \in NextType, Begun(c, p, lever), used' = used, been' \in [Levers -> Places]
  PROVE  /\ TypeOK' /\ Follow' /\ Alone'
         /\ SameLevers(panel', p) \/ (Unpicked(panel') /\ panel'.held = None)
         /\ \A d \in Calls : d # c => call'[d] = call[d]
         /\ call'[c].lever = lever
<1>1. PICK q, k, r :
        /\ Begins(c, q, k, r, lever)
        /\ Paneled(q) /\ k \in CommandType /\ r \in RestType
        /\ SameLevers(q, p) \/ (Unpicked(q) /\ q.held = None)
        /\ q.held # None => ~Flips(r)
        /\ lever # None => q.end = p.end
        /\ \A e \in EngineType : Agree(p, next, e) => Pending(k, r, q, next', e)
  BY DEF Begun
<1> DEFINE new == [command |-> k, rest |-> r, lever |-> lever]
<1>2. /\ panel' = q /\ call' = [call EXCEPT ![c] = new]
      /\ apart' = (IF \A d \in Calls : call[d] = NoCall THEN apart ELSE apart \cup {"raced"})
      /\ running' = running /\ engine' = engine /\ events' = events
  BY <1>1 DEF Begins
<1>3. new \in CallType /\ new.command = k /\ new.rest = r /\ new.lever = lever /\ k # None
  BY <1>1, NoneApart DEF CallType
<1>4. new # NoCall
  BY <1>3 DEF NoCall
<1> HIDE DEF new
<1>5. /\ call' \in [Calls -> CallType \cup {NoCall}] /\ call'[c] = new
      /\ \A d \in Calls : d # c => call'[d] = call[d]
  BY <1>2, <1>3 DEF TypeOK
<1>6. TypeOK'
  <2>1. q \in PanelType /\ IsInjective(q.picked) /\ Len(q.picked) <= TbarSources + 1
    BY <1>1, PaneledIs DEF Paneled, Levered
  <2>2. apart' \subseteq Reasons
    BY <1>2 DEF TypeOK, Reasons
  <2> QED BY <1>2, <1>5, <2>1, <2>2 DEF TypeOK, Places, ready
<1>7. Follow'
  <2> SUFFICES ASSUME ready', apart' = {}
               PROVE  /\ Quiet' => Agree(panel', next', engine')
                      /\ \A d \in Calls : call'[d] # NoCall =>
                           Pending(call'[d].command, call'[d].rest, panel', next', engine')
    BY DEF Follow
  <2>1. apart = {} /\ Quiet /\ ready
    BY <1>2 DEF Quiet, ready
  <2>2. engine \in EngineType
    BY <2>1 DEF TypeOK, ready
  <2>3. Agree(p, next, engine)
    BY <2>1, AgreeSame DEF Follow
  <2>4. Pending(k, r, panel', next', engine')
    BY <1>1, <1>2, <2>2, <2>3
  <2>5. \A d \in Calls : call'[d] # NoCall => d = c
    BY <1>5, <2>1 DEF Quiet
  <2>6. ~Quiet'
    BY <1>4, <1>5 DEF Quiet
  <2> QED BY <1>3, <1>5, <2>4, <2>5, <2>6
<1>8. Alone'
  <2> SUFFICES ASSUME "raced" \notin apart', NEW d \in Calls, call'[d] # NoCall
               PROVE  /\ \A f \in Calls \ {d} : call'[f] = NoCall
                      /\ call'[d].lever # None => call'[d].lever.end = panel'.end
                      /\ panel'.held # None =>
                           call'[d].rest.do # "rest"
                           /\ (call'[d].rest.do = "ties" => ~call'[d].rest.flips)
    BY DEF Alone
  <2>1. Quiet
    BY <1>2 DEF Quiet
  <2>2. d = c
    BY <1>5, <2>1 DEF Quiet
  <2>3. \A f \in Calls \ {d} : call'[f] = NoCall
    BY <1>5, <2>1, <2>2 DEF Quiet
  <2> QED BY <1>1, <1>2, <1>3, <1>5, <2>2, <2>3 DEF Flips
<1> QED BY <1>1, <1>2, <1>3, <1>5, <1>6, <1>7, <1>8

\* A step that leaves the calls and the engine, and changes no bus.
LEMMA IdleKeeps ==
  ASSUME TypeOK, Follow, Alone, Paneled(panel'), SameBuses(panel', panel), panel'.end = panel.end,
         UNCHANGED <<next, running, engine, call, apart, events>>, used' = used,
         been' \in [Levers -> Places]
  PROVE  TypeOK' /\ Follow' /\ Alone'
<1>1. TypeOK'
  <2>1. panel' \in PanelType /\ IsInjective(panel'.picked) /\ Len(panel'.picked) <= TbarSources + 1
    BY PaneledIs DEF Paneled, Levered
  <2> QED BY <2>1 DEF TypeOK, Places, ready
<1>2. Follow'
  <2> SUFFICES ASSUME ready, apart = {}
               PROVE  /\ Quiet => Agree(panel', next, engine)
                      /\ \A d \in Calls : call[d] # NoCall =>
                           Pending(call[d].command, call[d].rest, panel', next, engine)
    BY DEF Follow, Quiet, ready
  <2>1. panel \in PanelType /\ panel' \in PanelType
    BY TypePanel, PaneledIs
  <2> QED BY <2>1, AgreeSame, PendingSame DEF Follow
<1>3. Alone'
  BY DEF Alone, SameBuses
<1> QED BY <1>1, <1>2, <1>3


LeverStep ==
  \A c \in Calls, l \in Levers :
    call[c] = NoCall /\ call'[c] # NoCall /\ panel.held = None
    /\ call'[c].lever # None /\ call'[c].lever.who = l
    => been[l] \notin {None, call'[c].lever.v}
DriverStep ==
  panel.held # None /\ panel'.held # None /\ "raced" \notin apart'
  /\ panel.driver \in Range(panel.picked) => panel.driver \in Range(panel'.picked)

\* The invariant holds after the step, and the step is one of the action properties'.
Keeps == IInv' /\ LeverStep /\ DriverStep

LEMMA UnpickedIs ==
  ASSUME NEW q, Unpicked(q)
  PROVE  Range(q.picked) = {} /\ \A l \in Levers : q.last[l] = None
BY NoneIsPicked DEF Unpicked

LEMMA OperatorKeeps ==
  ASSUME IInv, NEW c \in Calls, Operator(c), Notes(None, 0), used' = used
  PROVE  Keeps
<1>1. TypeOK /\ Follow /\ Alone /\ BeenSince
  BY DEF IInv
<1>2. /\ next' \in NextType /\ Free(c)
      /\ \/ Opened(c)
         \/ panel' = panel /\ next' = next /\ UNCHANGED <<running, engine, call, apart, events>>
  BY <1>1, OperatorOpens
<1>3. Paneled(panel) /\ SameBuses(panel, panel)
  BY <1>1, TypePanel DEF SameBuses
<1>4. 0 \in At /\ None \in Levers \cup {None}
  BY PanelsAssumption DEF At
<1>5. been' \in [Levers -> Places]
  BY <1>1, <1>4, NotesType
<1>6. ASSUME \/ panel'.picked = panel.picked /\ panel'.last = panel.last /\ panel'.end = panel.end
             \/ Unpicked(panel'),
             panel' \in PanelType
      PROVE  BeenSince'
  BY <1>1, <1>4, <1>6, Noted, UnpickedIs
<1>7. CASE Opened(c)
  <2>1. PICK lever \in LeverType \cup {None} :
          /\ lever # None => lever.who = None /\ lever.end = panel.end
          /\ Begun(c, panel, lever)
    BY <1>7 DEF Opened
  <2>2. /\ TypeOK' /\ Follow' /\ Alone'
        /\ SameLevers(panel', panel) \/ (Unpicked(panel') /\ panel'.held = None)
        /\ \A d \in Calls : d # c => call'[d] = call[d]
        /\ call'[c].lever = lever
    BY <1>1, <1>2, <1>3, <1>5, <2>1, BegunKeeps
  <2>3. BeenSince'
    BY <1>6, <2>2 DEF TypeOK, SameLevers
  <2>4. LeverStep
    BY <2>1, <2>2, PanelsAssumption DEF LeverStep
  <2>5. DriverStep
    BY <2>2 DEF DriverStep, SameLevers
  <2> QED BY <2>2, <2>3, <2>4, <2>5 DEF Keeps, IInv
<1>8. CASE panel' = panel /\ next' = next /\ UNCHANGED <<running, engine, call, apart, events>>
  <2>1. TypeOK' /\ Follow' /\ Alone'
    BY <1>1, <1>3, <1>5, <1>8, IdleKeeps
  <2>2. BeenSince'
    BY <1>3, <1>6, <1>8, PaneledIs
  <2>3. LeverStep /\ DriverStep
    BY <1>8 DEF LeverStep, DriverStep
  <2> QED BY <2>1, <2>2, <2>3 DEF Keeps, IInv
<1> QED BY <1>2, <1>7, <1>8

LEMMA TellKeeps ==
  ASSUME IInv, NEW c \in Calls, Tell(c), used' = used,
         LET l == call[c].lever IN IF l = None THEN Notes(None, 0) ELSE Notes(l.who, l.v)
  PROVE  Keeps
<1> DEFINE k == call[c].command
           r == call[c].rest
           lever == call[c].lever
           q == Rests(panel, r)
           s == AfterLever(q, lever)
<1>1. TypeOK /\ Follow /\ Alone /\ BeenSince
  BY DEF IInv
<1>2. call[c] # NoCall /\ k \in CommandType /\ r \in RestType /\ lever \in LeverType \cup {None}
  BY <1>1 DEF TypeOK, Tell, CallType
<1>3. /\ \/ /\ ready
            /\ engine' = Does(engine, k)
            /\ apart' = apart \cup Parts(engine, k)
            /\ events' = events
         \/ ~ready /\ UNCHANGED <<engine, apart, events>>
         \/ /\ ready /\ events < MaxEvents
            /\ events' = events + 1 /\ apart' = apart \cup {"lost"} /\ engine' = engine
      /\ panel' = s
      /\ call' = [call EXCEPT ![c] = NoCall]
      /\ next' = next /\ running' = running
  BY DEF Tell
<1>4. Paneled(panel) /\ panel \in PanelType /\ next \in NextType
  BY <1>1, TypePanel
<1> HIDE DEF k, r, lever
<1>5. /\ Paneled(q)
      /\ \/ q.end = panel.end /\ q.picked = panel.picked /\ q.last = panel.last
         \/ Unpicked(q)
      /\ q.driver = panel.driver
      /\ q.held # None /\ ~Flips(r) => q.end = panel.end /\ q.picked = panel.picked
  BY <1>2, <1>4, RestsKeep
<1> HIDE DEF q
<1>6. /\ Paneled(s)
      /\ s = [q EXCEPT !.driver = s.driver, !.picked = s.picked]
      /\ \/ s.picked = q.picked
         \/ /\ lever # None /\ lever.who \in Levers /\ q.end # lever.end
            /\ lever.v = RestsAt(q.end)
            /\ \A l \in Range(s.picked) : l \in Range(q.picked) \/ l = lever.who
  BY <1>2, <1>5, AfterLeverIs
<1> HIDE DEF s
<1>7. SameBuses(s, q) /\ s.end = q.end /\ s.last = q.last
  <2>1. q \in PanelType
    BY <1>5, PaneledIs
  <2> QED BY <1>6, <2>1 DEF SameBuses, PanelType
<1>8. /\ call' \in [Calls -> CallType \cup {NoCall}] /\ call'[c] = NoCall
      /\ \A d \in Calls : d # c => call'[d] = call[d]
  BY <1>1, <1>3 DEF TypeOK
<1> DEFINE l == IF lever = None THEN None ELSE lever.who
           v == IF lever = None THEN 0 ELSE lever.v
<1>9. Notes(l, v) /\ l \in Levers \cup {None} /\ v \in At
  <2>1. 0 \in At
    BY PanelsAssumption DEF At
  <2> QED BY <1>2, <2>1 DEF LeverType, lever
<1>10. lever # None => l = lever.who /\ v = lever.v
  OBVIOUS
<1> HIDE DEF l, v
<1>11. been' \in [Levers -> Places]
  BY <1>1, <1>9, NotesType
<1>12. TypeOK'
  <2>1. s \in PanelType /\ IsInjective(s.picked) /\ Len(s.picked) <= TbarSources + 1
    BY <1>6, PaneledIs DEF Paneled, Levered
  <2>2. /\ engine' \in EngineType \cup {None} /\ apart' \subseteq Reasons
        /\ events' \in 0 .. MaxEvents /\ (ready' => running')
    <3>1. CASE ready /\ engine' = Does(engine, k) /\ apart' = apart \cup Parts(engine, k)
               /\ events' = events
      <4>1. engine' \in EngineType
        BY <1>1, <1>2, <3>1, DoesType DEF TypeOK, ready
      <4>2. Parts(engine, k) \subseteq Reasons
        BY DEF Parts, Reasons
      <4> QED BY <1>1, <1>3, <3>1, <4>1, <4>2 DEF TypeOK, ready
    <3>2. CASE ~ready /\ UNCHANGED <<engine, apart, events>>
      BY <1>1, <1>3, <3>2 DEF TypeOK, ready
    <3>3. CASE /\ ready /\ events < MaxEvents
               /\ events' = events + 1 /\ apart' = apart \cup {"lost"} /\ engine' = engine
      BY <1>1, <1>3, <3>3, PanelsAssumption DEF TypeOK, ready, Reasons
    <3> QED BY <1>3, <3>1, <3>2, <3>3
  <2> QED BY <1>1, <1>3, <1>8, <1>11, <2>1, <2>2 DEF TypeOK, Places
<1>13. "raced" \notin apart' => \A d \in Calls : call'[d] = NoCall
  <2>1. "raced" \notin apart' => "raced" \notin apart
    BY <1>3
  <2> QED BY <1>1, <1>2, <1>8, <2>1 DEF Alone
<1>14. Follow'
  <2> SUFFICES ASSUME ready', apart' = {} PROVE Agree(panel', next', engine')
    BY <1>13 DEF Follow
  <2>1. /\ ready /\ engine' = Does(engine, k) /\ apart = {} /\ Parts(engine, k) = {}
    BY <1>3 DEF ready
  <2>2. engine \in EngineType
    BY <1>1, <2>1 DEF TypeOK, ready
  <2>3. Pending(k, r, panel, next, engine)
    BY <1>1, <1>2, <2>1 DEF Follow, k, r
  <2>4. Agree(q, next, engine')
    BY <1>2, <1>4, <2>1, <2>2, <2>3, ToldIs DEF q
  <2> QED BY <1>3, <1>7, <2>4, AgreeSame
<1>15. Alone'
  BY <1>13 DEF Alone
<1>16. BeenSince'
  <2>1. panel' \in PanelType /\ panel'.end = q.end /\ panel'.last = q.last
    BY <1>3, <1>6, <1>7, PaneledIs
  <2>2. \A x \in Levers :
          /\ panel'.last[x] # None => panel'.end = panel.end /\ panel'.last[x] = panel.last[x]
          /\ x \in Range(q.picked) => panel'.end = panel.end /\ x \in Range(panel.picked)
    BY <1>5, <2>1, UnpickedIs
  <2>3. \A x \in Range(panel'.picked) :
          x \in Range(q.picked) \/ (x = l /\ v = RestsAt(panel'.end))
    BY <1>3, <1>6, <1>10, <2>1
  <2> QED BY <1>1, <1>9, <2>1, <2>2, <2>3, Noted
<1>17. LeverStep
  BY <1>8 DEF LeverStep
<1>18. DriverStep
  <2> SUFFICES ASSUME panel.held # None, panel'.held # None, "raced" \notin apart',
                      panel.driver \in Range(panel.picked)
               PROVE  panel.driver \in Range(panel'.picked)
    BY DEF DriverStep
  <2>1. "raced" \notin apart
    BY <1>3
  <2>2. /\ lever # None => lever.end = panel.end
        /\ ~Flips(r)
    BY <1>1, <1>2, <2>1 DEF Alone, Flips, lever, r
  <2>3. q.held # None
    BY <1>3, <1>7 DEF SameBuses
  <2>4. q.end = panel.end /\ q.picked = panel.picked
    BY <1>5, <2>2, <2>3
  <2> QED BY <1>3, <1>6, <2>2, <2>4
<1> QED BY <1>12, <1>14, <1>15, <1>16, <1>17, <1>18 DEF Keeps, IInv


LEMMA IgnoredKeeps ==
  ASSUME IInv, NEW l \in Levers, NEW v \in At, LeverIgnored(l, v), NotesLever(l, v), used' = used
  PROVE  Keeps
<1>1. TypeOK /\ Follow /\ Alone /\ BeenSince /\ panel \in PanelType
  BY TypePanel DEF IInv
<1>2. /\ panel' = [panel EXCEPT !.last[l] = v] /\ ~Counts(l, v)
      /\ UNCHANGED <<next, running, engine, call, apart, events>>
  BY DEF LeverIgnored
<1>3. Notes(l, v)
  BY <1>2 DEF NotesLever
<1> DEFINE last == [panel.last EXCEPT ![l] = v]
<1>4. /\ last \in [Levers -> At \cup {None}] /\ last[l] = v
      /\ \A x \in Levers : x # l => last[x] = panel.last[x]
  BY <1>1 DEF PanelType
<1>5. panel' = [panel EXCEPT !.last = last]
  BY <1>2
<1> HIDE DEF last
<1>6. /\ panel' \in PanelType /\ SameBuses(panel', panel) /\ panel'.end = panel.end
      /\ panel'.picked = panel.picked /\ panel'.last = last /\ panel'.driver = panel.driver
  BY <1>1, <1>4, <1>5 DEF PanelType, SameBuses
<1>7. Paneled(panel')
  BY <1>1, <1>6, PaneledIs DEF TypeOK
<1>8. been' \in [Levers -> Places]
  BY <1>1, <1>3, NotesType
<1>9. TypeOK' /\ Follow' /\ Alone'
  BY <1>1, <1>2, <1>6, <1>7, <1>8, IdleKeeps
<1>10. BeenSince'
  <2>1. \A x \in Levers :
          /\ panel'.last[x] # None =>
               \/ panel'.end = panel.end /\ panel'.last[x] = panel.last[x]
               \/ x = l /\ panel'.last[x] = v
          /\ x \in Range(panel'.picked) => panel'.end = panel.end /\ x \in Range(panel.picked)
    BY <1>4, <1>6
  <2> QED BY <1>1, <1>3, <1>6, <2>1, Noted
<1>11. LeverStep /\ DriverStep
  BY <1>2, <1>6 DEF LeverStep, DriverStep
<1> QED BY <1>9, <1>10, <1>11 DEF Keeps, IInv

\* A lever that counts while nothing is held, off the end it rests at, has moved.
LEMMA CountsMoved ==
  ASSUME TypeOK, BeenSince, NEW l \in Levers, NEW v \in At, Counts(l, v), panel.held = None,
         v # RestsAt(panel.end)
  PROVE  been[l] \notin {None, v} /\ been[l] # None
<1>1. /\ panel \in PanelType /\ None \notin 0 .. Full + 1 /\ Full \in Nat
  BY TypePanel, NoneApart, PanelsAssumption
<1>2. RestsAt(panel.end) \in At /\ Current(panel) = RestsAt(panel.end)
  BY <1>1 DEF RestsAt, Progress, Current, PanelType, At
<1>3. panel.last[l] \in At \cup {None}
  BY <1>1 DEF PanelType
<1>4. v # Full + 1 /\ None \notin At /\ None # Full + 1
  BY <1>1 DEF At
<1>5. /\ panel.last[l] # None => been[l] \in {panel.last[l], Full + 1}
      /\ l \in Range(panel.picked) => been[l] \in {RestsAt(panel.end), Full + 1}
  BY DEF BeenSince
<1>6. CASE l \in Range(panel.picked)
  BY <1>2, <1>4, <1>5, <1>6
<1>7. CASE Crossed(panel.last[l], v, RestsAt(panel.end))
  <2>1. panel.last[l] # None /\ panel.last[l] # v
    BY <1>2, <1>3, <1>7 DEF Crossed, At
  <2> QED BY <1>3, <1>4, <1>5, <2>1
<1> QED BY <1>2, <1>6, <1>7 DEF Counts

LEMMA CountsKeeps ==
  ASSUME IInv, NEW c \in Calls, NEW l \in Levers, NEW v \in At, LeverCounts(c, l, v),
         NotesLever(l, v), used' = used
  PROVE  Keeps
<1>1. TypeOK /\ Follow /\ Alone /\ BeenSince /\ panel \in PanelType /\ Paneled(panel)
      /\ next \in NextType
  BY TypePanel DEF IInv
<1> DEFINE at == IF l \in Range(panel.picked) THEN panel.last[l] ELSE v
           last == [panel.last EXCEPT ![l] = at]
           m == [panel EXCEPT !.last = last]
           p == Picks(m, l)
<1>2. Free(c) /\ Counts(l, v) /\ next' = next /\ Moves(c, p, l, v)
  BY DEF LeverCounts
<1>3. /\ last \in [Levers -> At \cup {None}] /\ last[l] = at
      /\ \A x \in Levers : x # l => last[x] = panel.last[x]
  BY <1>1 DEF PanelType
<1> HIDE DEF last
<1>4. /\ m \in PanelType /\ SameBuses(m, panel) /\ m.end = panel.end
      /\ m.picked = panel.picked /\ m.last = last /\ m.driver = panel.driver
  BY <1>1, <1>3 DEF PanelType, SameBuses
<1>5. Paneled(m)
  BY <1>1, <1>4, PaneledIs DEF TypeOK
<1> HIDE DEF at, m
<1>6. /\ p \in PanelType /\ Levered(p) /\ p = [m EXCEPT !.picked = p.picked]
      /\ \A x \in Range(p.picked) : x = l \/ x \in Range(m.picked)
      /\ m.held # None /\ m.driver \in Range(m.picked) => m.driver \in Range(p.picked)
  BY <1>5, PicksIs DEF Paneled
<1> HIDE DEF p
<1>7. Paneled(p) /\ SameBuses(p, panel) /\ p.end = panel.end /\ p.last = last
      /\ p.driver = panel.driver
  <2> DEFINE picked == p.picked
  <2>1. p = [m EXCEPT !.picked = picked]
    BY <1>6
  <2> HIDE DEF picked
  <2>2. SameBuses(p, m) /\ p.end = m.end /\ p.last = m.last /\ p.driver = m.driver
    BY <1>4, <2>1 DEF SameBuses, PanelType
  <2>3. SameBuses(p, panel)
    BY <1>4, <2>2 DEF SameBuses
  <2>4. Paneled(p)
    BY <1>6 DEF Paneled
  <2> QED BY <1>4, <2>2, <2>3, <2>4
<1>8. been' \in [Levers -> Places]
  BY <1>1, NotesType, PanelsAssumption
<1>9. panel.held = None => Notes(l, v)
  BY DEF NotesLever
<1>10. panel.held # None => been' = [been EXCEPT ![l] = Full + 1]
  BY <1>2 DEF NotesLever
<1>11. CASE /\ p.held = None /\ v = RestsAt(p.end)
            /\ panel' = p /\ UNCHANGED <<running, engine, call, apart, events>>
  <2>1. TypeOK' /\ Follow' /\ Alone'
    BY <1>1, <1>2, <1>7, <1>8, <1>11, IdleKeeps
  <2>2. panel.held = None /\ Notes(l, v)
    BY <1>7, <1>9, <1>11 DEF SameBuses
  <2>3. \A x \in Levers :
          /\ panel'.last[x] # None =>
               \/ panel'.end = panel.end /\ panel'.last[x] = panel.last[x]
               \/ x = l /\ panel'.last[x] = v
          /\ x \in Range(panel'.picked) =>
               \/ panel'.end = panel.end /\ x \in Range(panel.picked)
               \/ x = l /\ v = RestsAt(panel'.end)
    <3>1. panel'.last = last /\ panel'.end = panel.end /\ panel'.picked = p.picked
      <4>1. panel' = p
        BY <1>11
      <4> QED BY <1>7, <4>1
    <3>2. last[l] = panel.last[l] \/ last[l] = v
      BY <1>3 DEF at
    <3>3. v = RestsAt(panel'.end)
      BY <1>11
    <3> QED BY <1>3, <1>4, <1>6, <3>1, <3>2, <3>3
  <2>4. panel' \in PanelType
    BY <1>6, <1>11
  <2>5. BeenSince'
    BY <1>1, <2>2, <2>3, <2>4, Noted
  <2>6. LeverStep
    BY <1>11 DEF LeverStep
  <2>7. DriverStep
    BY <1>11, <2>2 DEF DriverStep
  <2> QED BY <2>1, <2>5, <2>6, <2>7 DEF Keeps, IInv
<1>12. CASE \E lever \in LeverType :
              /\ lever.who = l /\ lever.v = v /\ lever.end = p.end
              /\ p.held = None => v # RestsAt(p.end)
              /\ Begun(c, p, lever)
  <2>1. PICK lever \in LeverType :
              /\ lever.who = l /\ lever.v = v /\ lever.end = p.end
              /\ p.held = None => v # RestsAt(p.end)
              /\ Begun(c, p, lever)
    BY <1>12
  <2>2. /\ TypeOK' /\ Follow' /\ Alone'
        /\ SameLevers(panel', p) \/ (Unpicked(panel') /\ panel'.held = None)
        /\ \A d \in Calls : d # c => call'[d] = call[d]
        /\ call'[c].lever = lever
    BY <1>1, <1>2, <1>7, <1>8, <2>1, BegunKeeps
  <2>3. panel.held = None => been[l] \notin {None, v}
    BY <1>1, <1>2, <1>7, <2>1, CountsMoved DEF SameBuses
  <2>4. BeenSince'
    <3>1. CASE Unpicked(panel')
      BY <3>1, UnpickedIs DEF BeenSince
    <3>2. CASE SameLevers(panel', p)
      <4>1. panel'.end = panel.end /\ panel'.last = last /\ panel'.picked = p.picked
        BY <1>7, <3>2 DEF SameLevers
      <4>2. been \in [Levers -> Places]
        BY <1>1 DEF TypeOK, Places
      <4>3. been'[l] = Full + 1 /\ \A x \in Levers : x # l => been'[x] = been[x]
        BY <1>9, <1>10, <2>3, <4>1, <4>2, PanelsAssumption DEF Notes
      <4>4. \A x \in Levers : x # l => last[x] = panel.last[x]
                              /\ (x \in Range(p.picked) => x \in Range(panel.picked))
        BY <1>3, <1>4, <1>6
      <4> QED BY <1>1, <4>1, <4>3, <4>4 DEF BeenSince
    <3> QED BY <2>2, <3>1, <3>2
  <2>5. LeverStep
    <3> SUFFICES ASSUME NEW d \in Calls, NEW x \in Levers, call[d] = NoCall, call'[d] # NoCall,
                        panel.held = None, call'[d].lever # None, call'[d].lever.who = x
                 PROVE  been[x] \notin {None, call'[d].lever.v}
      BY DEF LeverStep
    <3>1. d = c /\ x = l
      BY <2>1, <2>2
    <3> QED BY <2>1, <2>2, <2>3, <3>1
  <2>6. DriverStep
    <3> SUFFICES ASSUME panel.held # None, panel'.held # None,
                        panel.driver \in Range(panel.picked)
                 PROVE  panel.driver \in Range(panel'.picked)
      BY DEF DriverStep
    <3>1. panel'.picked = p.picked
      BY <2>2 DEF SameLevers
    <3> QED BY <1>4, <1>6, <3>1 DEF SameBuses
  <2> QED BY <2>2, <2>4, <2>5, <2>6 DEF Keeps, IInv
<1> QED BY <1>1, <1>2, <1>7, <1>11, <1>12, MovesBegin

LEMMA EngineKeeps ==
  ASSUME IInv, EngineEnds \/ EngineCuts, Notes(None, 0), used' = used
  PROVE  Keeps
<1>1. TypeOK /\ Follow /\ Alone /\ BeenSince /\ panel \in PanelType /\ 0 \in At
  BY TypePanel, PanelsAssumption DEF IInv, At
<1>2. PICK f : EngineMoves(f) /\ Moved(engine, f) /\ ready
  BY DEF EngineEnds, EngineCuts, Moved
<1>3. engine' = f /\ UNCHANGED <<panel, next, running, call, apart, events>>
  BY <1>2 DEF EngineMoves
<1>4. engine \in EngineType
  BY <1>1, <1>2 DEF TypeOK, ready
<1>5. f \in EngineType
  BY <1>2, <1>4, MovedIs
<1>6. been' \in [Levers -> Places]
  BY <1>1, NotesType
<1>7. TypeOK'
  BY <1>1, <1>2, <1>3, <1>5, <1>6 DEF TypeOK, Places, ready
<1>8. Follow'
  <2> SUFFICES ASSUME apart = {}
               PROVE  /\ Quiet => Agree(panel, next, f)
                      /\ \A d \in Calls : call[d] # NoCall =>
                           Pending(call[d].command, call[d].rest, panel, next, f)
    BY <1>3 DEF Follow, Quiet, ready
  <2> QED BY <1>1, <1>2, <1>4, AgreeMoved, PendingMoved DEF Follow
<1>9. Alone'
  BY <1>1, <1>3 DEF Alone
<1>10. BeenSince'
  BY <1>1, <1>3, Noted
<1>11. LeverStep /\ DriverStep
  BY <1>3 DEF LeverStep, DriverStep
<1> QED BY <1>7, <1>8, <1>9, <1>10, <1>11 DEF Keeps, IInv

\* Start, stop and the death of the engine: no engine that is ready is left.
LEMMA OffKeeps ==
  ASSUME IInv, Start \/ Stop \/ EngineDies, Notes(None, 0), used' = used
  PROVE  Keeps
<1>1. TypeOK /\ Follow /\ Alone /\ BeenSince /\ panel \in PanelType /\ 0 \in At
  BY TypePanel, PanelsAssumption DEF IInv, At
<1>2. /\ UNCHANGED <<next, call, apart>> /\ engine' = None /\ running' \in BOOLEAN
      /\ events' \in 0 .. MaxEvents
  <2>1. running \in BOOLEAN /\ events \in 0 .. MaxEvents /\ (~running => engine = None)
        /\ MaxEvents \in Nat
    BY <1>1, PanelsAssumption DEF TypeOK, ready
  <2>2. CASE Start
    <3>1. ~running /\ running' = TRUE /\ UNCHANGED <<next, engine, call, apart, events>>
      BY <2>2 DEF Start
    <3> QED BY <2>1, <3>1
  <2>3. CASE Stop
    <3>1. /\ events < MaxEvents /\ events' = events + 1 /\ running' = FALSE /\ engine' = None
          /\ UNCHANGED <<next, call, apart>>
      BY <2>3 DEF Stop
    <3>2. events' \in 0 .. MaxEvents
      BY <2>1, <3>1
    <3>3. running' \in BOOLEAN
      BY <3>1
    <3> QED BY <3>1, <3>2, <3>3
  <2>4. CASE EngineDies
    <3>1. /\ events < MaxEvents /\ events' = events + 1 /\ engine' = None
          /\ UNCHANGED <<next, running, call, apart>>
      BY <2>4 DEF EngineDies
    <3> QED BY <2>1, <3>1
  <2> QED BY <2>2, <2>3, <2>4
<1>3. /\ panel' \in PanelType /\ SameLevers(panel', panel) /\ panel'.held = panel.held
      /\ Range(panel'.picked) = Range(panel.picked)
  <2>1. \/ panel' = panel
        \/ \E s, t \in Sources : panel' = [panel EXCEPT !.program = s, !.preview = t]
        \/ panel' = [panel EXCEPT !.mix = {}]
    BY DEF Start, Stop, EngineDies
  <2> QED BY <1>1, <2>1 DEF PanelType, SameLevers
<1>4. been' \in [Levers -> Places]
  BY <1>1, NotesType
<1>5. TypeOK'
  BY <1>1, <1>2, <1>3, <1>4 DEF TypeOK, Places, ready, SameLevers
<1>6. Follow'
  BY <1>2 DEF Follow, ready
<1>7. Alone'
  BY <1>1, <1>2, <1>3 DEF Alone, SameLevers
<1>8. BeenSince'
  BY <1>1, <1>3, Noted DEF SameLevers
<1>9. LeverStep /\ DriverStep
  BY <1>2, <1>3 DEF LeverStep, DriverStep
<1> QED BY <1>5, <1>6, <1>7, <1>8, <1>9 DEF Keeps, IInv

\* A new engine is where the control plane says.
LEMMA PushedAgrees ==
  ASSUME NEW p, Paneled(p), p.held = None, NEW n \in NextType
  PROVE  Pushed(p, n) \in EngineType /\ Agree(p, n, Pushed(p, n))
<1> DEFINE e == Pushed(p, n)
<1>1. /\ e \in EngineType /\ e.program = p.program /\ e.preview = p.preview /\ e.key = p.key
      /\ e.mix = None /\ e.next = [type |-> n.type, tied |-> n.tied]
  BY PaneledIs DEF Pushed, EngineType, EngineNext, NextType, PanelType
<1> HIDE DEF e
<1>2. Ended(e) = e
  BY <1>1, EndedIs
<1> QED BY <1>1, <1>2 DEF Agree, e

LEMMA ReadyKeeps ==
  ASSUME IInv, EngineReady, Notes(None, 0), used' = used
  PROVE  Keeps
<1>1. TypeOK /\ Follow /\ Alone /\ BeenSince /\ panel \in PanelType /\ 0 \in At
      /\ Paneled(panel) /\ next \in NextType
  BY TypePanel, PanelsAssumption DEF IInv, At
<1>2. /\ running /\ ~ready /\ panel' = Readied(panel) /\ engine' = Pushed(panel', next)
      /\ apart' = (IF \A c \in Calls : call[c] = NoCall THEN {} ELSE {"raced"})
      /\ UNCHANGED <<next, running, call, events>>
  BY DEF EngineReady
<1>3. Paneled(panel') /\ Unpicked(panel') /\ panel'.end = panel.end /\ panel'.held = None
  BY <1>1, <1>2, ReadiedIs
<1>4. engine' \in EngineType /\ Agree(panel', next, engine')
  BY <1>1, <1>2, <1>3, PushedAgrees
<1>5. been' \in [Levers -> Places]
  BY <1>1, NotesType
<1>6. TypeOK'
  <2>1. panel' \in PanelType /\ IsInjective(panel'.picked) /\ Len(panel'.picked) <= TbarSources + 1
    BY <1>3, PaneledIs DEF Paneled, Levered
  <2>2. apart' \subseteq Reasons
    BY <1>2 DEF Reasons
  <2> QED BY <1>1, <1>2, <1>4, <1>5, <2>1, <2>2 DEF TypeOK, Places, ready
<1>7. Follow'
  <2>1. apart' = {} => \A c \in Calls : call'[c] = NoCall
    BY <1>2
  <2> QED BY <1>2, <1>4, <2>1 DEF Follow
<1>8. Alone'
  BY <1>2 DEF Alone
<1>9. BeenSince'
  BY <1>3, UnpickedIs DEF BeenSince
<1>10. LeverStep /\ DriverStep
  BY <1>2, <1>3 DEF LeverStep, DriverStep
<1> QED BY <1>6, <1>7, <1>8, <1>9, <1>10 DEF Keeps, IInv

LEMMA InitKeeps ==
  ASSUME Init
  PROVE  IInv
<1>1. PICK s, t \in Sources :
       panel = [program |-> s, preview |-> t, mix |-> {}, held |-> None, heldTies |-> FALSE,
                end |-> "top", key |-> FALSE, picked |-> << >>, last |-> [l \in Levers |-> None],
                driver |-> None]
  BY DEF Init
<1>2. panel \in PanelType /\ Unpicked(panel)
  BY <1>1, NoneIsPicked DEF PanelType, Unpicked
<1>3. Paneled(panel)
  BY <1>2, NoneIsPicked, PaneledIs DEF Unpicked
<1>4. TypeOK
  <2>1. IsInjective(panel.picked) /\ Len(panel.picked) <= TbarSources + 1
    BY <1>3 DEF Paneled, Levered
  <2>2. call \in [Calls -> CallType \cup {NoCall}] /\ been \in [Levers -> Places]
    BY DEF Init, Places
  <2>3. /\ engine = None /\ next \in NextType /\ running = FALSE /\ apart = {} /\ events = 0
        /\ used \in Uses
    BY DEF Init
  <2>4. 0 \in 0 .. MaxEvents
    BY PanelsAssumption
  <2> QED BY <1>2, <2>1, <2>2, <2>3, <2>4 DEF TypeOK, Places, ready
<1>5. Follow /\ Alone
  BY DEF Init, Follow, Alone, ready
<1>6. BeenSince
  BY <1>2, UnpickedIs DEF BeenSince
<1> QED BY <1>4, <1>5, <1>6 DEF IInv

LEMMA StutterKeeps ==
  ASSUME IInv, UNCHANGED vars
  PROVE  Keeps
<1> USE DEF vars
<1>1. TypeOK' /\ BeenSince'
  BY DEF IInv, TypeOK, BeenSince, ready
<1>2. Follow' /\ Alone'
  BY DEF IInv, Follow, Alone, ready, Quiet
<1>3. LeverStep /\ DriverStep
  BY DEF LeverStep, DriverStep
<1> QED BY <1>1, <1>2, <1>3 DEF Keeps, IInv

LEMMA NextKeeps ==
  ASSUME IInv, [Next]_vars
  PROVE  Keeps
<1>1. CASE \E c \in Calls : Operator(c) /\ Notes(None, 0) /\ used' = used
  BY <1>1, OperatorKeeps
<1>2. CASE \E c \in Calls : LET l == call[c].lever
                           IN Tell(c) /\ (IF l = None THEN Notes(None, 0) ELSE Notes(l.who, l.v))
                              /\ used' = used
  BY <1>2, TellKeeps
<1>3. CASE \E l \in Levers \cap used, v \in At : Hardware(l, v) /\ NotesLever(l, v) /\ used' = used
  BY <1>3, IgnoredKeeps, CountsKeeps DEF Hardware
<1>4. CASE Clock /\ Notes(None, 0) /\ used' = used
  BY <1>4, EngineKeeps, OffKeeps, ReadyKeeps DEF Clock
<1>5. CASE UNCHANGED vars
  BY <1>5, StutterKeeps
<1> QED BY <1>1, <1>2, <1>3, <1>4, <1>5 DEF Next

-----------------------------------------------------------------------------
(* The theorems *)

\* The invariant, and with it: with no call under way and nothing that parted
\* them, the engine is where the control plane says (EngineFollows), and what the
\* T-bar mixes on air is red.
LEMMA Follows ==
  ASSUME IInv
  PROVE  PanelInv /\ AirIsRed
<1>1. TypeOK /\ (ready /\ apart = {} /\ Quiet => Agree(panel, next, engine))
  BY DEF IInv, Follow
<1>2. EngineFollows
  BY <1>1 DEF EngineFollows, Agree
<1>3. AirIsRed
  BY <1>1 DEF AirIsRed, Agree, Red
<1> QED BY <1>1, <1>2, <1>3 DEF PanelInv

\* What sequence of calls, levers, stops and deaths of the engine ever went
\* before, the two MEs agree unless they parted for one of the Reasons, and both
\* are of their types.
THEOREM PanelHolds == Spec => []PanelInv
<1>1. Spec => []IInv
  <2>1. IInv /\ [Next]_vars => IInv'
    BY NextKeeps DEF Keeps
  <2> QED BY <2>1, InitKeeps, PTL DEF Spec
<1> QED BY <1>1, Follows, PTL

\* Both sources of a transition that the T-bar holds on air are red in the tally.
THEOREM AirHolds == Spec => []AirIsRed
<1>1. Spec => []IInv
  <2>1. IInv /\ [Next]_vars => IInv'
    BY NextKeeps DEF Keeps
  <2> QED BY <2>1, InitKeeps, PTL DEF Spec
<1> QED BY <1>1, Follows, PTL

\* A hardware lever starts nothing unless it moved since the T-bar's end changed.
THEOREM LeverHolds == Spec => LeverMoved
<1>1. IInv /\ [Next]_vars => IInv' /\ LeverStep
  BY NextKeeps DEF Keeps
<1>2. LeverStep => [LeverStep]_vars
  OBVIOUS
<1> QED BY <1>1, <1>2, InitKeeps, PTL DEF Spec, LeverMoved, LeverStep

\* Other levers never take a held transition from the one that drives it.
THEOREM DriverHolds == Spec => DriverKeepsCounting
<1>1. IInv /\ [Next]_vars => IInv' /\ DriverStep
  BY NextKeeps DEF Keeps
<1> QED BY <1>1, InitKeeps, PTL DEF Spec, DriverKeepsCounting, DriverStep

=============================================================================
