---------------------------- MODULE MixerProofs ----------------------------
(***************************************************************************)
(* Theorems about the mixer (Mixer), for any number of MEs, inputs and     *)
(* keyers and any bounds: its type invariant and the safety invariants of  *)
(* MixerProperties that hold whatever commands are called, and those of    *)
(* MCMixer that hold of an operator's use of it.                           *)
(*                                                                         *)
(* They follow from one inductive invariant, Inv: each ME's transition is  *)
(* well formed (MixSound), each keyer is sound and tied only to such a     *)
(* transition (Followed), and every source is one its ME may take, also    *)
(* those a thread carries from one critical section to the next (Carried). *)
(* First come lemmas on what every operation on a fade and on a keyer      *)
(* preserves (Keyer): the types, one driver of a keyer's gain, keyframes   *)
(* that exist, and its tie.                                                *)
(*                                                                         *)
(* Two more invariants rest on Inv: HandInv, what a thread has in its      *)
(* hands of the held takes, and UseInv, what each use keeps of the two     *)
(* sources an ME starts with and of its keyers' levels.                    *)
(***************************************************************************)
EXTENDS MCMixer, TLAPS, FiniteSetTheorems

(* A keyer of its type, moved by one thing at a time, to keyframes it has. *)
OneDriven(k) ==
  /\ k.tied /\ ~k.tie.atCut => ~(k.fade.pending \/ k.fade.running)
  /\ TiedFly(k) => ~Running(k)

(* The box of a keyer whose Auto is a fly runs. *)
Flies(k) == k.flying => Running(k)

HasTargets(k) ==
  /\ Running(k) => k.run.to < k.keyframes
  /\ TiedFly(k) => k.tie.target < k.keyframes

Sound(k) == k \in KeyerType /\ OneDriven(k) /\ HasTargets(k)

(* An operation that ties nothing: the tie stays as it was, or is gone.    *)
TiesNothing(new, k) == new.tied => k.tied /\ new.tie.atCut = k.tie.atCut

-----------------------------------------------------------------------------
(* A share of the way between two levels lies between them. *)
LEMMA BetweenType ==
  ASSUME NEW from \in 0 .. Full, NEW to \in 0 .. Full,
         NEW frames \in Nat \ {0}, NEW done \in 0 .. frames
  PROVE  Between(from, to, done, frames) \in 0 .. Full
<1>1. Full \in Nat
  BY FullAssumption
<1> DEFINE x == to - from
<1>2. CASE x >= 0
  <2>1. 0 <= x * done /\ x * done <= x * frames
    BY <1>2
  <2>2. (x * done) \div frames \in 0 .. x
    BY <2>1, <1>2
  <2> QED BY <2>2, <1>1 DEF Between
<1>3. CASE x < 0
  <2>1. x * frames <= x * done /\ x * done <= 0
    BY <1>3
  <2>2. (x * done) \div frames \in x .. 0
    BY <2>1, <1>3
  <2> QED BY <2>2, <1>1 DEF Between
<1> QED BY <1>2, <1>3

(* A scaled number of grains is at least one. *)
LEMMA ScaledType ==
  ASSUME NEW frames \in Nat, NEW part \in Nat
  PROVE  Scaled(frames, part) \in Nat \ {0}
  BY FullAssumption DEF Scaled

(* A level is a gain. *)
LEMMA LevelType == \A on \in BOOLEAN : Level(on) \in 0 .. Full
  BY FullAssumption DEF Level

(* A fade that holds has the type of fades and does not run. *)
LEMMA HeldType ==
  ASSUME NEW on \in BOOLEAN, NEW gain \in 0 .. Full
  PROVE  /\ Held(on, gain) \in FadeType
         /\ Held(on, gain).gain = gain /\ Held(on, gain).on = on
         /\ ~Held(on, gain).pending /\ ~Held(on, gain).running
  BY FullAssumption DEF Held, FadeType

(* A keyer and an ME start without a fade.                                 *)
LEMMA NoFadeType == NoFade \in FadeType
  BY FullAssumption DEF NoFade, Held, FadeType

(* A fade that is set holds.                                               *)
LEMMA FadeSetType ==
  ASSUME NEW on \in BOOLEAN
  PROVE  FadeSet(on) \in FadeType /\ ~FadeSet(on).pending /\ ~FadeSet(on).running
  BY HeldType, LevelType DEF FadeSet

(* An auto of a fade has the type of fades. *)
LEMMA FadeAutoType ==
  ASSUME NEW f \in FadeType, NEW frames \in Nat
  PROVE  FadeAuto(f, frames) \in FadeType
<1> DEFINE to == Level(~f.on)
           way == IF to > f.gain THEN to - f.gain ELSE f.gain - to
<1>1. to \in 0 .. Full /\ f.gain \in 0 .. Full /\ f.on \in BOOLEAN
  BY LevelType DEF FadeType
<1>2. way \in Nat
  BY <1>1, FullAssumption
<1>3. Scaled(frames, way) \in Nat \ {0}
  BY <1>2, ScaledType
<1>4. FadeAuto(f, frames) = [on |-> ~f.on, gain |-> f.gain, from |-> f.gain, to |-> to,
       frames |-> Scaled(frames, way), ran |-> 0, pending |-> TRUE, running |-> FALSE]
  BY DEF FadeAuto
<1> HIDE DEF to, way
<1> QED BY <1>1, <1>3, <1>4 DEF FadeType

(* A planned grain keeps a fade's type, and starts no fade. *)
LEMMA FadeAdvanceType ==
  ASSUME NEW f \in FadeType, NEW d \in Nat
  PROVE  /\ FadeAdvance(f, d) \in FadeType
         /\ ~(f.pending \/ f.running) => FadeAdvance(f, d) = f
<1> DEFINE ran == IF f.pending THEN 0 ELSE f.ran + d
<1>0. /\ ran \in Nat /\ f.on \in BOOLEAN /\ f.frames \in Nat \ {0}
      /\ f.from \in 0 .. Full /\ f.to \in 0 .. Full
  BY DEF FadeType
<1>1. CASE ~(f.pending \/ f.running)
  BY <1>1 DEF FadeAdvance
<1>2. CASE (f.pending \/ f.running) /\ ran + 1 >= f.frames
  <2>1. FadeAdvance(f, d) = Held(f.on, f.to)
    BY <1>2 DEF FadeAdvance
  <2> QED BY <2>1, <1>2, <1>0, HeldType
<1>3. CASE (f.pending \/ f.running) /\ ~(ran + 1 >= f.frames)
  <2> DEFINE gain == Between(f.from, f.to, ran + 1, f.frames)
  <2>1. FadeAdvance(f, d) = [on |-> f.on, gain |-> gain, from |-> f.from, to |-> f.to,
          frames |-> f.frames, ran |-> ran, pending |-> FALSE, running |-> TRUE]
    BY <1>3 DEF FadeAdvance
  <2> HIDE DEF ran
  <2>2. ran + 1 \in 0 .. f.frames
    BY <1>3, <1>0
  <2>3. gain \in 0 .. Full
    BY <1>0, <2>2, BetweenType
  <2> HIDE DEF gain
  <2> QED BY <2>1, <2>3, <1>0, <1>3 DEF FadeType
<1> QED BY <1>1, <1>2, <1>3

-----------------------------------------------------------------------------
(* A keyer's parts. *)
LEMMA NoRunType == NoRun \in RunType
  BY DEF NoRun, RunType

(* No tie is of the type of ties.                                          *)
LEMMA NoTieType == NoTie \in TieType
  BY FullAssumption DEF NoTie, TieType

(* A new keyer is sound, whether it can fly or not. *)
LEMMA NewKeyerSound ==
  NewKeyer \in KeyerType /\ Sound(NewKeyer) /\ Flies(NewKeyer) /\ ~NewKeyer.tied
<1>1. NewKeyer \in KeyerType
  BY NoFadeType, NoRunType, NoTieType DEF NewKeyer, KeyerType
<1> QED BY <1>1 DEF NewKeyer, Sound, OneDriven, HasTargets, TiedFly, Flies, Running, NoRun

(* Ending a run, and letting the keyer out of its tie. *)
LEMMA EndRunType ==
  ASSUME NEW k \in KeyerType
  PROVE  EndRun(k) \in KeyerType /\ ~Running(EndRun(k))
  BY NoRunType DEF EndRun, KeyerType, Running, NoRun

(* Letting the keyer out of its tie changes nothing else of it.            *)
LEMMA UntieSound ==
  ASSUME NEW k, Sound(k)
  PROVE  /\ Sound(Untie(k)) /\ ~Untie(k).tied
         /\ (Running(Untie(k)) <=> Running(k)) /\ (CanFly(Untie(k)) <=> CanFly(k))
         /\ Untie(k).fade = k.fade /\ Untie(k).keyframes = k.keyframes
         /\ Untie(k).flying = k.flying
<1>1. Untie(k) \in KeyerType
  BY NoTieType DEF Untie, Sound, KeyerType
<1>2. /\ ~Untie(k).tied /\ Untie(k).run = k.run /\ Untie(k).fade = k.fade /\ Untie(k).fly = k.fly
      /\ Untie(k).keyframes = k.keyframes /\ Untie(k).flying = k.flying
  BY DEF Untie, Sound, KeyerType
<1> QED BY <1>1, <1>2 DEF Sound, OneDriven, HasTargets, TiedFly, Running, CanFly

(* A new gain and state of a keyer: sound when the fade of a keyer that    *)
(* follows a transition does not run.                                      *)
LEMMA FadeSound ==
  ASSUME NEW k, Sound(k), NEW f \in FadeType,
         (k.tied /\ ~k.tie.atCut) => ~(f.pending \/ f.running)
  PROVE  /\ Sound([k EXCEPT !.fade = f])
         /\ TiesNothing([k EXCEPT !.fade = f], k)
         /\ Flies(k) => Flies([k EXCEPT !.fade = f])
<1> DEFINE new == [k EXCEPT !.fade = f]
<1>1. new \in KeyerType
  BY DEF Sound, KeyerType
<1>2. /\ new.fade = f /\ new.run = k.run /\ new.tied = k.tied /\ new.tie = k.tie /\ new.fly = k.fly
      /\ new.keyframes = k.keyframes /\ new.flying = k.flying
  BY DEF Sound, KeyerType
<1> HIDE DEF new
<1>3. Sound(new) /\ TiesNothing(new, k) /\ (Flies(k) => Flies(new))
  BY <1>1, <1>2 DEF Sound, OneDriven, HasTargets, TiedFly, Flies, Running, TiesNothing
<1> QED BY <1>3 DEF new

(* Stopping a run leaves none, and no tied fly. *)
LEMMA StopRunSound ==
  ASSUME NEW k, Sound(k)
  PROVE  /\ Sound(StopRun(k)) /\ ~Running(StopRun(k)) /\ ~TiedFly(StopRun(k))
         /\ ~StopRun(k).flying /\ TiesNothing(StopRun(k), k)
         /\ StopRun(k).keyframes = k.keyframes /\ StopRun(k).fly = k.fly
<1> DEFINE stays == ~On(k) /\ ((k.flying /\ Running(k)) \/ TiedFly(k))
           fade  == [k.fade EXCEPT !.on = @ \/ stays]
           end   == EndRun(k)
           halt  == [end EXCEPT !.fade = fade, !.flying = FALSE]
<1>1. fade \in FadeType /\ fade.pending = k.fade.pending /\ fade.running = k.fade.running
  BY DEF Sound, KeyerType, FadeType
<1>2. /\ end \in KeyerType /\ ~Running(end) /\ end.tied = k.tied /\ end.tie = k.tie
      /\ end.keyframes = k.keyframes /\ end.fly = k.fly /\ end.fade = k.fade
  BY EndRunType DEF Sound, EndRun, KeyerType
<1>3. halt = [EndRun(k) EXCEPT !.fade.on = @ \/ stays, !.flying = FALSE]
  BY <1>2 DEF KeyerType
<1> HIDE DEF stays, fade, end
<1>4. /\ halt \in KeyerType /\ ~Running(halt) /\ halt.tied = k.tied /\ halt.tie = k.tie
      /\ halt.keyframes = k.keyframes /\ halt.fly = k.fly /\ halt.fade = fade /\ ~halt.flying
  BY <1>1, <1>2 DEF KeyerType, Running
<1>5. StopRun(k) = IF TiedFly(k) THEN [Untie(halt) EXCEPT !.fade.gain = Full] ELSE halt
  BY <1>3 DEF StopRun, stays, fade, end
<1> HIDE DEF halt
<1>6. Sound(halt)
  BY <1>1, <1>4 DEF Sound, OneDriven, HasTargets, TiedFly
<1>7. CASE ~TiedFly(k)
  BY <1>4, <1>5, <1>6, <1>7 DEF TiedFly, TiesNothing
<1>8. CASE TiedFly(k)
  <2> DEFINE un == Untie(halt)
             up == [un.fade EXCEPT !.gain = Full]
  <2>1. /\ Sound(un) /\ ~un.tied /\ ~Running(un) /\ ~un.flying /\ un.keyframes = k.keyframes
        /\ un.fly = k.fly
    BY <1>4, <1>6, UntieSound DEF Untie, KeyerType
  <2>2. un.fade \in FadeType /\ up \in FadeType
    BY <2>1, FullAssumption DEF Sound, KeyerType, FadeType
  <2>3. StopRun(k) = [un EXCEPT !.fade = up]
    BY <1>5, <1>8, <2>1 DEF Sound, KeyerType
  <2> HIDE DEF un, up
  <2>4. Sound([un EXCEPT !.fade = up])
    BY <2>1, <2>2, FadeSound
  <2>5. /\ [un EXCEPT !.fade = up].tied = un.tied /\ [un EXCEPT !.fade = up].run = un.run
        /\ [un EXCEPT !.fade = up].flying = un.flying /\ [un EXCEPT !.fade = up].fly = un.fly
        /\ [un EXCEPT !.fade = up].keyframes = un.keyframes
    BY <2>1 DEF Sound, KeyerType
  <2> QED BY <2>1, <2>3, <2>4, <2>5 DEF Running, TiedFly, TiesNothing
<1> QED BY <1>7, <1>8

(* A run to a keyframe there is, of a keyer that no tied fly moves. *)
LEMMA StartRunSound ==
  ASSUME NEW k, Sound(k), ~TiedFly(k), NEW frames \in Nat, NEW j \in Nat, j < k.keyframes
  PROVE  /\ Sound(StartRun(k, j, frames)) /\ Running(StartRun(k, j, frames))
         /\ TiesNothing(StartRun(k, j, frames), k)
         /\ StartRun(k, j, frames).tied = k.tied /\ StartRun(k, j, frames).fade = k.fade
<1> DEFINE new == StartRun(k, j, frames)
<1>1. new \in KeyerType /\ new.run.to = j /\ new.run.pending
  BY DEF StartRun, Sound, KeyerType, RunType
<1>2. /\ new.fade = k.fade /\ new.tied = k.tied /\ new.tie = k.tie /\ new.fly = k.fly
      /\ new.keyframes = k.keyframes /\ new.flying = k.flying
  BY DEF StartRun, Sound, KeyerType
<1> HIDE DEF new
<1>3. Sound(new) /\ Running(new) /\ TiesNothing(new, k) /\ new.tied = k.tied /\ new.fade = k.fade
  BY <1>1, <1>2 DEF Sound, OneDriven, HasTargets, TiedFly, Running, TiesNothing
<1> QED BY <1>3 DEF new

(* A cut unties the keyer and stops its fade. *)
LEMMA CutKeySound ==
  ASSUME NEW k, Sound(k), NEW on \in BOOLEAN
  PROVE  /\ Sound(CutKey(k, on)) /\ ~CutKey(k, on).tied
         /\ Flies(k) => Flies(CutKey(k, on))
<1> DEFINE loose == IF CanFly(k) THEN StopRun(Untie(k)) ELSE Untie(k)
<1>1. Sound(loose) /\ ~loose.tied /\ (Flies(k) => Flies(loose))
  BY UntieSound, StopRunSound DEF TiesNothing, Flies
<1>2. CutKey(k, on) = [loose EXCEPT !.fade = FadeSet(on)]
  BY DEF CutKey
<1> HIDE DEF loose
<1>3. /\ Sound([loose EXCEPT !.fade = FadeSet(on)])
      /\ TiesNothing([loose EXCEPT !.fade = FadeSet(on)], loose)
      /\ Flies(loose) => Flies([loose EXCEPT !.fade = FadeSet(on)])
  BY <1>1, FadeSetType, FadeSound
<1> QED BY <1>1, <1>2, <1>3 DEF TiesNothing

(* A tied keyer follows: at the cut point of a stinger, or with t. *)
LEMMA TieStartSound ==
  ASSUME NEW k, Sound(k), NEW atCut \in BOOLEAN
  PROVE  /\ Sound(TieStart(k, atCut)) /\ TieStart(k, atCut).tied
         /\ TieStart(k, atCut).tie.atCut <=> atCut
         /\ Flies(k) => Flies(TieStart(k, atCut))
<1> DEFINE new == TieStart(k, atCut)
           on  == ~On(k)
           fly == CanFly(k)
<1>1. CASE atCut
  <2>1. [NoTie EXCEPT !.atCut = TRUE] \in TieType /\ [NoTie EXCEPT !.atCut = TRUE].atCut
    BY NoTieType DEF TieType
  <2>2. new = [k EXCEPT !.tied = TRUE, !.tie = [NoTie EXCEPT !.atCut = TRUE]]
    BY <1>1 DEF TieStart
  <2>3. /\ new \in KeyerType /\ new.tied /\ new.tie.atCut /\ new.run = k.run
        /\ new.flying = k.flying /\ new.keyframes = k.keyframes
    BY <2>1, <2>2 DEF Sound, KeyerType
  <2> QED BY <1>1, <2>3 DEF Sound, OneDriven, HasTargets, TiedFly, Flies, Running
<1>2. CASE ~atCut
  <2> DEFINE end  == EndRun(k)
             free == [end EXCEPT !.flying = FALSE, !.tied = TRUE]
             fade == Held(on, k.fade.gain)
             from == IF fly THEN 0 ELSE k.fade.gain
             to   == IF fly THEN 0 ELSE Level(on)
             target == IF fly THEN FlyTo(k, on) ELSE 0
             tie  == [atCut |-> FALSE, fly |-> fly, gain0 |-> k.fade.gain,
                      from |-> from, to |-> to, target |-> target]
  <2>1. /\ on \in BOOLEAN /\ fly \in BOOLEAN /\ k.fade.gain \in 0 .. Full
        /\ fade \in FadeType /\ ~fade.pending /\ ~fade.running
    BY HeldType DEF Sound, KeyerType, FadeType, On, CanFly
  <2>2. target \in Nat /\ (fly => target < k.keyframes)
    BY <2>1 DEF Sound, KeyerType, CanFly, FlyTo
  <2>3. from \in 0 .. Full /\ to \in 0 .. Full
    <3>1. Level(on) \in 0 .. Full
      BY <2>1, LevelType
    <3> QED BY <2>1, <3>1, FullAssumption
  <2>4. new = [free EXCEPT !.fade = fade, !.tie = tie]
    BY <1>2 DEF TieStart
  <2> HIDE DEF fly, from, to, target
  <2>9. tie \in TieType /\ tie.fly = fly /\ ~tie.atCut /\ tie.target = target
    BY <2>1, <2>2, <2>3 DEF TieType
  <2>5. end \in KeyerType /\ ~Running(end) /\ end.keyframes = k.keyframes
    BY EndRunType DEF Sound, EndRun, KeyerType
  <2> HIDE DEF end, fade, tie
  <2>6. /\ free \in KeyerType /\ ~free.flying /\ free.tied /\ ~Running(free)
        /\ free.keyframes = k.keyframes
    BY <2>5 DEF KeyerType, Running
  <2> HIDE DEF free, new
  <2>7. /\ new \in KeyerType /\ new.fade = fade /\ new.tie = tie /\ new.tied /\ ~new.flying
        /\ ~Running(new) /\ new.keyframes = k.keyframes
    BY <2>1, <2>9, <2>4, <2>6 DEF KeyerType, Running
  <2>8. Sound(new) /\ new.tied /\ ~new.tie.atCut
    BY <2>1, <2>2, <2>9, <2>7 DEF Sound, OneDriven, HasTargets, TiedFly
  <2> QED BY <1>2, <2>7, <2>8 DEF new, Flies
<1> QED BY <1>1, <1>2

(* A new gain of a keyer, its fade unchanged otherwise. *)
LEMMA GainSound ==
  ASSUME NEW k, Sound(k), NEW gain \in 0 .. Full
  PROVE  /\ Sound([k EXCEPT !.fade.gain = gain])
         /\ [k EXCEPT !.fade.gain = gain].tied = k.tied
         /\ [k EXCEPT !.fade.gain = gain].tie = k.tie
         /\ [k EXCEPT !.fade.gain = gain].flying = k.flying
         /\ [k EXCEPT !.fade.gain = gain].run = k.run
<1> DEFINE f == [k.fade EXCEPT !.gain = gain]
<1>1. f \in FadeType /\ f.pending = k.fade.pending /\ f.running = k.fade.running
  BY DEF Sound, KeyerType, FadeType
<1>2. [k EXCEPT !.fade.gain = gain] = [k EXCEPT !.fade = f]
  BY DEF Sound, KeyerType
<1> HIDE DEF f
<1>3. Sound([k EXCEPT !.fade = f])
  BY <1>1, FadeSound DEF Sound, OneDriven
<1> QED BY <1>2, <1>3 DEF Sound, KeyerType

(* A tied keyer that follows t stays tied.                                 *)
LEMMA TieAdvanceSound ==
  ASSUME NEW k, Sound(k), NEW t \in 0 .. Full
  PROVE  /\ Sound(TieAdvance(k, t)) /\ TieAdvance(k, t).tied = k.tied
         /\ TieAdvance(k, t).tie = k.tie /\ TieAdvance(k, t).run = k.run
         /\ TieAdvance(k, t).flying = k.flying
<1>1. k.tie.from \in 0 .. Full /\ k.tie.to \in 0 .. Full /\ Full \in Nat \ {0}
  BY FullAssumption DEF Sound, KeyerType, TieType
<1>2. Between(k.tie.from, k.tie.to, t, Full) \in 0 .. Full
  BY ONLY <1>1, t \in 0 .. Full, BetweenType
<1>3. Full \in 0 .. Full
  BY <1>1
<1> QED BY <1>2, <1>3, GainSound DEF TieAdvance

(* The end of a tie lets the keyer go. *)
LEMMA TieEndSound ==
  ASSUME NEW k, Sound(k), NEW complete \in BOOLEAN
  PROVE  /\ Sound(TieEnd(k, complete)) /\ ~TieEnd(k, complete).tied
         /\ Flies(k) => Flies(TieEnd(k, complete))
<1>1. CASE ~k.tied
  BY <1>1 DEF TieEnd
<1>2. CASE k.tied /\ k.tie.atCut
  <2>1. (~On(k)) \in BOOLEAN
    OBVIOUS
  <2> QED BY <1>2, <2>1, CutKeySound, UntieSound DEF TieEnd, Flies
<1>3. CASE k.tied /\ ~k.tie.atCut /\ ~complete
  <2> DEFINE f == [k.fade EXCEPT !.on = ~@, !.gain = k.tie.gain0]
             back == [k EXCEPT !.fade = f]
  <2>1. f \in FadeType /\ f.pending = k.fade.pending /\ f.running = k.fade.running
    BY DEF Sound, KeyerType, FadeType, TieType
  <2>2. [k EXCEPT !.fade.on = ~@, !.fade.gain = k.tie.gain0] = back
    BY DEF Sound, KeyerType
  <2> HIDE DEF f
  <2>3. Sound(back) /\ (Flies(k) => Flies(back))
    BY <2>1, <1>3, FadeSound DEF Sound, OneDriven
  <2>4. TieEnd(k, complete) = Untie(back)
    BY <1>3, <2>2 DEF TieEnd
  <2> HIDE DEF back
  <2> QED BY <2>3, <2>4, UntieSound DEF Flies
<1>4. CASE k.tied /\ ~k.tie.atCut /\ complete
  <2>1. CASE k.tie.fly /\ ~On(k)
    <3>1. TieEnd(k, complete) = Untie([k EXCEPT !.fade.gain = 0])
      BY <1>4, <2>1 DEF TieEnd
    <3>2. 0 \in 0 .. Full
      BY FullAssumption
    <3> DEFINE out == [k EXCEPT !.fade.gain = 0]
    <3>3. Sound(out) /\ (Flies(k) => Flies(out))
      BY <3>2, GainSound DEF Flies, Running
    <3>4. TieEnd(k, complete) = Untie(out)
      BY <3>1
    <3> HIDE DEF out
    <3> QED BY <3>3, <3>4, UntieSound DEF Flies
  <2>2. CASE ~(k.tie.fly /\ ~On(k))
    <3>1. TieEnd(k, complete) = Untie(TieAdvance(k, Full)) /\ Full \in 0 .. Full
      BY <1>4, <2>2, FullAssumption DEF TieEnd
    <3> QED BY <3>1, TieAdvanceSound, UntieSound DEF Flies, Running
  <2> QED BY <2>1, <2>2
<1> QED BY <1>1, <1>2, <1>3, <1>4

-----------------------------------------------------------------------------
(* The commands of a keyer. *)
LEMMA KeyAutoSound ==
  ASSUME NEW k, Sound(k), NEW frames \in Nat, NEW run \in Nat
  PROVE  /\ Sound(KeyAuto(k, frames, run)) /\ ~KeyAuto(k, frames, run).tied
         /\ Flies(k) => Flies(KeyAuto(k, frames, run))
<1> DEFINE loose == Untie(k)
           j     == FlyTo(k, ~On(k))
           fly   == StartRun(loose, j, run)
           f     == Held(~On(k), Full)
<1>1. /\ Sound(loose) /\ ~loose.tied /\ loose.fade \in FadeType /\ loose.keyframes = k.keyframes
      /\ Flies(k) => Flies(loose)
  BY UntieSound DEF Sound, KeyerType, Flies
<1>2. CASE CanFly(k)
  <2>1. j \in Nat /\ j < loose.keyframes
    BY <1>1, <1>2 DEF Sound, KeyerType, CanFly, FlyTo
  <2>2. KeyAuto(k, frames, run) = [[fly EXCEPT !.fade = f] EXCEPT !.flying = TRUE]
    BY <1>2 DEF KeyAuto
  <2>3. f \in FadeType /\ ~f.pending /\ ~f.running
    <3>1. (~On(k)) \in BOOLEAN /\ Full \in 0 .. Full
      BY FullAssumption
    <3> QED BY <3>1, HeldType
  <2> HIDE DEF loose, j, f
  <2>4. Sound(fly) /\ Running(fly) /\ ~fly.tied
    BY <1>1, <2>1, StartRunSound DEF TiedFly
  <2> HIDE DEF fly
  <2> DEFINE new == [fly EXCEPT !.fade = f]
  <2>5. Sound(new) /\ new.run = fly.run /\ new.tied = fly.tied
    BY <2>3, <2>4, FadeSound DEF Sound, KeyerType
  <2> HIDE DEF new
  <2> DEFINE out == [new EXCEPT !.flying = TRUE]
  <2>6. /\ out \in KeyerType /\ out.run = new.run /\ out.tied = new.tied /\ out.fade = new.fade
        /\ out.keyframes = new.keyframes /\ out.tie = new.tie
    BY <2>5 DEF Sound, KeyerType
  <2> HIDE DEF out
  <2>7. Sound(out) /\ ~out.tied /\ Flies(out)
    BY <2>4, <2>5, <2>6 DEF Sound, OneDriven, HasTargets, TiedFly, Flies, Running
  <2> QED BY <2>2, <2>7 DEF out, new
<1>3. CASE ~CanFly(k)
  <2>1. KeyAuto(k, frames, run) = [loose EXCEPT !.fade = FadeAuto(loose.fade, frames)]
    BY <1>3, <1>1 DEF KeyAuto, Sound, KeyerType
  <2>2. FadeAuto(loose.fade, frames) \in FadeType
    BY <1>1, FadeAutoType
  <2> HIDE DEF loose
  <2> QED BY <1>1, <2>1, <2>2, FadeSound DEF TiesNothing
<1> QED BY <1>2, <1>3

(* A change of the settings, also one that stops a run.                    *)
LEMMA KeySettingsSound ==
  ASSUME NEW k, Sound(k), NEW fly \in BOOLEAN, NEW moved \in BOOLEAN
  PROVE  /\ Sound(KeySettings(k, fly, moved)) /\ TiesNothing(KeySettings(k, fly, moved), k)
         /\ Flies(k) => Flies(KeySettings(k, fly, moved))
<1> DEFINE set == [k EXCEPT !.fly = fly]
<1>1. /\ set \in KeyerType /\ set.fade = k.fade /\ set.run = k.run /\ set.tied = k.tied
      /\ set.tie = k.tie /\ set.keyframes = k.keyframes /\ set.flying = k.flying
  BY DEF Sound, KeyerType
<1>2. KeySettings(k, fly, moved) = IF moved THEN StopRun(set) ELSE set
  BY DEF KeySettings
<1> HIDE DEF set
<1>3. Sound(set) /\ TiesNothing(set, k) /\ (Flies(k) => Flies(set))
  BY <1>1 DEF Sound, OneDriven, HasTargets, TiedFly, Flies, Running, TiesNothing
<1> QED BY <1>1, <1>2, <1>3, StopRunSound DEF TiesNothing, Flies

(* A new list of keyframes: no run goes to one of the old list.            *)
LEMMA KeyKeyframesSound ==
  ASSUME NEW k, Sound(k), NEW n \in Nat
  PROVE  /\ Sound(KeyKeyframes(k, n)) /\ TiesNothing(KeyKeyframes(k, n), k)
         /\ Flies(KeyKeyframes(k, n))
<1> DEFINE stop == StopRun(k)
           new  == [stop EXCEPT !.keyframes = n]
<1>1. Sound(stop) /\ ~Running(stop) /\ ~TiedFly(stop) /\ ~stop.flying /\ TiesNothing(stop, k)
  BY StopRunSound
<1> HIDE DEF stop
<1>2. /\ new \in KeyerType /\ new.fade = stop.fade /\ new.run = stop.run /\ new.tied = stop.tied
      /\ new.tie = stop.tie /\ new.flying = stop.flying
  BY <1>1 DEF Sound, KeyerType
<1> HIDE DEF new
<1>3. Sound(new) /\ TiesNothing(new, k) /\ Flies(new)
  BY <1>1, <1>2 DEF Sound, OneDriven, HasTargets, TiedFly, Flies, Running, TiesNothing
<1> QED BY <1>3 DEF new, stop, KeyKeyframes

(* A run, or a jump, to one of the keyframes.                              *)
LEMMA KeyRunSound ==
  ASSUME NEW k, Sound(k), NEW j \in Nat, j < k.keyframes, NEW frames \in Nat, NEW jump \in BOOLEAN
  PROVE  /\ Sound(KeyRun(k, j, frames, jump)) /\ TiesNothing(KeyRun(k, j, frames, jump), k)
         /\ Flies(KeyRun(k, j, frames, jump))
<1> DEFINE stop == StopRun(k)
<1>1. /\ Sound(stop) /\ ~TiedFly(stop) /\ TiesNothing(stop, k) /\ stop.keyframes = k.keyframes
      /\ Flies(stop)
  BY StopRunSound DEF Flies
<1>2. KeyRun(k, j, frames, jump) = IF jump THEN stop ELSE StartRun(stop, j, frames)
  BY DEF KeyRun
<1> HIDE DEF stop
<1> QED BY <1>1, <1>2, StartRunSound DEF TiesNothing, Flies

-----------------------------------------------------------------------------
(* A grain of a keyer.  First what its tie does.                           *)
LEMMA TiedSound ==
  ASSUME NEW k, Sound(k), NEW tie, tie.t \in 0 .. Full
  PROVE  /\ Sound(Tied(k, tie)) /\ TiesNothing(Tied(k, tie), k)
         /\ k.tied /\ (IF k.tie.atCut THEN tie.cut ELSE tie.back) => ~Tied(k, tie).tied
         /\ Flies(k) => Flies(Tied(k, tie))
<1>1. (~On(k)) \in BOOLEAN
  OBVIOUS
<1>2. CASE ~k.tied
  BY <1>2 DEF Tied, TiesNothing
<1>3. CASE k.tied /\ k.tie.atCut
  BY <1>1, <1>3, CutKeySound DEF Tied, TiesNothing
<1>4. CASE k.tied /\ ~k.tie.atCut
  BY <1>4, TieEndSound, TieAdvanceSound DEF Tied, TiesNothing, Flies, Running
<1> QED BY <1>2, <1>3, <1>4

(* A run that ends may leave `flying` to the end of the grain.             *)
LEMMA RunAdvanceSound ==
  ASSUME NEW k, Sound(k), NEW d \in Nat
  PROVE  /\ Sound(RunAdvance(k, d)) /\ TiesNothing(RunAdvance(k, d), k)
         /\ ~RunEnds(k, d) /\ Flies(k) => Flies(RunAdvance(k, d))
<1> DEFINE new == RunAdvance(k, d)
<1>1. CASE ~Running(k)
  BY <1>1 DEF RunAdvance, TiesNothing
<1>2. CASE RunEnds(k, d)
  <2>1. new = EndRun(k)
    BY <1>2 DEF RunAdvance, RunEnds
  <2>2. /\ EndRun(k) \in KeyerType /\ ~Running(EndRun(k)) /\ EndRun(k).fade = k.fade
        /\ EndRun(k).tied = k.tied /\ EndRun(k).tie = k.tie /\ EndRun(k).keyframes = k.keyframes
    BY EndRunType DEF Sound, EndRun, KeyerType
  <2> QED BY <1>2, <2>1, <2>2 DEF Sound, OneDriven, HasTargets, TiedFly, TiesNothing
<1>3. CASE Running(k) /\ ~RunEnds(k, d)
  <2> DEFINE ran == IF k.run.frames = 0 THEN 0 ELSE RunRan(k, d)
             run == [pending |-> FALSE, active |-> TRUE, to |-> k.run.to, frames |-> k.run.frames,
                     ran |-> ran]
  <2>1. ran \in Nat
    BY DEF RunRan, Sound, KeyerType, RunType
  <2>2. new = [k EXCEPT !.run = run]
    BY <1>3 DEF RunAdvance
  <2> HIDE DEF ran
  <2>3. run \in RunType /\ run.active /\ run.to = k.run.to
    BY <2>1 DEF Sound, KeyerType, RunType
  <2> HIDE DEF run
  <2>4. /\ new \in KeyerType /\ new.run = run /\ new.fade = k.fade /\ new.tied = k.tied
        /\ new.tie = k.tie /\ new.keyframes = k.keyframes
    BY <2>2, <2>3 DEF Sound, KeyerType
  <2> HIDE DEF new
  <2>5. Sound(new) /\ TiesNothing(new, k) /\ Running(new)
    BY <1>3, <2>3, <2>4 DEF Sound, OneDriven, HasTargets, TiedFly, Running, TiesNothing
  <2> QED BY <1>3, <2>5 DEF Flies, new
<1> QED BY <1>1, <1>2, <1>3

(* A grain of a keyer keeps it sound, ties nothing, and lets it go when    *)
(* its tie ends.                                                           *)
LEMMA KeyGrainSound ==
  ASSUME NEW k, Sound(k), NEW d \in Nat, NEW tie, tie.t \in 0 .. Full
  PROVE  /\ Sound(KeyGrain(k, tie, d)) /\ TiesNothing(KeyGrain(k, tie, d), k)
         /\ Flies(k) => Flies(KeyGrain(k, tie, d))
         /\ k.tied /\ (IF k.tie.atCut THEN tie.cut ELSE tie.back) => ~KeyGrain(k, tie, d).tied
         /\ TieEnds(k, tie) => ~KeyGrain(k, tie, d).tied
<1> DEFINE tied    == Tied(k, tie)
           f       == FadeAdvance(tied.fade, d)
           mid     == [tied EXCEPT !.fade = f]
           planned == RunAdvance(mid, d)
           left    == IF TieEnds(k, tie) THEN TieEnd(planned, TRUE) ELSE planned
           flewOff == left.flying /\ ~On(left)
           gain    == IF flewOff THEN 0 ELSE left.fade.gain
           new     == KeyGrain(k, tie, d)
           off     == [[left EXCEPT !.fade.gain = gain] EXCEPT !.flying = FALSE]
           lets    == k.tied /\ (IF k.tie.atCut THEN tie.cut ELSE tie.back)
<1>1. /\ Sound(tied) /\ TiesNothing(tied, k) /\ (Flies(k) => Flies(tied))
      /\ lets => ~tied.tied
  BY TiedSound
<1>2. planned = Planned(k, tie, d)
  BY <1>1 DEF Planned, Sound, KeyerType
<1>3. new = IF RunEnds(tied, d) THEN off ELSE left
  BY <1>2 DEF KeyGrain
<1> HIDE DEF tied, new, lets
<1>4. /\ f \in FadeType
      /\ (tied.tied /\ ~tied.tie.atCut) => ~(f.pending \/ f.running)
  BY <1>1, FadeAdvanceType DEF Sound, OneDriven, KeyerType
<1> HIDE DEF f
<1>5. /\ Sound(mid) /\ TiesNothing(mid, tied) /\ (Flies(tied) => Flies(mid))
      /\ mid.run = tied.run
  BY <1>1, <1>4, FadeSound DEF Sound, KeyerType
<1>6. RunEnds(mid, d) <=> RunEnds(tied, d)
  BY <1>5 DEF RunEnds, RunRan, Running
<1> HIDE DEF mid
<1>7. /\ Sound(planned) /\ TiesNothing(planned, mid)
      /\ ~RunEnds(tied, d) /\ Flies(mid) => Flies(planned)
  BY <1>5, <1>6, RunAdvanceSound
<1> HIDE DEF planned
<1>8. /\ Sound(left) /\ TiesNothing(left, planned) /\ (TieEnds(k, tie) => ~left.tied)
      /\ Flies(planned) => Flies(left)
  BY <1>7, TieEndSound DEF TiesNothing
<1>9. TiesNothing(left, k) /\ (lets => ~left.tied)
  BY <1>1, <1>5, <1>7, <1>8 DEF TiesNothing
<1> HIDE DEF left
<1>10. gain \in 0 .. Full
  <2>1. left.fade.gain \in 0 .. Full /\ 0 \in 0 .. Full
    BY <1>8, FullAssumption DEF Sound, KeyerType, FadeType
  <2> HIDE DEF flewOff
  <2> QED BY <2>1
<1> HIDE DEF gain
<1>11. Sound(off) /\ ~off.flying /\ off.tied = left.tied /\ off.tie = left.tie
  <2> DEFINE set == [left EXCEPT !.fade.gain = gain]
  <2>1. Sound(set) /\ set.tied = left.tied /\ set.tie = left.tie
    BY <1>8, <1>10, GainSound
  <2> HIDE DEF set
  <2> DEFINE end == [set EXCEPT !.flying = FALSE]
  <2>2. /\ end \in KeyerType /\ ~end.flying /\ end.tied = set.tied /\ end.tie = set.tie
        /\ end.run = set.run /\ end.fade = set.fade /\ end.keyframes = set.keyframes
    BY <2>1 DEF Sound, KeyerType
  <2> HIDE DEF end
  <2>3. Sound(end)
    BY <2>1, <2>2 DEF Sound, OneDriven, HasTargets, TiedFly, Running
  <2> QED BY <2>1, <2>2, <2>3 DEF end, set
<1> HIDE DEF off
<1>12. /\ Sound(new) /\ TiesNothing(new, k) /\ (lets => ~new.tied)
       /\ (TieEnds(k, tie) => ~new.tied) /\ (Flies(k) => Flies(new))
  BY <1>1, <1>3, <1>5, <1>7, <1>8, <1>9, <1>11 DEF TiesNothing, Flies
<1> QED BY <1>12 DEF new, lets

-----------------------------------------------------------------------------
(* The mixer. *)

(* The shape of a transition: it waits or runs, not both; the T-bar holds  *)
(* a running mix; one that is none has no stinger; and its time.           *)
MixSound(x) ==
  /\ x \in MixType
  /\ ~(x.pending /\ x.mixing)
  /\ x.manual => x.mixing /\ x.sting.player = 0
  /\ ~(x.pending \/ x.mixing) => x.sting.player = 0
  /\ x.mixing /\ ~x.manual => x.ran + 1 < x.frames
  /\ x.waiting => x.pending /\ x.ran < StingerWait

(* The sources of ME m's buses and transition are ones it may take. *)
Shows(m, s) ==
  /\ RendersAfter(m, s.program) /\ RendersAfter(m, s.preview)
  /\ RendersAfter(m, s.mix.target) /\ RendersAfter(m, s.mix.after)

MeSound(m, s) == s \in MeType /\ MixSound(s.mix) /\ Shows(m, s)

(* A tied keyer k has a transition to follow in the ME s.                  *)
Followed(k, s) ==
  k.tied => Busy(s) /\ (k.tie.atCut <=> s.mix.sting.player > 0)

KeySound(k, s) == Sound(k) /\ Flies(k) /\ Followed(k, s)

(* A take that ME m may make. *)
TakeSound(m, tk) ==
  /\ tk \in TakeType
  /\ RendersAfter(m, tk.target) /\ RendersAfter(m, tk.preview)

PlanSound(m, p) ==
  /\ p \in PlanType
  /\ RendersAfter(m, p.a) /\ RendersAfter(m, p.b)

(* What the control thread carries from a call's first section to its      *)
(* second.                                                                 *)
Carried ==
  /\ seen \in SeenType
  /\ pc["control"] \in {"cut", "auto"} =>
       /\ seen.me \in Mes /\ seen.program \in Source /\ seen.preview \in Source
       /\ RendersAfter(seen.me, seen.program) /\ RendersAfter(seen.me, seen.preview)
  /\ pc["control"] = "scrub" => seen.me \in Mes

MesInv   == me \in [Mes -> MeType] /\ \A m \in Mes : MeSound(m, me[m])
KeysInv  == key \in [Keys -> KeyerType] /\ \A k \in Keys : KeySound(key[k], me[KeyMe[k]])
FtbInv   == ftb \in [Mes -> FadeType]
SourceInv == /\ keySource \in [Keys -> Source \cup {NoSource}]
             /\ \A k \in Keys : RendersAfter(KeyMe[k], keySource[k])
HeldInv  == /\ held \in [Mes -> [in : Nat, take : TakeType \cup {NoTake}]]
            /\ \A m \in Mes : held[m].take # NoTake => TakeSound(m, held[m].take)
DueInv   == /\ due \in [Threads -> [Mes -> TakeType \cup {NoTake}]]
            /\ \A th \in Threads, m \in Mes : due[th][m] # NoTake => TakeSound(m, due[th][m])
PlanInv  == /\ plan \in [Mes -> PlanType]
            /\ \A m \in Mes : PlanSound(m, plan[m])
PcInv    == /\ pc \in [Threads -> {"idle", "held", "made", "cut", "auto", "scrub"}]
            /\ grain \in 0 .. MaxStep

Inv == MesInv /\ KeysInv /\ FtbInv /\ SourceInv /\ HeldInv /\ DueInv /\ PlanInv /\ PcInv /\ Carried

-----------------------------------------------------------------------------
(* Sources, and the settings a run starts with. *)
LEMMA SourceFacts ==
  /\ Black \in Source /\ \A m : RendersAfter(m, Black)
  /\ \A m : RendersAfter(m, NoSource)
  /\ \A m : \A s \in Allowed(m) : s \in Source /\ RendersAfter(m, s)
  BY DEF Source, Black, NoSource, RendersAfter, Allowed

(* The buses an ME starts with.                                            *)
LEMMA FirstBusSource ==
  ASSUME NEW n \in Int
  PROVE  FirstBus(n) \in Source /\ \A m : RendersAfter(m, FirstBus(n))
<1>1. CASE InputCount = 0
  BY <1>1, SourceFacts DEF FirstBus
<1>2. CASE InputCount # 0
  <2>1. (n % InputCount) + 1 \in 1 .. InputCount
    BY <1>2, MixerAssumption
  <2>2. FirstBus(n) = <<"input", (n % InputCount) + 1>>
    BY <1>2 DEF FirstBus
  <2> QED BY <2>1, <2>2 DEF Source, RendersAfter
<1> QED BY <1>1, <1>2

(* An ME without a transition.                                             *)
LEMMA NoMixSound == MixSound(NoMix)
<1>1. NoMix \in MixType
  BY SourceFacts, FullAssumption DEF NoMix, MixType, NoSting, StingType
<1> QED BY <1>1 DEF MixSound, NoMix, NoSting

(* A rest, and the end of a transition, of an ME whatever the transition's *)
(* time is. *)
LEMMA RestSound ==
  ASSUME NEW m \in Mes, NEW s \in MeType, Shows(m, s)
  PROVE  /\ MeSound(m, Rest(s)) /\ ~Busy(Rest(s)) /\ Rest(s).next = s.next
         /\ Rest(s).program = s.program /\ Rest(s).preview = s.preview
<1>1. /\ Rest(s) \in MeType /\ Rest(s).mix = NoMix /\ Rest(s).program = s.program
      /\ Rest(s).preview = s.preview /\ Rest(s).next = s.next
  BY NoMixSound DEF Rest, MeType, MixSound
<1>2. ~Busy(Rest(s)) /\ Shows(m, Rest(s))
  BY <1>1, SourceFacts DEF Busy, NoMix, Shows
<1> QED BY <1>1, <1>2, NoMixSound DEF MeSound

(* The end puts the target on Program. *)
LEMMA FinishMixSound ==
  ASSUME NEW m \in Mes, NEW s \in MeType, Shows(m, s)
  PROVE  /\ MeSound(m, FinishMix(s)) /\ ~Busy(FinishMix(s))
         /\ Busy(s) => FinishMix(s).program = s.mix.target
<1> DEFINE preview == IF s.mix.after = NoSource THEN s.preview ELSE s.mix.after
           swapped == [s EXCEPT !.program = s.mix.target, !.preview = preview]
<1>1. /\ s.mix.target \in Source /\ RendersAfter(m, s.mix.target)
      /\ preview \in Source /\ RendersAfter(m, preview)
  BY DEF MeType, MixType, Shows
<1>2. FinishMix(s) = IF Busy(s) THEN Rest(swapped) ELSE Rest(s)
  BY DEF FinishMix, MeType
<1> HIDE DEF preview
<1>3. /\ swapped \in MeType /\ swapped.mix = s.mix /\ swapped.program = s.mix.target
      /\ swapped.preview = preview
  BY <1>1 DEF MeType
<1> HIDE DEF swapped
<1>4. Shows(m, swapped)
  BY <1>1, <1>3 DEF Shows
<1> QED BY <1>2, <1>3, <1>4, RestSound

-----------------------------------------------------------------------------
(* A take leaves a sound ME: at rest, or with its transition to come.      *)
LEMMA TakeMeSound ==
  ASSUME NEW m \in Mes, NEW s, MeSound(m, s), NEW tk, TakeSound(m, tk)
  PROVE  /\ MeSound(m, TakeMe(s, tk))
         /\ ~IsImmediate(tk) =>
              /\ Busy(TakeMe(s, tk))
              /\ IsStinger(tk) <=> TakeMe(s, tk).mix.sting.player > 0
<1> DEFINE f == FinishMix(s)
           new == TakeMe(s, tk)
<1>1. MeSound(m, f)
  BY FinishMixSound DEF MeSound
<1>2. /\ tk.target \in Source /\ tk.preview \in Source \cup {NoSource} /\ tk.frames \in Nat
      /\ tk.sting \in StingType
      /\ tk.type \in {"cut", "mix", "stinger"}
  BY DEF TakeSound, TakeType
<1>3. CASE IsImmediate(tk)
  <2> DEFINE preview == IF tk.preview = NoSource THEN f.preview ELSE tk.preview
  <2>1. preview \in Source /\ RendersAfter(m, preview)
    BY <1>1, <1>2 DEF TakeSound, MeSound, MeType, Shows
  <2>2. new = [f EXCEPT !.program = tk.target, !.preview = preview]
    BY <1>1, <1>3 DEF TakeMe, MeSound, MeType
  <2> HIDE DEF f, preview
  <2>3. /\ new \in MeType /\ new.mix = f.mix /\ new.program = tk.target /\ new.preview = preview
    BY <1>1, <1>2, <2>1, <2>2 DEF MeSound, MeType
  <2> HIDE DEF new
  <2>4. MeSound(m, new)
    BY <1>1, <2>1, <2>3 DEF MeSound, Shows, TakeSound
  <2> QED BY <1>3, <2>4 DEF new
<1>4. CASE ~IsImmediate(tk)
  <2> DEFINE frames == IF IsStinger(tk) THEN tk.sting.frames ELSE tk.frames
             sting  == IF IsStinger(tk) THEN [tk.sting EXCEPT !.cut = Clamp(@, 0, tk.sting.frames)]
                       ELSE NoSting
             mix    == Coming(tk)
             part   == [NoMix EXCEPT !.target = tk.target, !.after = tk.preview, !.pending = TRUE]
  <2>1. frames \in Nat \ {0} /\ tk.sting.player \in Nat
    BY <1>2, <1>4 DEF IsImmediate, IsStinger, StingType
  <2>2. sting \in StingType /\ (IsStinger(tk) <=> sting.player > 0)
    <3>1. Clamp(tk.sting.cut, 0, tk.sting.frames) \in Int
      BY <1>2 DEF Clamp, StingType
    <3>2. CASE IsStinger(tk)
      <4>1. sting = [tk.sting EXCEPT !.cut = Clamp(tk.sting.cut, 0, tk.sting.frames)]
        BY <1>2, <3>2 DEF StingType
      <4> QED BY <1>2, <3>1, <3>2, <4>1 DEF StingType, IsStinger
    <3>3. CASE ~IsStinger(tk)
      BY <3>3 DEF NoSting, StingType
    <3> QED BY <3>2, <3>3
  <2>3. new = [f EXCEPT !.mix = mix]
    BY <1>4 DEF TakeMe
  <2> HIDE DEF frames, sting
  <2>4. /\ mix \in MixType /\ mix.pending /\ ~mix.mixing /\ ~mix.manual /\ ~mix.waiting
        /\ mix.target = tk.target /\ mix.after = tk.preview /\ mix.sting = sting
    <3>1. /\ part \in MixType /\ part.pending /\ ~part.mixing /\ ~part.manual /\ ~part.waiting
          /\ part.target = tk.target /\ part.after = tk.preview
      BY <1>2, NoMixSound DEF MixType, MixSound, NoMix
    <3>2. mix = [part EXCEPT !.frames = frames, !.sting = sting]
      BY DEF Coming, frames, sting
    <3> HIDE DEF part, mix
    <3> QED BY <2>1, <2>2, <3>1, <3>2 DEF MixType
  <2> HIDE DEF f, mix
  <2>5. /\ new \in MeType /\ new.mix = mix /\ new.program = f.program /\ new.preview = f.preview
    BY <1>1, <2>3, <2>4 DEF MeSound, MeType
  <2> HIDE DEF new
  <2>6. MixSound(mix)
    BY <2>4 DEF MixSound
  <2>7. MeSound(m, new) /\ Busy(new) /\ (IsStinger(tk) <=> new.mix.sting.player > 0)
    BY <1>1, <2>2, <2>4, <2>5, <2>6 DEF MeSound, Shows, TakeSound, Busy
  <2> QED BY <2>7 DEF new
<1> QED BY <1>3, <1>4

(* ... and its keyers follow what it left. *)
LEMMA TakeKeySound ==
  ASSUME NEW m \in Mes, NEW s, MeSound(m, s), NEW tk, TakeSound(m, tk),
         NEW k, KeySound(k, s), NEW tied \in BOOLEAN
  PROVE  KeySound(TakeKey(k, tk, tied), TakeMe(s, tk))
<1> DEFINE e == TieEnd(k, TRUE)
<1>1. Sound(e) /\ Flies(e) /\ ~e.tied
  BY TieEndSound DEF KeySound
<1>2. /\ (~On(e)) \in BOOLEAN /\ IsStinger(tk) \in BOOLEAN /\ tk.ties \in BOOLEAN
  BY DEF IsStinger, TakeSound, TakeType
<1>3. TakeKey(k, tk, tied) = IF ~(tk.ties /\ tied) THEN e
                             ELSE IF IsImmediate(tk) THEN CutKey(e, ~On(e))
                             ELSE TieStart(e, IsStinger(tk))
  BY DEF TakeKey
<1> HIDE DEF e
<1>4. CASE ~(tk.ties /\ tied)
  BY <1>1, <1>3, <1>4 DEF KeySound, Followed
<1>5. CASE tk.ties /\ tied /\ IsImmediate(tk)
  BY <1>1, <1>2, <1>3, <1>5, CutKeySound DEF KeySound, Followed
<1>6. CASE tk.ties /\ tied /\ ~IsImmediate(tk)
  BY <1>1, <1>2, <1>3, <1>6, TieStartSound, TakeMeSound DEF KeySound, Followed
<1> QED BY <1>4, <1>5, <1>6

-----------------------------------------------------------------------------
(* A transition the grain has reached: well formed but for its time, which *)
(* the end of the grain looks at.                                          *)
MixReached(x) ==
  /\ x \in MixType
  /\ ~(x.pending /\ x.mixing)
  /\ x.manual => x.mixing /\ x.sting.player = 0
  /\ ~(x.pending \/ x.mixing) => x.sting.player = 0
  /\ x.pending => x.waiting /\ x.sting.player > 0
  /\ x.waiting => x.pending /\ x.ran < StingerWait

(* Waiting, starting or going on, it stays the transition it was.          *)
LEMMA ReachedSound ==
  ASSUME NEW x, MixSound(x), NEW d \in Nat, NEW ready, ~GivesUp(x, d, ready)
  PROVE  /\ MixReached(Reached(x, d, ready))
         /\ Reached(x, d, ready).target = x.target /\ Reached(x, d, ready).after = x.after
         /\ Reached(x, d, ready).sting = x.sting
         /\ Reached(x, d, ready).pending \/ Reached(x, d, ready).mixing <=> x.pending \/ x.mixing
<1> DEFINE new == Reached(x, d, ready)
<1>0. /\ x \in MixType /\ x.pending \in BOOLEAN /\ x.mixing \in BOOLEAN /\ x.ran \in Nat
      /\ x.sting.player \in Nat /\ StingerWait \in Nat
  BY MixerAssumption DEF MixSound, MixType, StingType
<1>1. CASE Waits(x, ready)
  <2>1. Waited(x, d) \in Nat /\ Waited(x, d) < StingerWait
    BY <1>0, <1>1 DEF GivesUp, Waited
  <2>2. new = [x EXCEPT !.waiting = TRUE, !.ran = Waited(x, d)]
    BY <1>1 DEF Reached
  <2>3. /\ new \in MixType /\ new.waiting /\ new.ran = Waited(x, d) /\ new.pending = x.pending
        /\ new.mixing = x.mixing /\ new.manual = x.manual /\ new.sting = x.sting
        /\ new.target = x.target /\ new.after = x.after
    BY <1>0, <2>1, <2>2 DEF MixType
  <2> HIDE DEF new
  <2>4. MixReached(new)
    BY <1>1, <2>1, <2>3 DEF MixReached, MixSound, Waits
  <2> QED BY <2>3, <2>4 DEF new
<1>2. CASE ~Waits(x, ready) /\ x.pending
  <2> DEFINE part == [x EXCEPT !.pending = FALSE, !.mixing = TRUE]
  <2>1. /\ part \in MixType /\ ~part.pending /\ part.mixing /\ part.manual = x.manual
        /\ part.sting = x.sting /\ part.target = x.target /\ part.after = x.after
    BY <1>0 DEF MixType
  <2>2. new = [part EXCEPT !.waiting = FALSE, !.ran = 0]
    BY <1>2 DEF Reached
  <2> HIDE DEF part, new
  <2>3. /\ new \in MixType /\ ~new.pending /\ new.mixing /\ new.manual = x.manual /\ ~new.waiting
        /\ new.sting = x.sting /\ new.target = x.target /\ new.after = x.after
    BY <2>1, <2>2 DEF MixType
  <2>4. MixReached(new)
    BY <1>2, <2>3 DEF MixReached, MixSound
  <2> QED BY <1>2, <2>3, <2>4 DEF new
<1>3. CASE ~x.pending /\ x.mixing /\ ~x.manual
  <2>1. new = [x EXCEPT !.ran = x.ran + d]
    BY <1>0, <1>3 DEF Reached, Waits, MixType
  <2>2. /\ new \in MixType /\ new.pending = x.pending /\ new.mixing = x.mixing
        /\ new.manual = x.manual /\ new.waiting = x.waiting /\ new.sting = x.sting
        /\ new.target = x.target /\ new.after = x.after
    BY <1>0, <2>1 DEF MixType
  <2> HIDE DEF new
  <2>3. MixReached(new)
    BY <1>3, <2>2 DEF MixReached, MixSound
  <2> QED BY <2>2, <2>3 DEF new
<1>4. CASE ~x.pending /\ ~(x.mixing /\ ~x.manual)
  <2>1. new = x
    BY <1>4 DEF Reached, Waits
  <2> QED BY <1>4, <2>1 DEF MixReached, MixSound
<1> QED BY <1>1, <1>2, <1>3, <1>4

(* An ME in a grain: s once the grain came, and what it leaves. *)
MeReached(m, s) == s \in MeType /\ MixReached(s.mix) /\ Shows(m, s)

(* A stinger that is given up has ended, any other transition goes on.     *)
LEMMA StartedSound ==
  ASSUME NEW m \in Mes, NEW s, MeSound(m, s), NEW d \in Nat, NEW ready
  PROVE  /\ MeReached(m, Started(s, d, ready))
         /\ GivesUp(s.mix, d, ready) => ~Busy(Started(s, d, ready)) /\ s.mix.sting.player > 0
         /\ ~GivesUp(s.mix, d, ready) =>
              /\ Busy(Started(s, d, ready)) <=> Busy(s)
              /\ Started(s, d, ready).mix.sting = s.mix.sting
<1> DEFINE new == Started(s, d, ready)
           x   == Reached(s.mix, d, ready)
<1>1. CASE GivesUp(s.mix, d, ready)
  <2>1. new = FinishMix(s)
    BY <1>1 DEF Started
  <2>2. MeSound(m, new) /\ ~Busy(new)
    BY <2>1, FinishMixSound DEF MeSound
  <2> HIDE DEF new
  <2>3. MeReached(m, new)
    BY <2>2 DEF MeReached, MeSound, MixReached, MixSound, Busy
  <2> QED BY <1>1, <2>2, <2>3 DEF new, GivesUp, Waits
<1>2. CASE ~GivesUp(s.mix, d, ready)
  <2>1. new = [s EXCEPT !.mix = x]
    BY <1>2 DEF Started
  <2>2. /\ MixReached(x) /\ x.target = s.mix.target /\ x.after = s.mix.after /\ x.sting = s.mix.sting
        /\ x.pending \/ x.mixing <=> s.mix.pending \/ s.mix.mixing
    BY <1>2, ReachedSound DEF MeSound
  <2> HIDE DEF x
  <2>3. /\ new \in MeType /\ new.mix = x /\ new.program = s.program /\ new.preview = s.preview
    BY <2>1, <2>2 DEF MeSound, MeType, MixReached
  <2> HIDE DEF new
  <2>4. MeReached(m, new) /\ (Busy(new) <=> Busy(s)) /\ new.mix.sting = s.mix.sting
    BY <2>2, <2>3 DEF MeReached, MeSound, Shows, Busy
  <2> QED BY <1>2, <2>4 DEF new
<1> QED BY <1>1, <1>2

(* The t a grain shows, and starts from, is a position of the T-bar; the   *)
(* last grain of a mix shows the target in full.                           *)
LEMMA ShownType ==
  ASSUME NEW x, MixReached(x)
  PROVE  /\ ShownT(x) \in 0 .. Full /\ PrevT(x) \in 0 .. Full
         /\ Fading(x) /\ FadeStep(x) >= x.frames => ShownT(x) = Full
<1>0. /\ x.from \in 0 .. Full /\ x.t \in 0 .. Full /\ x.tLast \in 0 .. Full /\ x.ran \in Nat
      /\ x.frames \in Nat \ {0} /\ Full \in Nat \ {0} /\ Full \in 0 .. Full /\ 0 \in 0 .. Full
  BY FullAssumption DEF MixReached, MixType
<1>1. FadeStep(x) \in 0 .. x.frames /\ FadeStep(x) - 1 \in 0 .. x.frames
  BY <1>0 DEF FadeStep
<1>2. /\ Between(x.from, Full, FadeStep(x), x.frames) \in 0 .. Full
      /\ Between(x.from, Full, FadeStep(x) - 1, x.frames) \in 0 .. Full
  BY <1>0, <1>1, BetweenType
<1>3. ASSUME FadeStep(x) >= x.frames
      PROVE  Between(x.from, Full, FadeStep(x), x.frames) = Full
  <2>1. FadeStep(x) = x.frames
    BY <1>0, <1>1, <1>3
  <2>2. ((Full - x.from) * x.frames) \div x.frames = Full - x.from
    BY <1>0
  <2> QED BY <1>0, <2>1, <2>2 DEF Between
<1> QED BY <1>0, <1>2, <1>3 DEF ShownT, PrevT, Fading, Scrubbing

(* What a grain leaves of a transition it does not end. *)
LEMMA GoesOn ==
  ASSUME NEW m \in Mes, NEW s, MeReached(m, s), ~Completes(s.mix), ~GoesBack(s.mix)
  PROVE  /\ MeSound(m, Planned1(s)) /\ (Busy(Planned1(s)) <=> Busy(s))
         /\ Planned1(s).mix.sting = s.mix.sting /\ Planned1(s).program = s.program
<1> DEFINE x == s.mix
           new == Planned1(s)
           y == IF Scrubbing(x) THEN [x EXCEPT !.tLast = x.t] ELSE x
<1>1. new = [s EXCEPT !.mix = y]
  BY DEF Planned1, MeReached, MeType
<1>2. x \in MixType /\ MixReached(x)
  BY DEF MeReached, MixReached
<1>3. /\ y \in MixType /\ y.pending = x.pending /\ y.mixing = x.mixing /\ y.manual = x.manual
      /\ y.sting = x.sting /\ y.ran = x.ran /\ y.frames = x.frames /\ y.waiting = x.waiting
      /\ y.target = x.target /\ y.after = x.after
  BY <1>2 DEF MixType
<1>4. x.mixing /\ ~x.manual => x.ran + 1 < x.frames
  <2>1. x.ran \in Nat /\ x.frames \in Nat \ {0} /\ x.sting.player \in Nat
    BY <1>2 DEF MixType, StingType
  <2> QED BY <2>1 DEF Completes, Stinging, Fading, StingFrame, FadeStep
<1> HIDE DEF y
<1>5. MixSound(y)
  BY <1>2, <1>3, <1>4 DEF MixSound, MixReached
<1>6. /\ new \in MeType /\ new.mix = y /\ new.program = s.program /\ new.preview = s.preview
  BY <1>1, <1>3 DEF MeReached, MeType
<1> HIDE DEF new
<1>7. MeSound(m, new) /\ (Busy(new) <=> Busy(s)) /\ new.mix.sting = s.mix.sting
  BY <1>3, <1>5, <1>6 DEF MeSound, MeReached, Shows, Busy
<1> QED BY <1>6, <1>7 DEF new

(* A planned grain of an ME: sound, and left on the picture it showed.     *)
LEMMA MeGrainSound ==
  ASSUME NEW m \in Mes, NEW s, MeReached(m, s)
  PROVE  /\ MeSound(m, Planned1(s)) /\ PlanSound(m, MePlan(s))
         /\ ~Busy(Planned1(s)) =>
              Planned1(s).program = IF MePlan(s).t = Full \/ MePlan(s).stinger
                                    THEN MePlan(s).b ELSE MePlan(s).a
<1> DEFINE x == s.mix
           p == MePlan(s)
<1>0. /\ MixReached(x) /\ x \in MixType /\ x.mixing \in BOOLEAN /\ x.t \in 0 .. Full
      /\ Full \in Nat \ {0} /\ s.program \in Source /\ s.preview \in Source /\ x.target \in Source
  BY FullAssumption DEF MeReached, MixReached, MeType, MixType
<1>1. /\ ShownT(x) \in 0 .. Full /\ PrevT(x) \in 0 .. Full
      /\ Fading(x) /\ FadeStep(x) >= x.frames => ShownT(x) = Full
  BY <1>0, ShownType
<1>2. /\ p.a = s.program /\ p.t = ShownT(x) /\ (p.stinger <=> Stinging(x))
      /\ p.b = IF x.mixing THEN x.target ELSE s.preview
      /\ p \in PlanType
  <2>1. Stinging(x) \in BOOLEAN
    BY DEF Stinging
  <2> QED BY <1>0, <1>1, <2>1 DEF MePlan, PlanType
<1>3. PlanSound(m, p)
  BY <1>2 DEF PlanSound, MeReached, Shows
<1>4. CASE Completes(x)
  <2>1. Planned1(s) = FinishMix(s)
    BY <1>4 DEF Planned1
  <2>2. x.mixing /\ (ShownT(x) = Full \/ Stinging(x))
    BY <1>0, <1>1, <1>4 DEF Completes, Scrubbing, Stinging, Fading, ShownT
  <2>3. MeSound(m, FinishMix(s)) /\ FinishMix(s).program = x.target
    BY <2>2, FinishMixSound DEF Busy, MeReached
  <2> HIDE DEF p
  <2> QED BY <1>2, <1>3, <2>1, <2>2, <2>3 DEF p
<1>5. CASE ~Completes(x) /\ GoesBack(x)
  <2>1. Planned1(s) = Rest(s)
    BY <1>5 DEF Planned1
  <2>2. ShownT(x) = 0 /\ ~Stinging(x)
    BY <1>0, <1>5 DEF GoesBack, Scrubbing, ShownT, Stinging, MixReached
  <2> HIDE DEF p
  <2> QED BY <1>0, <1>2, <1>3, <2>1, <2>2, RestSound DEF p, MeReached
<1>6. CASE ~Completes(x) /\ ~GoesBack(x)
  <2>1. /\ MeSound(m, Planned1(s)) /\ (Busy(Planned1(s)) <=> Busy(s))
        /\ Planned1(s).program = s.program
    BY <1>6, GoesOn
  <2>2. ~Busy(s) => ShownT(x) = 0 /\ ~Stinging(x)
    BY DEF Busy, ShownT, Scrubbing, Fading, Stinging
  <2> HIDE DEF p
  <2> QED BY <1>0, <1>2, <1>3, <2>1, <2>2 DEF p
<1> QED BY <1>4, <1>5, <1>6

(* ... and its keyers follow what it leaves. *)
LEMMA KeyFollows ==
  ASSUME NEW m \in Mes, NEW s, MeSound(m, s), NEW k, KeySound(k, s),
         NEW d \in Nat, NEW ready
  PROVE  KeySound(KeyGrain(k, TieStep(Started(s, d, ready).mix, GivesUp(s.mix, d, ready)), d),
                  Planned1(Started(s, d, ready)))
<1> DEFINE gave == GivesUp(s.mix, d, ready)
           r    == Started(s, d, ready)
           x    == r.mix
           tie  == TieStep(x, gave)
           new  == KeyGrain(k, tie, d)
           left == Planned1(r)
<1>1. /\ MeReached(m, r)
      /\ gave => ~Busy(r) /\ s.mix.sting.player > 0
      /\ ~gave => (Busy(r) <=> Busy(s)) /\ x.sting = s.mix.sting
  BY StartedSound
<1>2. /\ tie.t \in 0 .. Full /\ (tie.cut <=> gave \/ CutDone(x))
      /\ (tie.end <=> Completes(x)) /\ (tie.back <=> GoesBack(x))
      /\ (tie.active <=> (Scrubbing(x) \/ Fading(x)) /\ ~GoesBack(x))
  BY <1>1, ShownType DEF TieStep, MeReached
<1> HIDE DEF gave, tie, r
<1>3. /\ Sound(new) /\ TiesNothing(new, k) /\ Flies(new)
      /\ k.tied /\ (IF k.tie.atCut THEN tie.cut ELSE tie.back) => ~new.tied
      /\ TieEnds(k, tie) => ~new.tied
  BY <1>2, KeyGrainSound DEF KeySound
<1> HIDE DEF new
<1>4. ASSUME new.tied
      PROVE  Busy(left) /\ (new.tie.atCut <=> left.mix.sting.player > 0)
  <2>1. /\ k.tied /\ new.tie.atCut = k.tie.atCut /\ Busy(s) /\ (k.tie.atCut <=> s.mix.sting.player > 0)
        /\ ~TieEnds(k, tie) /\ ~(IF k.tie.atCut THEN tie.cut ELSE tie.back)
    BY <1>3, <1>4 DEF TiesNothing, KeySound, Followed
  <2>2. ~gave /\ Busy(r) /\ x.sting = s.mix.sting
    BY <1>1, <1>2, <2>1
  <2>3. ~Completes(x) /\ ~GoesBack(x)
    <3>1. x.manual => x.sting.player = 0
      BY <1>1 DEF MeReached, MixReached
    <3>2. CASE k.tie.atCut
      BY <1>2, <2>1, <2>2, <3>1, <3>2 DEF TieEnds, GoesBack, Scrubbing
    <3>3. CASE ~k.tie.atCut
      BY <1>2, <2>1, <2>2, <3>3 DEF TieEnds, Completes, Stinging, Scrubbing, Fading
    <3> QED BY <3>2, <3>3
  <2>4. (Busy(left) <=> Busy(r)) /\ left.mix.sting = x.sting
    BY <1>1, <2>3, GoesOn
  <2> QED BY <2>1, <2>2, <2>4
<1>5. KeySound(new, left)
  BY <1>3, <1>4 DEF KeySound, Followed
<1> QED BY <1>5 DEF new, tie, r, gave
-----------------------------------------------------------------------------
(* Which parts of the invariant a step has to look at. *)

(* The settings FlowXer sends first, and what a call reads at its start. *)
LEMMA Defaults ==
  /\ DefaultNext \in NextType /\ Nothing \in SeenType
  /\ \A m \in Mes \cup {0} : [Nothing EXCEPT !.me = m] \in SeenType
  /\ NotHeld \in [in : Nat, take : TakeType \cup {NoTake}] /\ NotHeld.take = NoTake
  /\ NoPlan \in PlanType
<1>1. DefaultNext \in NextType
  BY MixerAssumption DEF DefaultNext, NextType
<1>2. NoPlan \in PlanType
  BY SourceFacts, FullAssumption DEF NoPlan, PlanType
<1>3. Nothing \in SeenType
  BY <1>1 DEF Nothing, SeenType
<1> QED BY <1>1, <1>2, <1>3 DEF SeenType, NotHeld

(* One ME changes, and the keyers over it. *)
LEMMA OneMeChanges ==
  ASSUME MesInv, KeysInv, NEW m \in Mes, NEW new, MeSound(m, new),
         me' = [me EXCEPT ![m] = new], key' = [k \in Keys |-> key'[k]],
         \A k \in Keys : IF KeyMe[k] = m THEN KeySound(key'[k], new) ELSE key'[k] = key[k]
  PROVE  MesInv' /\ KeysInv'
<1>1. KeyMe \in [Keys -> Mes]
  BY MixerAssumption
<1>2. /\ me' \in [Mes -> MeType] /\ me'[m] = new
      /\ \A n \in Mes : n # m => me'[n] = me[n]
  BY DEF MesInv, MeSound
<1>3. MesInv'
  BY <1>2 DEF MesInv
<1>4. \A k \in Keys : KeySound(key'[k], me'[KeyMe[k]])
  BY <1>1, <1>2 DEF KeysInv
<1>5. key' \in [Keys -> KeyerType]
  BY <1>4 DEF KeySound, Sound
<1> QED BY <1>3, <1>4, <1>5 DEF KeysInv

(* One keyer changes and stays tied only if it was. *)
LEMMA OneKeyerChanges ==
  ASSUME MesInv, KeysInv, NEW k \in Keys, NEW new, Sound(new), Flies(new), TiesNothing(new, key[k]),
         key' = [key EXCEPT ![k] = new], me' = me
  PROVE  MesInv' /\ KeysInv'
<1>1. MesInv'
  BY DEF MesInv
<1>2. /\ key' \in [Keys -> KeyerType] /\ key'[k] = new
      /\ \A j \in Keys : j # k => key'[j] = key[j]
  BY DEF KeysInv, Sound
<1>3. KeySound(new, me[KeyMe[k]])
  BY DEF KeysInv, KeySound, Followed, TiesNothing
<1> QED BY <1>1, <1>2, <1>3 DEF KeysInv

(* The MEs and the keyers stay as they are. *)
LEMMA NoneChanges ==
  ASSUME MesInv, KeysInv, me' = me, key' = key
  PROVE  MesInv' /\ KeysInv'
  BY DEF MesInv, KeysInv

(* A command that ends lets everything it carried go. *)
LEMMA Returns ==
  ASSUME Inv, Return
  PROVE  SourceInv' /\ DueInv' /\ PlanInv' /\ PcInv' /\ Carried'
<1>1. SourceInv' /\ DueInv' /\ PlanInv'
  BY DEF Return, Inv, SourceInv, DueInv, PlanInv
<1>2. PcInv' /\ pc'["control"] = "idle"
  BY DEF Return, Inv, PcInv, Threads
<1> QED BY <1>1, <1>2, Defaults DEF Return, Carried

(* ... also one of an ME. *)
LEMMA MeReturns ==
  ASSUME Inv, MeReturn
  PROVE  FtbInv' /\ SourceInv' /\ HeldInv' /\ DueInv' /\ PlanInv' /\ PcInv' /\ Carried'
  BY Returns DEF MeReturn, Inv, FtbInv, HeldInv

(* A command that goes on carries sources its ME may take. *)
LEMMA GoesOnLater ==
  ASSUME Inv, NEW next \in {"cut", "auto", "scrub"}, NEW what \in SeenType, GoOn(next, what),
         what.me \in Mes,
         next # "scrub" => /\ what.program \in Source /\ what.preview \in Source
                           /\ RendersAfter(what.me, what.program) /\ RendersAfter(what.me, what.preview)
  PROVE  FtbInv' /\ SourceInv' /\ HeldInv' /\ DueInv' /\ PlanInv' /\ PcInv' /\ Carried'
<1>1. FtbInv' /\ SourceInv' /\ HeldInv' /\ DueInv' /\ PlanInv'
  BY DEF GoOn, Inv, FtbInv, SourceInv, HeldInv, DueInv, PlanInv
<1>2. PcInv' /\ pc'["control"] = next
  BY DEF GoOn, Inv, PcInv, Threads
<1>3. seen' = what
  BY DEF GoOn
<1> QED BY <1>1, <1>2, <1>3 DEF Carried

(* A thread between its held takes carries nothing new. *)
LEMMA OnTheWay ==
  ASSUME PcInv, Carried, NEW th \in Threads, NEW p \in {"idle", "held", "made"},
         pc' = [pc EXCEPT ![th] = p], seen' = seen, grain' \in 0 .. MaxStep
  PROVE  PcInv' /\ Carried'
<1>1. PcInv'
  BY DEF PcInv
<1>2. pc'["control"] \in {p, pc["control"]}
  BY DEF PcInv, Threads
<1> QED BY <1>1, <1>2 DEF Carried

(* Held takes go into a thread's hands as they are. *)
LEMMA TakesOut ==
  ASSUME HeldInv, DueInv, NEW th \in Threads, NEW S, TakeOut(th, S)
  PROVE  HeldInv' /\ DueInv'
<1>1. HeldInv'
  BY Defaults DEF HeldInv, TakeOut
<1>2. \A m \in Mes : /\ held[m].take \in TakeType \cup {NoTake}
                     /\ held[m].take # NoTake => TakeSound(m, held[m].take)
  BY DEF HeldInv
<1> DEFINE out == [m \in Mes |-> IF m \in S THEN held[m].take ELSE NoTake]
<1>3. /\ out \in [Mes -> TakeType \cup {NoTake}]
      /\ \A m \in Mes : out[m] # NoTake => TakeSound(m, out[m])
  BY <1>2
<1>4. due' = [due EXCEPT ![th] = out]
  BY DEF TakeOut
<1> HIDE DEF out
<1> QED BY <1>1, <1>3, <1>4 DEF DueInv

(* A take of an ME, whoever makes it. *)
LEMMA TakeStep ==
  ASSUME MesInv, KeysInv, NEW m \in Mes, NEW tk, TakeSound(m, tk), Take(m, tk)
  PROVE  MesInv' /\ KeysInv'
<1> DEFINE new == TakeMe(me[m], tk)
<1>1. MeSound(m, me[m])
  BY DEF MesInv
<1>2. MeSound(m, new)
  BY <1>1, TakeMeSound
<1>3. ASSUME NEW k \in Keys, KeyMe[k] = m
      PROVE  KeySound(key'[k], new)
  <2>1. KeySound(key[k], me[m])
    BY <1>3 DEF KeysInv
  <2>2. key'[k] = TakeKey(key[k], tk, k \in me[m].next.ties)
    BY <1>3 DEF Take
  <2>3. (k \in me[m].next.ties) \in BOOLEAN
    OBVIOUS
  <2> QED BY <1>1, <2>1, <2>2, <2>3, TakeKeySound
<1>4. /\ me' = [me EXCEPT ![m] = new] /\ key' = [k \in Keys |-> key'[k]]
      /\ \A k \in Keys : KeyMe[k] # m => key'[k] = key[k]
  BY DEF Take
<1> HIDE DEF new
<1> QED BY <1>2, <1>3, <1>4, OneMeChanges

-----------------------------------------------------------------------------
(* The initial states, whatever settings FlowXer sends first. *)
LEMMA InitInv ==
  ASSUME NEW next \in NextType, NEW keyer, Sound(keyer), Flies(keyer), ~keyer.tied,
         InitWith(next, keyer)
  PROVE  Inv
<1>1. ASSUME NEW m \in Mes
      PROVE  MeSound(m, NewMe(m, next))
  <2>1. m \in Int /\ 2 * m - 2 \in Int /\ 2 * m - 1 \in Int
    BY MixerAssumption DEF Mes
  <2>2. /\ NewMe(m, next).mix = NoMix /\ NewMe(m, next) \in MeType
        /\ NewMe(m, next).program = FirstBus(2 * m - 2)
        /\ NewMe(m, next).preview = FirstBus(2 * m - 1)
    BY <2>1, FirstBusSource, NoMixSound DEF NewMe, MeType, MixSound
  <2> QED BY <2>1, <2>2, FirstBusSource, NoMixSound, SourceFacts DEF MeSound, Shows, NoMix
<1>2. MesInv
  BY <1>1 DEF InitWith, MesInv, MeSound
<1>3. KeysInv
  BY DEF InitWith, KeysInv, KeySound, Followed, Sound
<1>4. FtbInv
  BY NoFadeType DEF InitWith, FtbInv
<1>5. SourceInv /\ HeldInv /\ DueInv
  BY SourceFacts, Defaults DEF InitWith, SourceInv, HeldInv, DueInv, NoneDue
<1>6. PlanInv
  BY SourceFacts, Defaults DEF InitWith, PlanInv, PlanSound, NoPlan
<1>7. PcInv
  BY MixerAssumption DEF InitWith, PcInv, Threads
<1>8. Carried
  BY Defaults DEF InitWith, Carried, Threads
<1> QED BY <1>2, <1>3, <1>4, <1>5, <1>6, <1>7, <1>8 DEF Inv
-----------------------------------------------------------------------------
(* The steps of the render thread and of held takes. *)
LEMMA MakeHeldStep ==
  ASSUME Inv, NEW th \in Threads, MakeHeld(th)
  PROVE  Inv'
<1>1. PICK m \in Mes : IsFirst(th, m) /\ Take(m, due[th][m])
  BY DEF MakeHeld
<1>2. TakeSound(m, due[th][m])
  BY <1>1 DEF IsFirst, HasDue, Inv, DueInv
<1>3. MesInv' /\ KeysInv'
  BY <1>1, <1>2, TakeStep DEF Inv
<1>4. FtbInv' /\ SourceInv' /\ HeldInv' /\ DueInv' /\ PlanInv'
  BY DEF MakeHeld, Inv, FtbInv, SourceInv, HeldInv, DueInv, PlanInv
<1>5. PcInv' /\ Carried'
  BY OnTheWay DEF MakeHeld, Inv, PcInv
<1> QED BY <1>3, <1>4, <1>5 DEF Inv

(* What was made is noted; nothing else of the ME changes.                 *)
LEMMA NoteHeldStep ==
  ASSUME Inv, NEW th \in Threads, NoteHeld(th)
  PROVE  Inv'
<1>1. PICK m \in Mes : /\ me' = [me EXCEPT ![m].heldMade = (th = "render")]
                       /\ due' = [due EXCEPT ![th][m] = NoTake]
  BY DEF NoteHeld
<1> DEFINE new == [me[m] EXCEPT !.heldMade = (th = "render")]
<1>2. MeSound(m, me[m])
  BY DEF Inv, MesInv
<1>3. /\ new \in MeType /\ new.program = me[m].program /\ new.preview = me[m].preview
      /\ new.mix = me[m].mix
  BY <1>2 DEF MeSound, MeType
<1>4. me' = [me EXCEPT ![m] = new]
  BY <1>1
<1> HIDE DEF new
<1>5. MeSound(m, new)
  BY <1>2, <1>3 DEF MeSound, Shows
<1>6. ASSUME NEW k \in Keys, KeyMe[k] = m
      PROVE  KeySound(key[k], new)
  BY <1>3, <1>6 DEF Inv, KeysInv, KeySound, Followed, Busy
<1>7. MesInv' /\ KeysInv'
  <2>1. key' = key /\ key = [k \in Keys |-> key[k]]
    BY DEF NoteHeld, Inv, KeysInv
  <2> QED BY <1>4, <1>5, <1>6, <2>1, OneMeChanges DEF Inv
<1>8. DueInv'
  BY <1>1 DEF Inv, DueInv
<1>9. FtbInv' /\ SourceInv' /\ HeldInv' /\ PlanInv'
  BY DEF NoteHeld, Inv, FtbInv, SourceInv, HeldInv, PlanInv
<1>10. PcInv' /\ Carried'
  BY OnTheWay DEF NoteHeld, Inv, PcInv
<1> QED BY <1>7, <1>8, <1>9, <1>10 DEF Inv

(* The takes due go into the render thread's hands.                        *)
LEMMA WakeStep ==
  ASSUME Inv, Wake
  PROVE  Inv'
<1>1. PICK d \in 1 .. MaxStep :
        /\ grain' = d
        /\ TakeOut("render", {m \in Mes : IsHeld(m) /\ held[m].in <= d})
  BY DEF Wake
<1>2. HeldInv' /\ DueInv'
  BY <1>1, TakesOut DEF Inv, Threads
<1>3. PcInv' /\ Carried'
  <2>1. grain' \in 0 .. MaxStep
    BY <1>1, MixerAssumption
  <2> QED BY <2>1, OnTheWay DEF Wake, Inv, Threads
<1>4. MesInv' /\ KeysInv' /\ FtbInv' /\ SourceInv' /\ PlanInv'
  BY DEF Wake, Inv, MesInv, KeysInv, FtbInv, SourceInv, PlanInv
<1> QED BY <1>2, <1>3, <1>4 DEF Inv

(* A grain: every ME, its keyers and its Fade to Black.                    *)
LEMMA PlanStep ==
  ASSUME Inv, NEW ready, Plan(ready)
  PROVE  Inv'
<1> DEFINE s(m)   == Started(me[m], grain, ready)
           tie(m) == TieStep(s(m).mix, GivesUp(me[m].mix, grain, ready))
<1>1. /\ grain \in Nat /\ KeyMe \in [Keys -> Mes]
      /\ \A m \in Mes : MeSound(m, me[m]) /\ MeReached(m, s(m))
  BY MixerAssumption, StartedSound DEF Inv, PcInv, MesInv
<1>2. \A m \in Mes : MeSound(m, Planned1(s(m))) /\ PlanSound(m, MePlan(s(m)))
  BY <1>1, MeGrainSound
<1>3. \A k \in Keys : KeySound(KeyGrain(key[k], tie(KeyMe[k]), grain), Planned1(s(KeyMe[k])))
  BY <1>1, KeyFollows DEF Inv, KeysInv
<1>4. /\ me' = [m \in Mes |-> Planned1(s(m))] /\ plan' = [m \in Mes |-> MePlan(s(m))]
      /\ key' = [k \in Keys |-> KeyGrain(key[k], tie(KeyMe[k]), grain)]
      /\ ftb' = [m \in Mes |-> FadeAdvance(ftb[m], grain)]
  BY DEF Plan
<1> HIDE DEF s, tie
<1>5. MesInv'
  BY <1>2, <1>4 DEF MesInv, MeSound
<1>6. KeysInv'
  BY <1>1, <1>3, <1>4 DEF KeysInv, KeySound, Sound
<1>7. PlanInv'
  BY <1>2, <1>4 DEF PlanInv, PlanSound
<1>8. FtbInv'
  BY <1>1, <1>4, FadeAdvanceType DEF Inv, FtbInv
<1>9. HeldInv'
  <2>1. ASSUME NEW m \in Mes
        PROVE  /\ held'[m] \in [in : Nat, take : TakeType \cup {NoTake}]
               /\ held'[m].take \in {held[m].take, NoTake}
    <3> DEFINE left == IF held[m].in > grain THEN held[m].in - grain ELSE 0
    <3>1. left \in Nat /\ held[m] \in [in : Nat, take : TakeType \cup {NoTake}]
      BY <1>1 DEF Inv, HeldInv
    <3>2. held'[m] = IF IsHeld(m) THEN [held[m] EXCEPT !.in = left] ELSE NotHeld
      BY <3>1 DEF Plan
    <3> HIDE DEF left
    <3> QED BY <3>1, <3>2, Defaults
  <2>2. held' = [m \in Mes |-> held'[m]]
    BY DEF Plan
  <2> QED BY <2>1, <2>2 DEF Inv, HeldInv
<1>10. SourceInv' /\ DueInv'
  BY DEF Plan, Inv, SourceInv, DueInv
<1>11. PcInv' /\ Carried'
  <2>1. grain' \in 0 .. MaxStep
    BY MixerAssumption DEF Plan
  <2> QED BY <2>1, OnTheWay DEF Plan, Inv, Threads
<1> QED BY <1>5, <1>6, <1>7, <1>8, <1>9, <1>10, <1>11 DEF Inv

(* A call of the control thread starts. *)
LEMMA CallStep ==
  ASSUME Inv, NEW S, NEW m \in Mes \cup {0}, Call(S, m)
  PROVE  Inv'
<1>1. HeldInv' /\ DueInv'
  BY TakesOut DEF Call, Inv, Threads
<1>2. MesInv' /\ KeysInv' /\ FtbInv' /\ SourceInv' /\ PlanInv'
  BY DEF Call, Inv, MesInv, KeysInv, FtbInv, SourceInv, PlanInv
<1>3. PcInv' /\ pc'["control"] = "held"
  BY DEF Call, Inv, PcInv, Threads
<1>4. Carried'
  BY <1>3, Defaults DEF Call, Carried
<1> QED BY <1>1, <1>2, <1>3, <1>4 DEF Inv

(* A take is held for a later grain. *)
LEMMA TakeAtStep ==
  ASSUME Inv, NEW m \in Mes, TakeAt(m)
  PROVE  Inv'
<1>1. PICK tk \in Takes(m), n \in 0 .. MaxIn : held' = [held EXCEPT ![m] = [in |-> n, take |-> tk]]
  BY DEF TakeAt
<1>2. TakeSound(m, tk) /\ n \in Nat
  BY MixerAssumption, SourceFacts DEF Takes, TakeSound, TakeType, StingType
<1>3. HeldInv'
  BY <1>1, <1>2 DEF Inv, HeldInv, TakeSound
<1>4. /\ MesInv' /\ KeysInv' /\ FtbInv' /\ SourceInv' /\ DueInv' /\ PlanInv'
      /\ PcInv' /\ Carried'
  BY DEF TakeAt, Inv, MesInv, KeysInv, FtbInv, SourceInv, DueInv, PlanInv, PcInv, Carried
<1> QED BY <1>3, <1>4 DEF Inv
-----------------------------------------------------------------------------
(* The commands of an ME, one by one. *)
LEMMA TakeNowStep ==
  ASSUME Inv, NEW m \in Mes, TakeNow(m)
  PROVE  Inv'
<1>1. PICK tk \in Takes(m) : Take(m, tk)
  BY DEF TakeNow
<1>2. TakeSound(m, tk)
  BY MixerAssumption, SourceFacts DEF Takes, TakeSound, TakeType, StingType
<1> QED BY <1>1, <1>2, TakeStep, MeReturns DEF TakeNow, Inv

(* A transition is dropped and its keyers let go.                          *)
LEMMA SetProgramStep ==
  ASSUME Inv, NEW m \in Mes, SetProgram(m)
  PROVE  Inv'
<1>1. PICK s \in Picked \cap Allowed(m) : me' = [me EXCEPT ![m] = [Rest(@) EXCEPT !.program = s]]
  BY DEF SetProgram
<1>2. s \in Source /\ RendersAfter(m, s)
  BY <1>1, SourceFacts
<1> DEFINE rest == Rest(me[m])
           new  == [rest EXCEPT !.program = s]
<1>3. MeSound(m, rest) /\ me' = [me EXCEPT ![m] = new]
  BY <1>1, RestSound DEF Inv, MesInv, MeSound
<1> HIDE DEF rest
<1>4. new \in MeType /\ new.mix = rest.mix /\ new.program = s /\ new.preview = rest.preview
  BY <1>2, <1>3 DEF MeSound, MeType
<1> HIDE DEF new
<1>5. MeSound(m, new)
  BY <1>2, <1>3, <1>4 DEF MeSound, Shows
<1>6. /\ key' = [k \in Keys |-> key'[k]]
      /\ \A k \in Keys : IF KeyMe[k] = m THEN KeySound(key'[k], new) ELSE key'[k] = key[k]
  BY TieEndSound DEF SetProgram, Inv, KeysInv, KeySound, Followed
<1> QED BY <1>3, <1>5, <1>6, OneMeChanges, MeReturns DEF SetProgram, Inv

(* A transition keeps all but what it leaves on Preview.                   *)
LEMMA SetPreviewStep ==
  ASSUME Inv, NEW m \in Mes, SetPreview(m)
  PROVE  Inv'
<1>1. PICK s \in Picked \cap Allowed(m) :
        me' = [me EXCEPT ![m].preview = s, ![m].mix.after = NoSource]
  BY DEF SetPreview
<1>2. s \in Source /\ RendersAfter(m, s) /\ MeSound(m, me[m]) /\ me \in [Mes -> MeType]
  BY <1>1, SourceFacts DEF Inv, MesInv
<1> DEFINE mix == [me[m].mix EXCEPT !.after = NoSource]
           new == [me[m] EXCEPT !.preview = s, !.mix = mix]
<1>3. /\ mix \in MixType /\ mix.target = me[m].mix.target /\ mix.after = NoSource
      /\ mix.pending = me[m].mix.pending /\ mix.mixing = me[m].mix.mixing
      /\ mix.manual = me[m].mix.manual /\ mix.sting = me[m].mix.sting
      /\ mix.ran = me[m].mix.ran /\ mix.frames = me[m].mix.frames
      /\ mix.waiting = me[m].mix.waiting
  BY <1>2 DEF MeSound, MeType, MixType
<1>4. me' = [me EXCEPT ![m] = new]
  BY <1>1, <1>2 DEF MeType, MixType
<1> HIDE DEF mix
<1>5. new \in MeType /\ new.mix = mix /\ new.program = me[m].program /\ new.preview = s
  BY <1>2, <1>3 DEF MeType, MeSound
<1> HIDE DEF new
<1>6. MixSound(mix)
  BY <1>2, <1>3 DEF MeSound, MixSound
<1>7. MeSound(m, new)
  BY <1>2, <1>3, <1>5, <1>6, SourceFacts DEF MeSound, Shows
<1>8. /\ key' = [k \in Keys |-> key'[k]]
      /\ \A k \in Keys : IF KeyMe[k] = m THEN KeySound(key'[k], new) ELSE key'[k] = key[k]
  BY <1>3, <1>5 DEF SetPreview, Inv, KeysInv, KeySound, Followed, Busy
<1> QED BY <1>4, <1>7, <1>8, OneMeChanges, MeReturns DEF SetPreview, Inv

(* The next transition does not touch the one that runs.                   *)
LEMMA SetTransitionStep ==
  ASSUME Inv, NEW m \in Mes, SetTransition(m)
  PROVE  Inv'
<1>1. PICK type \in Types, n \in Rates, ties \in SUBSET (KeysOf(m) \cap Upstream) :
        me' = [me EXCEPT ![m].next = [type |-> type, frames |-> n, ties |-> ties]]
  BY DEF SetTransition
<1> DEFINE next == [type |-> type, frames |-> n, ties |-> ties]
           new  == [me[m] EXCEPT !.next = next]
<1>2. next \in NextType
  BY <1>1, MixerAssumption DEF NextType, KeysOf
<1>3. MeSound(m, me[m]) /\ me' = [me EXCEPT ![m] = new]
  BY <1>1 DEF Inv, MesInv
<1> HIDE DEF next
<1>4. /\ new \in MeType /\ new.mix = me[m].mix /\ new.program = me[m].program
      /\ new.preview = me[m].preview
  BY <1>2, <1>3 DEF MeSound, MeType
<1> HIDE DEF new
<1>5. MeSound(m, new)
  BY <1>3, <1>4 DEF MeSound, Shows
<1>6. /\ key' = [k \in Keys |-> key'[k]]
      /\ \A k \in Keys : IF KeyMe[k] = m THEN KeySound(key'[k], new) ELSE key'[k] = key[k]
  BY <1>4 DEF SetTransition, Inv, KeysInv, KeySound, Followed, Busy
<1> QED BY <1>3, <1>5, <1>6, OneMeChanges, MeReturns DEF SetTransition, Inv

(* A Fade to Black touches no bus and no keyer.                            *)
LEMMA SetFtbStep ==
  ASSUME Inv, NEW m \in Mes, SetFtb(m)
  PROVE  Inv'
<1>1. MesInv' /\ KeysInv' /\ HeldInv'
  BY DEF SetFtb, Inv, MesInv, KeysInv, HeldInv
<1>2. FtbInv'
  <2>1. CASE \E on \in BOOLEAN : ftb' = [ftb EXCEPT ![m] = FadeSet(on)]
    BY <2>1, FadeSetType DEF Inv, FtbInv
  <2>2. CASE \E n \in Rates : ftb' = [ftb EXCEPT ![m] = FadeAuto(@, n)]
    <3>1. PICK n \in Rates : ftb' = [ftb EXCEPT ![m] = FadeAuto(ftb[m], n)]
      BY <2>2
    <3>2. n \in Nat /\ ftb[m] \in FadeType
      BY MixerAssumption DEF Inv, FtbInv
    <3> QED BY <3>1, <3>2, FadeAutoType DEF Inv, FtbInv
  <2> QED BY <2>1, <2>2 DEF SetFtb
<1> QED BY <1>1, <1>2, Returns DEF SetFtb, Inv
-----------------------------------------------------------------------------
(* The calls of two sections: what the first reads, the second may take.   *)
LEMMA ReadSound ==
  ASSUME Inv, NEW m \in Mes
  PROVE  /\ Read(m) \in SeenType /\ Read(m).me = m
         /\ Read(m).program \in Source /\ Read(m).preview \in Source
         /\ RendersAfter(m, Read(m).program) /\ RendersAfter(m, Read(m).preview)
<1>1. MeSound(m, me[m]) /\ Busy(me[m]) \in BOOLEAN
  BY DEF Inv, MesInv, Busy
<1>2. /\ me[m].program \in Source /\ me[m].preview \in Source
      /\ RendersAfter(m, me[m].program) /\ RendersAfter(m, me[m].preview)
  BY <1>1 DEF MeSound, MeType, Shows
<1> DEFINE part == [Nothing EXCEPT !.me = m]
<1>3. part \in SeenType /\ part.me = m
  BY Defaults DEF Nothing
<1>4. Read(m) = [part EXCEPT !.program = me[m].program, !.preview = me[m].preview,
                            !.running = Busy(me[m])]
  BY DEF Read
<1> HIDE DEF part
<1> QED BY <1>1, <1>2, <1>3, <1>4 DEF SeenType

(* Cut reads the buses of its ME ...                                       *)
LEMMA CutStep ==
  ASSUME Inv, NEW m \in Mes, Cut(m)
  PROVE  Inv'
  BY NoneChanges, ReadSound, GoesOnLater DEF Cut, Inv

(* A take of what was read. *)
LEMMA SeenTakeSound ==
  ASSUME Inv, pc["control"] \in {"cut", "auto"}, NEW type \in {"cut", "mix", "stinger"},
         NEW frames \in Nat, NEW ties \in BOOLEAN
  PROVE  seen.me \in Mes /\ TakeSound(seen.me, SeenTake(type, frames, ties))
<1>1. /\ seen.me \in Mes /\ seen.program \in Source /\ seen.preview \in Source
      /\ RendersAfter(seen.me, seen.program) /\ RendersAfter(seen.me, seen.preview)
  BY DEF Inv, Carried
<1>2. NoSting \in StingType
  BY DEF NoSting, StingType
<1> QED BY <1>1, <1>2 DEF SeenTake, TakeSound, TakeType

(* ... and takes what it read, on the ME it read it from.                  *)
LEMMA CutTakeStep ==
  ASSUME Inv, CutTake
  PROVE  Inv'
<1> DEFINE tk == SeenTake("cut", 0, ~seen.running)
<1>1. (~seen.running) \in BOOLEAN /\ Take(seen.me, tk) /\ pc["control"] \in {"cut", "auto"}
  BY DEF CutTake
<1>2. seen.me \in Mes /\ TakeSound(seen.me, tk)
  BY <1>1, SeenTakeSound
<1> HIDE DEF tk
<1> QED BY <1>1, <1>2, TakeStep, MeReturns DEF CutTake, Inv

(* Auto takes what it read.                                                *)
LEMMA AutoTakeStep ==
  ASSUME Inv, AutoTake
  PROVE  Inv'
<1> DEFINE tk == SeenTake(seen.next.type, seen.next.frames, TRUE)
<1>1. seen.next.frames \in Nat /\ seen.next.type \in {"cut", "mix", "stinger"}
  BY DEF Inv, Carried, SeenType, NextType
<1>2. Take(seen.me, tk) /\ pc["control"] \in {"cut", "auto"}
  BY DEF AutoTake
<1>3. seen.me \in Mes /\ TakeSound(seen.me, tk)
  BY <1>1, <1>2, SeenTakeSound
<1> HIDE DEF tk
<1> QED BY <1>2, <1>3, TakeStep, MeReturns DEF AutoTake, Inv

(* Auto: the rest of a held transition, nothing, or what to take next. *)
LEMMA ResumedSound ==
  ASSUME NEW x, MixSound(x), NEW rate \in Nat
  PROVE  /\ MixSound(Resumed(x, rate)) /\ Resumed(x, rate).pending
         /\ Resumed(x, rate).sting.player = 0
         /\ Resumed(x, rate).target = x.target /\ Resumed(x, rate).after = x.after
<1> DEFINE frames == Scaled(rate, Full - x.t)
           part == [NoMix EXCEPT !.target = x.target, !.after = x.after, !.pending = TRUE]
           new  == [part EXCEPT !.frames = frames, !.from = x.t]
<1>1. /\ x.target \in Source /\ x.after \in Source \cup {NoSource} /\ x.t \in 0 .. Full
      /\ Full - x.t \in Nat
  BY FullAssumption DEF MixSound, MixType
<1>2. frames \in Nat \ {0}
  BY <1>1, ScaledType
<1>3. Resumed(x, rate) = new
  BY DEF Resumed
<1> HIDE DEF frames
<1>4. /\ part \in MixType /\ part.pending /\ ~part.mixing /\ ~part.manual /\ ~part.waiting
      /\ part.target = x.target /\ part.after = x.after /\ part.sting = NoSting
  BY <1>1, NoMixSound DEF MixType, MixSound, NoMix
<1> HIDE DEF part
<1>5. /\ new \in MixType /\ new.pending /\ ~new.mixing /\ ~new.manual /\ ~new.waiting
      /\ new.target = x.target /\ new.after = x.after /\ new.sting = NoSting
  BY <1>1, <1>2, <1>4 DEF MixType
<1> HIDE DEF new
<1> QED BY <1>3, <1>5 DEF MixSound, NoSting

(* Auto in its three outcomes, wherever it was called from.                *)
LEMMA AutoStep ==
  ASSUME Inv, NEW m \in Mes, NEW rate \in Nat \ {0}, AutoAt(m, rate)
  PROVE  Inv'
<1>0. MeSound(m, me[m])
  BY DEF Inv, MesInv
<1>1. ASSUME me[m].mix.manual, me' = [me EXCEPT ![m].mix = Resumed(me[m].mix, rate)],
             key' = key, MeReturn
      PROVE  Inv'
  <2> DEFINE mix == Resumed(me[m].mix, rate)
             new == [me[m] EXCEPT !.mix = mix]
  <2>1. /\ MixSound(mix) /\ mix.pending /\ mix.sting.player = 0
        /\ mix.target = me[m].mix.target /\ mix.after = me[m].mix.after
    BY <1>0, ResumedSound DEF MeSound
  <2>2. me' = [me EXCEPT ![m] = new]
    BY <1>1
  <2> HIDE DEF mix
  <2>3. /\ new \in MeType /\ new.mix = mix /\ new.program = me[m].program
        /\ new.preview = me[m].preview
    BY <1>0, <2>1 DEF MeSound, MeType, MixSound
  <2> HIDE DEF new
  <2>4. MeSound(m, new)
    BY <1>0, <2>1, <2>3 DEF MeSound, Shows
  <2>5. /\ key' = [k \in Keys |-> key'[k]]
        /\ \A k \in Keys : IF KeyMe[k] = m THEN KeySound(key'[k], new) ELSE key'[k] = key[k]
    <3>1. me[m].mix.sting.player = 0
      BY <1>0, <1>1 DEF MeSound, MixSound
    <3> QED BY <1>1, <2>1, <2>3, <3>1 DEF Inv, KeysInv, KeySound, Followed, Busy
  <2> QED BY <1>1, <2>2, <2>4, <2>5, OneMeChanges, MeReturns DEF Inv
<1>2. ASSUME UNCHANGED <<me, key>>, MeReturn
      PROVE  Inv'
  BY <1>2, NoneChanges, MeReturns DEF Inv
<1>3. ASSUME GoOn("auto", [Read(m) EXCEPT !.next = [me[m].next EXCEPT !.frames = rate]]),
             UNCHANGED <<me, key>>
      PROVE  Inv'
  <2> DEFINE next == [me[m].next EXCEPT !.frames = rate]
             what == [Read(m) EXCEPT !.next = next]
  <2>1. next \in NextType
    BY <1>0 DEF MeSound, MeType, NextType
  <2>2. GoOn("auto", what)
    BY <1>3
  <2> HIDE DEF next
  <2>3. /\ what \in SeenType /\ what.me = m /\ what.program = Read(m).program
        /\ what.preview = Read(m).preview
    BY <2>1, ReadSound DEF SeenType
  <2> HIDE DEF what
  <2> QED BY <1>3, <2>2, <2>3, ReadSound, GoesOnLater, NoneChanges DEF Inv
<1> QED BY <1>1, <1>2, <1>3 DEF AutoAt

(* Auto as called by the control thread.                                   *)
LEMMA AutoTransitionStep ==
  ASSUME Inv, NEW m \in Mes, AutoTransition(m)
  PROVE  Inv'
<1>1. me[m].next.frames \in Nat \ {0} /\ Rates \subseteq Nat \ {0}
  BY MixerAssumption DEF Inv, MesInv, MeType, NextType
<1>2. PICK n \in Rates \cup {me[m].next.frames} : AutoAt(m, n)
  BY DEF AutoTransition
<1>3. n \in Nat \ {0}
  BY <1>1, <1>2
<1> QED BY <1>2, <1>3, AutoStep

(* Auto as called by the T-bar.                                            *)
LEMMA ScrubAutoStep ==
  ASSUME Inv, ScrubAuto
  PROVE  Inv'
<1>1. PICK m \in Mes : m = seen.me
  BY DEF Inv, Carried, ScrubAuto
<1>2. PICK n \in Nat \ {0} : n = me[m].next.frames
  BY DEF Inv, MesInv, MeType, NextType
<1>3. AutoAt(m, n)
  BY <1>1, <1>2 DEF ScrubAuto
<1> QED BY <1>3, AutoStep

(* A transition the T-bar moves or starts. *)
LEMMA ScrubSound ==
  ASSUME NEW m \in Mes, NEW s, MeSound(m, s), NEW t \in 0 .. Full, ~s.mix.pending,
         s.mix.mixing => s.mix.manual
  PROVE  /\ MeSound(m, Scrub(s, t)) /\ Busy(Scrub(s, t)) /\ Scrub(s, t).mix.sting.player = 0
<1> DEFINE new == Scrub(s, t)
           x   == new.mix
<1>1. CASE s.mix.mixing
  <2> DEFINE mix == [s.mix EXCEPT !.t = t]
  <2>1. /\ mix \in MixType /\ mix.target = s.mix.target /\ mix.after = s.mix.after
        /\ mix.pending = s.mix.pending /\ mix.mixing /\ mix.manual
        /\ mix.sting.player = 0 /\ mix.waiting = s.mix.waiting /\ mix.ran = s.mix.ran
    BY <1>1 DEF MeSound, MixSound, MixType
  <2>2. new = [s EXCEPT !.mix = mix]
    BY <1>1 DEF Scrub, MeSound, MeType
  <2> HIDE DEF mix
  <2>3. /\ new \in MeType /\ x = mix /\ new.program = s.program /\ new.preview = s.preview
    BY <2>1, <2>2 DEF MeSound, MeType
  <2> HIDE DEF new
  <2>4. MeSound(m, new) /\ Busy(new) /\ new.mix.sting.player = 0
    BY <2>1, <2>3 DEF MeSound, MixSound, Shows, Busy
  <2> QED BY <2>4 DEF new
<1>2. CASE ~s.mix.mixing
  <2> DEFINE part == [NoMix EXCEPT !.target = s.preview, !.after = s.program, !.frames = s.next.frames]
             mix  == [part EXCEPT !.mixing = TRUE, !.manual = TRUE, !.t = t]
  <2>1. new = [s EXCEPT !.mix = mix]
    BY <1>2 DEF Scrub
  <2>2. /\ part \in MixType /\ part.target = s.preview /\ part.after = s.program
        /\ ~part.pending /\ ~part.waiting /\ part.sting = NoSting
    <3>1. s.preview \in Source /\ s.program \in Source /\ s.next.frames \in Nat \ {0}
      BY DEF MeSound, MeType, NextType
    <3> QED BY <3>1, NoMixSound DEF MixType, MixSound, NoMix
  <2> HIDE DEF part
  <2>3. /\ mix \in MixType /\ mix.target = s.preview /\ mix.after = s.program
        /\ ~mix.pending /\ mix.mixing /\ mix.manual /\ mix.sting.player = 0 /\ ~mix.waiting
    <3>1. /\ mix \in MixType /\ mix.target = s.preview /\ mix.after = s.program
          /\ ~mix.pending /\ mix.mixing /\ mix.manual /\ mix.sting = NoSting /\ ~mix.waiting
      BY <2>2 DEF MixType
    <3> QED BY <3>1 DEF NoSting
  <2> HIDE DEF mix
  <2>4. /\ new \in MeType /\ x = mix /\ new.program = s.program /\ new.preview = s.preview
    BY <2>1, <2>3 DEF MeSound, MeType
  <2> HIDE DEF new
  <2>5. MeSound(m, new) /\ Busy(new) /\ new.mix.sting.player = 0
    BY <2>2, <2>3, <2>4 DEF MeSound, MixSound, Shows, Busy
  <2> QED BY <2>5 DEF new
<1> QED BY <1>1, <1>2

(* A position of the T-bar: refused, handed on, or moved to.               *)
LEMMA PositionStep ==
  ASSUME Inv, NEW m \in Mes, Position(m)
  PROVE  Inv'
<1> DEFINE s == me[m]
           refused == s.mix.pending \/ (s.mix.mixing /\ ~s.mix.manual)
<1>0. MeSound(m, s)
  BY DEF Inv, MesInv
<1>1. CASE UNCHANGED <<me, key>> /\ MeReturn
  BY <1>1, NoneChanges, MeReturns DEF Inv
<1>2. CASE GoOn("scrub", [Nothing EXCEPT !.me = m]) /\ UNCHANGED <<me, key>>
  <2>1. [Nothing EXCEPT !.me = m] \in SeenType /\ [Nothing EXCEPT !.me = m].me = m
    BY Defaults DEF Nothing
  <2> QED BY <1>2, <2>1, NoneChanges, GoesOnLater DEF Inv
<1>3. ASSUME NEW t \in 0 .. Full, ~refused,
             me' = [me EXCEPT ![m] = Scrub(@, t)],
             key' = [k \in Keys |-> IF ~s.mix.mixing /\ KeyMe[k] = m /\ k \in s.next.ties
                                    THEN TieStart(key[k], FALSE) ELSE key[k]],
             MeReturn
      PROVE  Inv'
  <2> DEFINE new == Scrub(s, t)
  <2>1. MeSound(m, new) /\ Busy(new) /\ new.mix.sting.player = 0
    BY <1>0, <1>3, ScrubSound
  <2>2. me' = [me EXCEPT ![m] = new]
    BY <1>3
  <2> HIDE DEF new
  <2>3. ASSUME NEW k \in Keys, KeyMe[k] = m
        PROVE  KeySound(key'[k], new)
    <3>1. KeySound(key[k], s)
      BY <2>3 DEF Inv, KeysInv
    <3>2. CASE ~s.mix.mixing
      <4>1. Sound(key[k]) /\ Flies(key[k]) /\ ~key[k].tied
        BY <1>3, <3>1, <3>2 DEF KeySound, Followed, Busy
      <4>2. key'[k] = IF k \in s.next.ties THEN TieStart(key[k], FALSE) ELSE key[k]
        BY <1>3, <2>3, <3>2
      <4>3. CASE k \in s.next.ties
        <5>1. /\ Sound(TieStart(key[k], FALSE)) /\ Flies(TieStart(key[k], FALSE))
              /\ ~TieStart(key[k], FALSE).tie.atCut
          BY <4>1, TieStartSound
        <5>2. key'[k] = TieStart(key[k], FALSE) /\ ~(new.mix.sting.player > 0)
          BY <2>1, <4>2, <4>3
        <5>3. Followed(TieStart(key[k], FALSE), new)
          BY <2>1, <5>1, <5>2 DEF Followed
        <5> QED BY <5>1, <5>2, <5>3 DEF KeySound
      <4>4. CASE k \notin s.next.ties
        BY <4>1, <4>2, <4>4 DEF KeySound, Followed
      <4> QED BY <4>3, <4>4
    <3>3. CASE s.mix.mixing
      <4>1. s.mix.sting.player = 0
        BY <1>0, <1>3, <3>3 DEF MeSound, MixSound
      <4> QED BY <1>3, <2>1, <2>3, <3>1, <3>3, <4>1 DEF KeySound, Followed
    <3> QED BY <3>2, <3>3
  <2>4. /\ key' = [k \in Keys |-> key'[k]]
        /\ \A k \in Keys : KeyMe[k] # m => key'[k] = key[k]
    BY <1>3
  <2> QED BY <1>3, <2>1, <2>2, <2>3, <2>4, OneMeChanges, MeReturns DEF Inv
<1> QED BY <1>1, <1>2, <1>3 DEF Position
-----------------------------------------------------------------------------
(* The commands of a keyer. *)
LEMMA KeyCommandStep ==
  ASSUME Inv, NEW op, NEW k \in Keys, NEW new, KeyCommand(op, k, new),
         Sound(new), Flies(new), TiesNothing(new, key[k])
  PROVE  Inv'
<1>1. MesInv' /\ KeysInv'
  BY OneKeyerChanges DEF KeyCommand, Inv
<1>2. FtbInv' /\ HeldInv'
  BY DEF KeyCommand, Inv, FtbInv, HeldInv
<1> QED BY <1>1, <1>2, Returns DEF KeyCommand, Inv

(* New settings of a keyer, with its source.                               *)
LEMMA KeyChangeStep ==
  ASSUME Inv, NEW k \in Keys, KeyChange(k)
  PROVE  Inv'
<1>1. PICK fly \in BOOLEAN, moved \in BOOLEAN,
           s \in (Picked \cap Allowed(KeyMe[k])) \cup {NoSource} :
        /\ key' = [key EXCEPT ![k] = KeySettings(key[k], fly, moved)]
        /\ keySource' = [keySource EXCEPT ![k] = s]
  BY DEF KeyChange
<1>2. /\ Sound(KeySettings(key[k], fly, moved)) /\ Flies(KeySettings(key[k], fly, moved))
      /\ TiesNothing(KeySettings(key[k], fly, moved), key[k])
  BY KeySettingsSound DEF Inv, KeysInv, KeySound
<1>3. MesInv' /\ KeysInv'
  BY <1>1, <1>2, OneKeyerChanges DEF KeyChange, Inv
<1>4. SourceInv'
  BY <1>1, SourceFacts DEF Inv, SourceInv
<1>5. FtbInv' /\ HeldInv' /\ DueInv' /\ PlanInv'
  BY DEF KeyChange, Inv, FtbInv, HeldInv, DueInv, PlanInv
<1>6. PcInv' /\ pc'["control"] = "idle"
  BY DEF KeyChange, Inv, PcInv, Threads
<1>7. Carried'
  BY <1>6, Defaults DEF KeyChange, Carried
<1> QED BY <1>3, <1>4, <1>5, <1>6, <1>7 DEF Inv

(* Every command of a keyer is one of the operations of Keyer.             *)
LEMMA KeyerCommandStep ==
  ASSUME Inv, NEW k \in Keys, KeyerCommand(k)
  PROVE  Inv'
<1>0. Sound(key[k]) /\ Flies(key[k]) /\ key[k].keyframes \in Nat
  BY DEF Inv, KeysInv, KeySound, Sound, KeyerType
<1>1. CASE KeySet(k)
  <2>1. PICK on \in BOOLEAN : KeyCommand("keySet", k, CutKey(key[k], on))
    BY <1>1 DEF KeySet
  <2> QED BY <1>0, <2>1, CutKeySound, KeyCommandStep DEF TiesNothing
<1>2. CASE KeyFade(k)
  <2>1. PICK n \in Rates, run \in RunLengths \ {0} :
          KeyCommand("keyAuto", k, KeyAuto(key[k], n, run))
    BY <1>2 DEF KeyFade
  <2>2. n \in Nat /\ run \in Nat
    BY MixerAssumption
  <2> QED BY <1>0, <2>1, <2>2, KeyAutoSound, KeyCommandStep DEF TiesNothing
<1>3. CASE KeyPath(k)
  <2>1. PICK n \in KeyframeCounts : KeyCommand("keyKeyframes", k, KeyKeyframes(key[k], n))
    BY <1>3 DEF KeyPath
  <2>2. n \in Nat
    BY MixerAssumption
  <2> QED BY <1>0, <2>1, <2>2, KeyKeyframesSound, KeyCommandStep
<1>4. CASE KeyMove(k)
  <2>1. PICK j \in 0 .. key[k].keyframes - 1, n \in RunLengths, jump \in BOOLEAN :
          KeyCommand("keyRun", k, KeyRun(key[k], j, n, jump))
    BY <1>4 DEF KeyMove
  <2>2. j \in Nat /\ j < key[k].keyframes /\ n \in Nat
    BY <1>0, MixerAssumption
  <2> QED BY <1>0, <2>1, <2>2, KeyRunSound, KeyCommandStep
<1>5. CASE KeyStop(k)
  <2>1. Sound(StopRun(key[k])) /\ Flies(StopRun(key[k])) /\ TiesNothing(StopRun(key[k]), key[k])
    BY <1>0, StopRunSound DEF Flies
  <2> QED BY <1>5, <2>1, KeyCommandStep DEF KeyStop
<1> QED BY <1>1, <1>2, <1>3, <1>4, <1>5, KeyChangeStep DEF KeyerCommand

-----------------------------------------------------------------------------
(* Inv is inductive.  The render thread's steps together.                   *)
LEMMA RenderStep ==
  ASSUME Inv, Render
  PROVE  Inv'
<1>1. "render" \in Threads
  BY DEF Threads
<1> QED BY <1>1, WakeStep, MakeHeldStep, NoteHeldStep, PlanStep DEF Render

(* The commands of an ME together.                                         *)
LEMMA MeCommandStep ==
  ASSUME Inv, NEW m \in Mes, MeCommand(m)
  PROVE  Inv'
  BY TakeNowStep, SetProgramStep, SetPreviewStep, SetTransitionStep, SetFtbStep, CutStep,
     AutoTransitionStep, PositionStep DEF MeCommand

(* Every step of the control thread.                                       *)
LEMMA ControlStep ==
  ASSUME Inv, Control
  PROVE  Inv'
<1>1. "control" \in Threads
  BY DEF Threads
<1>2. CASE Command
  BY <1>1, <1>2, MakeHeldStep, NoteHeldStep, MeCommandStep, KeyerCommandStep, CutTakeStep,
     AutoTakeStep, ScrubAutoStep DEF Command
<1>3. CASE CallMe
  BY <1>3, CallStep DEF CallMe
<1>4. CASE CallKey
  BY <1>4, CallStep DEF CallKey
<1> QED BY <1>2, <1>3, <1>4, TakeAtStep DEF Control

(* A step that changes nothing.                                            *)
LEMMA Stutters ==
  ASSUME Inv, UNCHANGED vars
  PROVE  Inv'
  BY DEF vars, Inv, MesInv, KeysInv, FtbInv, SourceInv, HeldInv, DueInv, PlanInv, PcInv, Carried

(* The invariant the theorems below follow from. *)
THEOREM Invariance == Spec => []Inv
<1>1. Init => Inv
  BY InitInv, Defaults, NewKeyerSound DEF Init
<1>2. Inv /\ [Next]_vars => Inv'
  BY RenderStep, ControlStep, Stutters DEF Next
<1> QED BY <1>1, <1>2, PTL DEF Spec

(* Every variable keeps its type. *)
THEOREM TypeCorrect == Spec => []TypeOK
<1>1. Inv => TypeOK
  BY DEF Inv, MesInv, KeysInv, FtbInv, SourceInv, HeldInv, DueInv, PlanInv, PcInv, Carried, TypeOK
<1> QED BY <1>1, Invariance, PTL

(* A keyer never stays tied to a transition that has ended, whichever      *)
(* thread ended it and whatever was called in between (tieEnd, endTies).   *)
THEOREM TiesEnd == Spec => []TieHasTransition
<1>1. Inv => TieHasTransition
  BY DEF Inv, KeysInv, KeySound, Followed, TieHasTransition
<1> QED BY <1>1, Invariance, PTL

(* No two things ever drive a keyer's gain at once (tieStart, keyAuto).    *)
THEOREM OneThingDrives == Spec => []OneDriver
<1>1. Inv => OneDriver
  BY DEF Inv, KeysInv, KeySound, Sound, OneDriven, Flies, OneDriver
<1> QED BY <1>1, Invariance, PTL

(* The keyframe a run or a tied fly goes to is always one of the keyer's,  *)
(* for lists of any length replaced at any time (keyKeyframes, tieAdvance).*)
THEOREM RunsToKeyframes == Spec => []TargetsExist
<1>1. Inv => TargetsExist
  BY DEF Inv, KeysInv, KeySound, Sound, HasTargets, TargetsExist
<1> QED BY <1>1, Invariance, PTL

(* However many grains are skipped, a transition that still runs has       *)
(* grains left and a stinger still waiting may still wait (frame).         *)
THEOREM TransitionsKeepTime == Spec => []EndsInTime
<1>1. Inv => EndsInTime
  BY DEF Inv, MesInv, MeSound, MixSound, EndsInTime
<1> QED BY <1>1, Invariance, PTL

(* No ME is ever rendered from itself: with any number of MEs, every       *)
(* source an ME has, will have or shows renders before it (sourceAllowed). *)
THEOREM RenderOrder == Spec => []NoRenderLoop
<1>1. Inv => NoRenderLoop
  <2>1. ASSUME Inv, NEW m \in Mes
        PROVE  /\ RendersAfter(m, held[m].take.target) /\ RendersAfter(m, held[m].take.preview)
    <3>1. held[m].take # NoTake => TakeSound(m, held[m].take)
      BY <2>1 DEF Inv, HeldInv
    <3>2. RendersAfter(m, NoTake.target) /\ RendersAfter(m, NoTake.preview)
      BY SourceFacts DEF NoTake
    <3> QED BY <3>1, <3>2 DEF TakeSound
  <2> QED BY <2>1 DEF Inv, MesInv, MeSound, Shows, SourceInv, PlanInv, PlanSound, NoRenderLoop
<1> QED BY <1>1, Invariance, PTL

(* Whatever ends a transition in a grain, the bar, time or a stinger that  *)
(* is given up, the picture that grain showed stays on Program (frame).    *)
THEOREM PictureStays == Spec => ShownIsKept
<1> DEFINE Kept == (grain > 0 /\ grain' = 0) =>
       \A m \in Mes : ~Busy(me'[m]) =>
         me'[m].program = IF plan'[m].t = Full \/ plan'[m].stinger THEN plan'[m].b ELSE plan'[m].a
<1>1. ASSUME Inv, [Next]_vars, grain > 0, grain' = 0
      PROVE  \E ready : Plan(ready)
  <2>1. CASE Render
    <3>1. \A d \in 1 .. MaxStep : d # 0
      BY MixerAssumption
    <3>2. Wake => \E d \in 1 .. MaxStep : grain' = d
      BY DEF Wake
    <3>3. \A th : MakeHeld(th) \/ NoteHeld(th) => grain' = grain
      BY DEF MakeHeld, NoteHeld
    <3> QED BY <1>1, <2>1, <3>1, <3>2, <3>3 DEF Render
  <2>2. CASE Control
    <3>1. /\ Return => grain' = grain
          /\ MeReturn => grain' = grain
          /\ \A next, what : GoOn(next, what) => grain' = grain
      BY DEF Return, MeReturn, GoOn
    <3>2. ASSUME NEW m, MeCommand(m)
          PROVE  grain' = grain
      BY <3>1, <3>2 DEF MeCommand, TakeNow, SetProgram, SetPreview, SetTransition, SetFtb, Cut,
                        AutoTransition, AutoAt, Position
    <3>3. ASSUME NEW k, KeyerCommand(k)
          PROVE  grain' = grain
      BY <3>1, <3>3 DEF KeyerCommand, KeySet, KeyFade, KeyPath, KeyMove, KeyStop, KeyChange, KeyCommand
    <3>4. CutTake \/ AutoTake \/ ScrubAuto => grain' = grain
      BY <3>1 DEF CutTake, AutoTake, ScrubAuto, AutoAt
    <3>5. \A th : MakeHeld(th) \/ NoteHeld(th) => grain' = grain
      BY DEF MakeHeld, NoteHeld
    <3>6. CallMe \/ CallKey \/ (\E m \in Mes : TakeAt(m)) => grain' = grain
      BY DEF CallMe, CallKey, Call, TakeAt
    <3>7. grain' = grain
      BY <2>2, <3>2, <3>3, <3>4, <3>5, <3>6 DEF Control, Command
    <3> QED BY <1>1, <3>7
  <2>3. ~UNCHANGED vars
    BY <1>1 DEF vars
  <2> QED BY <1>1, <2>1, <2>2, <2>3 DEF Next
<1>2. ASSUME Inv, NEW ready, Plan(ready)
      PROVE  Kept
  <2>1. ASSUME NEW m \in Mes
        PROVE  MeReached(m, Started(me[m], grain, ready))
    <3>1. grain \in Nat /\ MeSound(m, me[m])
      BY <1>2, MixerAssumption DEF Inv, PcInv, MesInv
    <3> QED BY <3>1, StartedSound
  <2>2. \A m \in Mes : /\ me'[m] = Planned1(Started(me[m], grain, ready))
                       /\ plan'[m] = MePlan(Started(me[m], grain, ready))
    BY <1>2 DEF Plan
  <2> QED BY <2>1, <2>2, MeGrainSound
<1>3. Inv /\ [Next]_vars => [Kept]_vars
  BY <1>1, <1>2
<1> QED BY <1>3, Invariance, PTL DEF Spec, ShownIsKept

(* What moves a keyer is there and alone as long as it moves it: the tie's *)
(* transition, the one driver of its gain, the keyframe it goes to.        *)
THEOREM KeysDriven == Spec => []KeysAreDriven
BY TiesEnd, OneThingDrives, RunsToKeyframes, PTL DEF KeysAreDriven

-----------------------------------------------------------------------------
(* What is held is a take, and a thread has takes in its hands only while  *)
(* it makes them.                                                          *)
HandInv ==
  /\ \A m \in Mes : IsHeld(m) => held[m].take # NoTake
  /\ \A th \in Threads : pc[th] \notin {"held", "made"} => HasDue(th) = {}

(* What one step does to the takes held of ME m (HeldTakesAreKept).        *)
TakeKept(m) ==
  /\ (IsHeld(m) /\ held'[m] = NotHeld) =>
       Cardinality({th \in Threads : due[th][m] = NoTake /\ due'[th][m] = held[m].take}) = 1
  /\ \A th \in Threads : (due[th][m] # NoTake /\ due'[th][m] = NoTake) => pc[th] = "made"

(* A step that keeps HandInv and loses no held take.                       *)
HandStep == HandInv' /\ \A m \in Mes : TakeKept(m)

(* What leaves `held` goes into the hands of one thread, which were empty. *)
LEMMA OutOfHeld ==
  ASSUME Inv, HandInv, NEW th \in Threads, pc[th] = "idle", NEW S, TakeOut(th, S),
         pc' = [pc EXCEPT ![th] = "held"]
  PROVE  HandStep
<1>1. /\ due \in [Threads -> [Mes -> TakeType \cup {NoTake}]] /\ HasDue(th) = {}
      /\ pc' \in [Threads -> {"idle", "held", "made", "cut", "auto", "scrub"}]
      /\ pc'[th] = "held" /\ \A o \in Threads : o # th => pc'[o] = pc[o]
  BY DEF Inv, DueInv, PcInv, HandInv
<1> DEFINE out == [m \in Mes |-> IF m \in S THEN held[m].take ELSE NoTake]
<1>2. /\ due'[th] = out /\ \A o \in Threads : o # th => due'[o] = due[o]
  BY <1>1 DEF TakeOut
<1>3. \A m \in Mes : held'[m] = IF m \in S THEN NotHeld ELSE held[m]
  BY DEF TakeOut
<1>4. HandInv'
  <2>1. \A m \in Mes : IsHeld(m)' => held'[m].take # NoTake
    BY <1>3 DEF HandInv, IsHeld
  <2>2. ASSUME NEW o \in Threads, pc'[o] \notin {"held", "made"} PROVE HasDue(o)' = {}
    BY <1>1, <1>2, <2>2 DEF HandInv, HasDue
  <2> QED BY <2>1, <2>2 DEF HandInv
<1>5. ASSUME NEW m \in Mes PROVE TakeKept(m)
  <2>1. due[th][m] = NoTake
    BY <1>1 DEF HasDue
  <2>2. ASSUME IsHeld(m), held'[m] = NotHeld
        PROVE  Cardinality({o \in Threads : due[o][m] = NoTake /\ due'[o][m] = held[m].take}) = 1
    <3>1. m \in S /\ held[m].take # NoTake
      BY <1>3, <2>2 DEF IsHeld, HandInv
    <3>2. {o \in Threads : due[o][m] = NoTake /\ due'[o][m] = held[m].take} = {th}
      BY <1>2, <2>1, <3>1
    <3> QED BY <3>2, FS_Singleton
  <2>3. \A o \in Threads : ~(due[o][m] # NoTake /\ due'[o][m] = NoTake)
    BY <1>2, <2>1
  <2> QED BY <2>2, <2>3 DEF TakeKept
<1> QED BY <1>4, <1>5 DEF HandStep

(* Where no take changes hands a thread may leave with empty ones.         *)
LEMMA HandsAlone ==
  ASSUME Inv, HandInv, NEW th \in Threads, NEW p, pc' = [pc EXCEPT ![th] = p],
         p \notin {"held", "made"} => HasDue(th) = {}, due' = due,
         \A m \in Mes : /\ IsHeld(m)' => held'[m].take # NoTake
                        /\ IsHeld(m) => held'[m] # NotHeld
  PROVE  HandStep
<1>1. /\ pc \in [Threads -> {"idle", "held", "made", "cut", "auto", "scrub"}]
      /\ pc'[th] = p /\ \A o \in Threads : o # th => pc'[o] = pc[o]
  BY DEF Inv, PcInv
<1>2. \A o : HasDue(o)' = HasDue(o)
  BY DEF HasDue
<1>3. HandInv'
  BY <1>1, <1>2 DEF HandInv
<1>4. \A m \in Mes : TakeKept(m)
  BY DEF TakeKept
<1> QED BY <1>3, <1>4 DEF HandStep

(* ... as it does when a call ends or goes on, *)
LEMMA CallsLeave ==
  ASSUME Inv, HandInv, NEW p, pc' = [pc EXCEPT !["control"] = p], due' = due, held' = held,
         HasDue("control") = {}
  PROVE  HandStep
<1>1. \A m \in Mes : (IsHeld(m)' <=> IsHeld(m)) /\ (IsHeld(m) => held'[m] # NotHeld)
  BY DEF IsHeld
<1>2. \A m \in Mes : IsHeld(m)' => held'[m].take # NoTake
  BY <1>1 DEF HandInv
<1> QED BY <1>1, <1>2, HandsAlone DEF Threads

(* while a held take is made, and once it was. *)
LEMMA MakeHands ==
  ASSUME Inv, HandInv, NEW th \in Threads, MakeHeld(th)
  PROVE  HandStep
<1>1. pc' = [pc EXCEPT ![th] = "made"] /\ due' = due /\ held' = held
  BY DEF MakeHeld
<1>2. \A m \in Mes : /\ IsHeld(m)' => held'[m].take # NoTake
                     /\ IsHeld(m) => held'[m] # NotHeld
  BY <1>1 DEF HandInv, IsHeld
<1> QED BY <1>1, <1>2, HandsAlone

(* ... and leaves the hands once it is noted as made.                      *)
LEMMA NoteHands ==
  ASSUME Inv, HandInv, NEW th \in Threads, NoteHeld(th)
  PROVE  HandStep
<1>1. PICK n \in Mes : due' = [due EXCEPT ![th][n] = NoTake]
  BY DEF NoteHeld
<1>2. /\ due \in [Threads -> [Mes -> TakeType \cup {NoTake}]]
      /\ pc \in [Threads -> {"idle", "held", "made", "cut", "auto", "scrub"}]
      /\ pc[th] = "made" /\ pc' = [pc EXCEPT ![th] = "held"] /\ held' = held
  BY DEF NoteHeld, Inv, DueInv, PcInv
<1>3. /\ \A o \in Threads : o # th => due'[o] = due[o] /\ pc'[o] = pc[o]
      /\ pc'[th] = "held"
  BY <1>1, <1>2
<1>4. HandInv'
  BY <1>2, <1>3 DEF HandInv, IsHeld, HasDue
<1>5. \A m \in Mes : TakeKept(m)
  BY <1>2, <1>3 DEF TakeKept, IsHeld
<1> QED BY <1>4, <1>5 DEF HandStep

(* The steps of the render thread lose no take.                            *)
LEMMA RenderHands ==
  ASSUME Inv, HandInv, Render
  PROVE  HandStep
<1>0. "render" \in Threads
  BY DEF Threads
<1>1. CASE Wake
  BY <1>0, <1>1, OutOfHeld DEF Wake
<1>2. ASSUME NEW ready, Plan(ready) PROVE HandStep
  <2>1. \A m \in Mes : IsHeld(m) => held[m] \in [in : Nat, take : TakeType \cup {NoTake}]
    BY DEF Inv, HeldInv
  <2>2. \A m \in Mes : held'[m] = IF IsHeld(m) THEN [held[m] EXCEPT !.in = IF @ > grain THEN @ - grain ELSE 0]
                            ELSE NotHeld
    BY <1>2 DEF Plan
  <2>3. \A m \in Mes : IsHeld(m) => held'[m].take = held[m].take /\ held[m].take # NoTake
    BY <2>1, <2>2 DEF HandInv
  <2>4. \A m \in Mes : /\ IsHeld(m)' => held'[m].take # NoTake
                       /\ IsHeld(m) => held'[m] # NotHeld
    BY <2>2, <2>3, Defaults DEF IsHeld
  <2>5. pc' = [pc EXCEPT !["render"] = "idle"] /\ HasDue("render") = {} /\ due' = due
    BY <1>2 DEF Plan
  <2> QED BY <1>0, <2>4, <2>5, HandsAlone
<1> QED BY <1>0, <1>1, <1>2, MakeHands, NoteHands DEF Render

(* A call begins with empty hands, makes what it took out, and ends so.    *)
LEMMA ControlHands ==
  ASSUME Inv, HandInv, Control
  PROVE  HandStep
<1>0. "control" \in Threads
  BY DEF Threads
<1>1. ASSUME NEW S, NEW m, Call(S, m) PROVE HandStep
  BY <1>0, <1>1, OutOfHeld DEF Call
<1>2. ASSUME NEW m \in Mes, TakeAt(m) PROVE HandStep
  <2>1. PICK tk \in Takes(m), n \in 0 .. MaxIn : held' = [held EXCEPT ![m] = [in |-> n, take |-> tk]]
    BY <1>2 DEF TakeAt
  <2>2. tk # NoTake
    BY MixerAssumption DEF Takes, NoTake
  <2>3. \A o \in Mes : held'[o] = IF o = m THEN [in |-> n, take |-> tk] ELSE held[o]
    BY <2>1 DEF Inv, HeldInv
  <2>4. \A o \in Mes : /\ IsHeld(o)' => held'[o].take # NoTake
                       /\ IsHeld(o) => held'[o] # NotHeld
    BY <2>2, <2>3 DEF HandInv, IsHeld, NotHeld
  <2>5. due' = due /\ pc' = pc /\ pc = [pc EXCEPT !["control"] = pc["control"]]
    BY <1>2 DEF TakeAt, Inv, PcInv
  <2> QED BY <1>0, <2>4, <2>5, HandsAlone DEF HandInv
<1>3. ASSUME HasDue("control") = {}, Return, held' = held PROVE HandStep
  BY <1>3, CallsLeave DEF Return
<1>4. ASSUME HasDue("control") = {}, NEW p, NEW what, GoOn(p, what) PROVE HandStep
  BY <1>4, CallsLeave DEF GoOn
<1>5. MeReturn => Return /\ held' = held
  BY DEF MeReturn
<1>6. ASSUME HasDue("control") = {}, NEW m, NEW rate, AutoAt(m, rate) PROVE HandStep
  BY <1>3, <1>4, <1>5, <1>6 DEF AutoAt
<1>7. ASSUME NEW m, MeCommand(m) PROVE HandStep
  <2>1. HasDue("control") = {}
    BY <1>7 DEF MeCommand, TakeNow, SetProgram, SetPreview, SetTransition, SetFtb, Cut,
                AutoTransition, Position, Ready
  <2>2. CASE AutoTransition(m)
    BY <1>6, <2>1, <2>2 DEF AutoTransition
  <2>3. CASE Position(m)
    BY <1>3, <1>4, <1>5, <2>1, <2>3 DEF Position
  <2> QED BY <1>3, <1>4, <1>5, <1>7, <2>1, <2>2, <2>3 DEF MeCommand, TakeNow, SetProgram,
             SetPreview, SetTransition, SetFtb, Cut
<1>8. ASSUME NEW k, KeyerCommand(k) PROVE HandStep
  <2>1. HasDue("control") = {}
    BY <1>8 DEF KeyerCommand, KeySet, KeyFade, KeyPath, KeyMove, KeyStop, KeyChange, KeyCommand, Ready
  <2>2. ASSUME NEW op, NEW new, KeyCommand(op, k, new) PROVE HandStep
    BY <1>3, <2>1, <2>2 DEF KeyCommand
  <2>3. CASE KeyChange(k)
    BY <2>1, <2>3, CallsLeave DEF KeyChange
  <2> QED BY <1>8, <2>2, <2>3 DEF KeyerCommand, KeySet, KeyFade, KeyPath, KeyMove, KeyStop
<1>9. ASSUME CutTake \/ AutoTake \/ ScrubAuto PROVE HandStep
  <2>1. HasDue("control") = {}
    BY <1>0, <1>9 DEF CutTake, AutoTake, ScrubAuto, HandInv
  <2> QED BY <1>3, <1>5, <1>6, <1>9, <2>1 DEF CutTake, AutoTake, ScrubAuto
<1> QED BY <1>0, <1>1, <1>2, <1>7, <1>8, <1>9, MakeHands, NoteHands
        DEF Control, Command, CallMe, CallKey

(* A held take is made by the thread that takes it out, and only by it.    *)
THEOREM HeldAreMade == Spec => HeldTakesAreKept
<1> DEFINE Kept == \A m \in Mes :
       /\ (IsHeld(m) /\ held'[m] = NotHeld) =>
            Cardinality({th \in Threads : due[th][m] = NoTake /\ due'[th][m] = held[m].take}) = 1
       /\ \A th \in Threads : (due[th][m] # NoTake /\ due'[th][m] = NoTake) => pc[th] = "made"
<1>1. Init => HandInv
  BY DEF Init, InitWith, HandInv, IsHeld, HasDue, NoneDue
<1>2. Inv /\ HandInv /\ [Next]_vars => HandInv' /\ [Kept]_vars
  <2>1. Inv /\ HandInv /\ Next => HandStep
    BY RenderHands, ControlHands DEF Next
  <2>2. HandInv /\ UNCHANGED vars => HandInv'
    BY DEF vars, HandInv, IsHeld, HasDue
  <2> QED BY <2>1, <2>2 DEF HandStep, TakeKept
<1> QED BY <1>1, <1>2, Invariance, PTL DEF Spec, HeldTakesAreKept

(* No fade of the keyer waits or runs. *)
Free(k) == ~(k.fade.pending \/ k.fade.running)

(* A keyer that flies has its path still, and no fade or tie beside.       *)
FlyOk(k) ==
  /\ k.tied => ~k.flying /\ ~k.tie.atCut
  /\ k.flying => CanFly(k) /\ Free(k)

(* A keyer is at the level of its state, or what moves it goes there.      *)
Levels(k) ==
  /\ Still(k) => k.fade.gain = Level(On(k))
  /\ ~Free(k) => k.fade.to = Level(On(k))
  /\ k.flying => k.fade.gain = Full
  /\ k.tied /\ ~k.tie.fly => k.tie.to = Level(On(k))

(* A sound keyer that flies or is tied as in the uses.                     *)
Rests(k) == Sound(k) /\ Flies(k) /\ FlyOk(k)

(* What the operations do to the parts of a keyer.                         *)
LEMMA HeldIs ==
  \A on, gain : /\ Held(on, gain).on = on /\ Held(on, gain).gain = gain
                /\ Held(on, gain).pending = FALSE /\ Held(on, gain).running = FALSE
  BY DEF Held

(* A fade that is set is at its level.                                     *)
LEMMA FadeSetIs ==
  \A on : /\ FadeSet(on).on = on /\ FadeSet(on).gain = Level(on)
          /\ FadeSet(on).pending = FALSE /\ FadeSet(on).running = FALSE
  BY DEF Held, FadeSet

(* The two levels.                                                         *)
LEMMA LevelIs == Level(TRUE) = Full /\ Level(FALSE) = 0
  BY DEF Level

(* A run that stops.                                                       *)
LEMMA StopRunIs ==
  ASSUME NEW k \in KeyerType
  PROVE  LET new == StopRun(k)
             stays == ~On(k) /\ ((k.flying /\ Running(k)) \/ TiedFly(k))
         IN /\ ~new.flying /\ new.fly = k.fly /\ new.keyframes = k.keyframes
            /\ new.fade.pending = k.fade.pending /\ new.fade.running = k.fade.running
            /\ new.fade.to = k.fade.to /\ new.fade.on = (On(k) \/ stays)
            /\ new.fade.gain = IF TiedFly(k) THEN Full ELSE k.fade.gain
            /\ IF TiedFly(k) THEN ~new.tied ELSE new.tied = k.tied /\ new.tie = k.tie
<1> DEFINE stays == ~On(k) /\ ((k.flying /\ Running(k)) \/ TiedFly(k))
           fade  == [k.fade EXCEPT !.on = @ \/ stays]
           halt  == [EndRun(k) EXCEPT !.fade = fade, !.flying = FALSE]
           new   == StopRun(k)
<1>1. /\ fade.on = (On(k) \/ stays) /\ fade.pending = k.fade.pending
      /\ fade.running = k.fade.running /\ fade.to = k.fade.to /\ fade.gain = k.fade.gain
      /\ fade \in FadeType
  BY DEF KeyerType, FadeType, On
<1>2. halt = [EndRun(k) EXCEPT !.fade.on = @ \/ stays, !.flying = FALSE]
  BY DEF EndRun, KeyerType
<1>3. new = IF TiedFly(k) THEN [Untie(halt) EXCEPT !.fade.gain = Full] ELSE halt
  BY <1>2 DEF StopRun
<1> HIDE DEF new, fade, stays
<1>4. /\ halt.fade = fade /\ halt.flying = FALSE /\ halt.tied = k.tied /\ halt.tie = k.tie
      /\ halt.fly = k.fly /\ halt.keyframes = k.keyframes /\ halt \in KeyerType
  BY <1>1 DEF EndRun, KeyerType, RunType, NoRun
<1> HIDE DEF halt
<1>5. CASE ~TiedFly(k)
  BY <1>1, <1>3, <1>4, <1>5 DEF new, stays
<1>6. CASE TiedFly(k)
  <2> DEFINE up == [Untie(halt) EXCEPT !.fade.gain = Full]
  <2>1. /\ up.flying = FALSE /\ up.tied = FALSE /\ up.fly = k.fly /\ up.keyframes = k.keyframes
        /\ up.fade = [fade EXCEPT !.gain = Full]
    BY <1>4 DEF Untie, KeyerType
  <2>2. /\ up.fade.on = fade.on /\ up.fade.pending = fade.pending
        /\ up.fade.running = fade.running /\ up.fade.to = fade.to /\ up.fade.gain = Full
    BY <1>1, <2>1 DEF FadeType
  <2>3. new = up
    BY <1>3, <1>6
  <2> HIDE DEF up
  <2> QED BY <1>1, <1>6, <2>1, <2>2, <2>3 DEF new, stays
<1> QED BY <1>5, <1>6

(* A keyer that is set on or off.                                          *)
LEMMA CutKeyIs ==
  ASSUME NEW k, Sound(k), NEW on \in BOOLEAN
  PROVE  /\ CutKey(k, on).fade = FadeSet(on) /\ CutKey(k, on).tied = FALSE
         /\ CutKey(k, on).flying => k.flying /\ ~CanFly(k)
<1> DEFINE loose == IF CanFly(k) THEN StopRun(Untie(k)) ELSE Untie(k)
<1>1. loose \in KeyerType /\ ~loose.tied /\ (loose.flying => k.flying /\ ~CanFly(k))
  BY UntieSound, StopRunSound DEF TiesNothing, Sound
<1>2. CutKey(k, on) = [loose EXCEPT !.fade = FadeSet(on)]
  BY DEF CutKey
<1> HIDE DEF loose
<1> QED BY <1>1, <1>2 DEF KeyerType

(* A keyer that was set is still, at its level. *)
LEMMA CutKeyRests ==
  ASSUME NEW k, Rests(k), NEW on \in BOOLEAN
  PROVE  Rests(CutKey(k, on)) /\ Levels(CutKey(k, on)) /\ On(CutKey(k, on)) = on
<1> DEFINE new == CutKey(k, on)
<1>1. new.fade = FadeSet(on) /\ ~new.tied /\ ~new.flying
  BY CutKeyIs DEF Rests, FlyOk
<1>2. Sound(new) /\ Flies(new)
  BY CutKeySound DEF Rests
<1> HIDE DEF new
<1>3. On(new) = on /\ new.fade.gain = Level(on) /\ Free(new)
  BY <1>1, FadeSetIs DEF On, Free
<1>4. Levels(new) /\ FlyOk(new)
  BY <1>1, <1>3 DEF Levels, FlyOk
<1> QED BY <1>2, <1>3, <1>4 DEF Rests, new

(* A run that stops leaves the keyer still, at its level.                  *)
LEMMA StopRunRests ==
  ASSUME NEW k, Rests(k)
  PROVE  /\ Rests(StopRun(k)) /\ ~StopRun(k).flying
         /\ Levels(k) => Levels(StopRun(k))
<1> DEFINE new == StopRun(k)
           stays == ~On(k) /\ ((k.flying /\ Running(k)) \/ TiedFly(k))
<1>0. k \in KeyerType /\ Sound(k)
  BY DEF Rests, Sound
<1>1. /\ ~new.flying /\ new.fly = k.fly /\ new.keyframes = k.keyframes
      /\ new.fade.pending = k.fade.pending /\ new.fade.running = k.fade.running
      /\ new.fade.to = k.fade.to /\ new.fade.on = (On(k) \/ stays)
      /\ new.fade.gain = IF TiedFly(k) THEN Full ELSE k.fade.gain
      /\ IF TiedFly(k) THEN ~new.tied ELSE new.tied = k.tied /\ new.tie = k.tie
  BY <1>0, StopRunIs
<1>2. Sound(new) /\ Flies(new)
  BY <1>0, StopRunSound DEF Flies
<1> HIDE DEF new
<1>3. FlyOk(new)
  BY <1>1 DEF Rests, FlyOk
<1>4. ASSUME Levels(k) PROVE Levels(new)
  <2>1. CASE TiedFly(k)
    <3>1. Free(new) /\ ~new.tied /\ new.fade.on /\ new.fade.gain = Full
      BY <1>0, <1>1, <2>1 DEF Sound, OneDriven, TiedFly, Free, KeyerType, FadeType, On
    <3> QED BY <1>1, <3>1, LevelIs DEF Levels, On
  <2>2. CASE ~TiedFly(k) /\ k.flying
    <3>1. Free(new) /\ ~new.tied /\ new.fade.on /\ new.fade.gain = Full
      BY <1>0, <1>1, <1>4, <2>2 DEF Rests, Flies, FlyOk, Free, Levels, KeyerType, FadeType, On
    <3> QED BY <1>1, <3>1, LevelIs DEF Levels, On
  <2>3. CASE ~TiedFly(k) /\ ~k.flying
    <3>1. On(new) = On(k) /\ (Still(new) = Still(k)) /\ (Free(new) = Free(k))
      BY <1>0, <1>1, <2>3 DEF On, Still, Free, KeyerType, FadeType
    <3> QED BY <1>1, <1>4, <2>3, <3>1 DEF Levels
  <2> QED BY <2>1, <2>2, <2>3
<1> QED BY <1>1, <1>2, <1>3, <1>4 DEF Rests, new

(* A tied keyer is on its way to its other state.                          *)
LEMMA TieStartRests ==
  ASSUME NEW k, Rests(k)
  PROVE  /\ Rests(TieStart(k, FALSE)) /\ Levels(TieStart(k, FALSE))
         /\ TieStart(k, FALSE).tied /\ On(TieStart(k, FALSE)) = ~On(k)
<1> DEFINE on  == ~On(k)
           fly == CanFly(k)
           tie == [atCut |-> FALSE, fly |-> fly, gain0 |-> k.fade.gain,
                   from |-> IF fly THEN 0 ELSE k.fade.gain,
                   to |-> IF fly THEN 0 ELSE Level(on),
                   target |-> IF fly THEN FlyTo(k, on) ELSE 0]
           new == TieStart(k, FALSE)
<1>0. k \in KeyerType /\ Sound(k)
  BY DEF Rests, Sound
<1>1. new = [EndRun(k) EXCEPT !.flying = FALSE, !.tied = TRUE, !.fade = Held(on, k.fade.gain), !.tie = tie]
  BY DEF TieStart
<1>2. ~tie.atCut /\ (~tie.fly => tie.to = Level(on))
  OBVIOUS
<1> HIDE DEF tie, on
<1>3. new.flying = FALSE /\ new.tied = TRUE /\ new.fade = Held(on, k.fade.gain) /\ new.tie = tie
  BY <1>0, <1>1 DEF EndRun, KeyerType
<1>4. Sound(new) /\ Flies(new)
  BY <1>0, TieStartSound DEF Rests
<1> HIDE DEF new
<1>5. On(new) = on /\ Free(new)
  BY <1>3, HeldIs DEF On, Free
<1>6. FlyOk(new) /\ Levels(new)
  BY <1>2, <1>3, <1>5 DEF FlyOk, Levels, Still
<1> QED BY <1>3, <1>4, <1>5, <1>6 DEF Rests, new, on

(* What a tied keyer shows at the end of its transition.                   *)
LEMMA BetweenEnd ==
  ASSUME NEW from \in 0 .. Full, NEW to \in 0 .. Full
  PROVE  Between(from, to, Full, Full) = to
<1>1. Full \in Nat \ {0}
  BY FullAssumption
<1> DEFINE x == to - from
<1>2. x \in Int /\ from + x = to
  BY <1>1
<1>3. (x * Full) \div Full = x
  BY <1>1, <1>2
<1> QED BY <1>2, <1>3 DEF Between

(* A keyer let go moves as before.                                         *)
LEMMA UntieIs ==
  ASSUME NEW k \in KeyerType
  PROVE  /\ Untie(k).fade = k.fade /\ Untie(k).flying = k.flying /\ Untie(k).tied = FALSE
         /\ Untie(k).run = k.run /\ (CanFly(Untie(k)) <=> CanFly(k))
  BY DEF Untie, KeyerType, CanFly

(* A new gain changes nothing else.                                        *)
LEMMA GainIs ==
  ASSUME NEW k \in KeyerType, NEW gain
  PROVE  LET new == [k EXCEPT !.fade.gain = gain]
         IN /\ new.fade.gain = gain /\ new.fade.on = k.fade.on /\ new.fade.to = k.fade.to
            /\ new.fade.pending = k.fade.pending /\ new.fade.running = k.fade.running
            /\ new.flying = k.flying /\ new.tied = k.tied /\ new.tie = k.tie
            /\ new.run = k.run /\ new.fly = k.fly /\ new.keyframes = k.keyframes
<1> DEFINE f == [k.fade EXCEPT !.gain = gain]
<1>1. /\ f.gain = gain /\ f.on = k.fade.on /\ f.to = k.fade.to
      /\ f.pending = k.fade.pending /\ f.running = k.fade.running
  BY DEF KeyerType, FadeType
<1>2. [k EXCEPT !.fade.gain = gain] = [k EXCEPT !.fade = f]
  BY DEF KeyerType
<1> HIDE DEF f
<1> QED BY <1>1, <1>2 DEF KeyerType

(* The end of a tie leaves the keyer still, at the level of its state when *)
(* the transition is complete.                                             *)
LEMMA TieEndRests ==
  ASSUME NEW k, Rests(k), NEW complete \in BOOLEAN
  PROVE  LET new == TieEnd(k, complete)
         IN /\ Rests(new) /\ ~new.tied
            /\ On(new) = (IF k.tied /\ ~complete THEN ~On(k) ELSE On(k))
            /\ complete /\ Levels(k) => Levels(new)
            /\ k.tied => Free(new) /\ ~new.flying
<1> DEFINE new == TieEnd(k, complete)
<1>0. k \in KeyerType /\ Sound(k) /\ Sound(new) /\ Flies(new) /\ ~new.tied
  BY TieEndSound DEF Rests, Sound
<1>1. CASE ~k.tied
  <2>1. new = k
    BY <1>1 DEF TieEnd
  <2> QED BY <1>1, <2>1
<1>2. CASE k.tied
  <2>1. ~k.flying /\ ~k.tie.atCut /\ Free(k)
    BY <1>2 DEF Rests, FlyOk, Sound, OneDriven, Free
  <2>2. CASE ~complete
    <3> DEFINE f == [k.fade EXCEPT !.on = ~@, !.gain = k.tie.gain0]
               back == [k EXCEPT !.fade = f]
    <3>1. f.on = ~On(k) /\ f.pending = k.fade.pending /\ f.running = k.fade.running
      BY <1>0 DEF KeyerType, FadeType, On
    <3>2. /\ [k EXCEPT !.fade.on = ~@, !.fade.gain = k.tie.gain0] = back
          /\ f \in FadeType
      BY <1>0 DEF KeyerType, FadeType, TieType
    <3> HIDE DEF f
    <3>3. back \in KeyerType /\ back.fade = f /\ back.flying = k.flying
      BY <1>0, <3>2 DEF KeyerType
    <3>4. new = Untie(back)
      BY <1>2, <2>1, <2>2, <3>2 DEF TieEnd
    <3> HIDE DEF back
    <3>5. new.fade = f /\ new.flying = k.flying /\ ~new.tied
      BY <3>3, <3>4, UntieIs
    <3> HIDE DEF new
    <3>6. On(new) = ~On(k) /\ Free(new) /\ FlyOk(new)
      BY <2>1, <3>1, <3>5 DEF On, Free, FlyOk
    <3> QED BY <1>0, <1>2, <2>1, <2>2, <3>5, <3>6 DEF Rests, new
  <2>3. CASE complete
    <3> DEFINE off == k.tie.fly /\ ~On(k)
               gain == IF off THEN 0 ELSE IF k.tie.fly THEN Full
                       ELSE Between(k.tie.from, k.tie.to, Full, Full)
               end == [k EXCEPT !.fade.gain = gain]
    <3>1. new = Untie(end)
      BY <1>2, <2>1, <2>3 DEF TieEnd, TieAdvance
    <3>2. ~k.tie.fly => gain = k.tie.to
      BY <1>0, BetweenEnd DEF KeyerType, TieType
    <3>3. Levels(k) => gain = Level(On(k))
      <4>1. On(k) \in BOOLEAN /\ k.tie.fly \in BOOLEAN
        BY <1>0 DEF KeyerType, FadeType, TieType, On
      <4>2. CASE off
        BY <4>2 DEF Level
      <4>3. CASE ~off /\ k.tie.fly
        BY <4>1, <4>3 DEF Level
      <4>4. CASE ~k.tie.fly
        BY <1>2, <3>2, <4>4 DEF Levels
      <4> QED BY <4>1, <4>2, <4>3, <4>4
    <3>4. gain \in 0 .. Full
      BY <1>0, <3>2, FullAssumption DEF KeyerType, TieType
    <3> HIDE DEF gain
    <3>5. /\ end \in KeyerType /\ end.fade.gain = gain /\ end.fade.on = k.fade.on
          /\ end.fade.pending = k.fade.pending /\ end.fade.running = k.fade.running
          /\ end.flying = k.flying
      <4>1. Sound(end)
        BY <1>0, <3>4, GainSound
      <4> QED BY <1>0, <4>1, GainIs DEF Sound
    <3> HIDE DEF end
    <3>6. /\ new.fade.gain = gain /\ On(new) = On(k) /\ new.flying = k.flying /\ ~new.tied
          /\ Free(new) = Free(k)
      BY <3>1, <3>5, UntieIs DEF On, Free
    <3> HIDE DEF new
    <3>7. FlyOk(new) /\ (Levels(k) => Levels(new))
      BY <2>1, <3>3, <3>6 DEF FlyOk, Levels, Still
    <3> QED BY <1>0, <2>1, <2>3, <3>6, <3>7 DEF Rests, new
  <2> QED BY <2>2, <2>3
<1> QED BY <1>1, <1>2

(* The keyer's Auto goes to the level of its new state.                    *)
LEMMA KeyAutoRests ==
  ASSUME NEW k, Rests(k), NEW frames \in Nat, NEW run \in Nat
  PROVE  /\ Rests(KeyAuto(k, frames, run)) /\ Levels(KeyAuto(k, frames, run))
<1> DEFINE loose == Untie(k)
           new == KeyAuto(k, frames, run)
<1>0. k \in KeyerType /\ Sound(k) /\ Sound(new) /\ Flies(new) /\ ~new.tied
  BY KeyAutoSound DEF Rests, Sound
<1>1. /\ loose \in KeyerType /\ loose.fade = k.fade /\ loose.fly = k.fly
      /\ loose.keyframes = k.keyframes /\ loose.flying = k.flying
  BY <1>0, UntieSound DEF Untie, Sound, KeyerType
<1>2. CASE CanFly(k)
  <2> DEFINE fly == StartRun(loose, FlyTo(k, ~On(k)), run)
             f   == Held(~On(k), Full)
  <2>1. new = [fly EXCEPT !.fade = f, !.flying = TRUE]
    BY <1>2 DEF KeyAuto
  <2>2. fly.fly = k.fly /\ fly.keyframes = k.keyframes /\ fly = [h \in DOMAIN k |-> fly[h]]
    BY <1>0, <1>1 DEF StartRun, KeyerType, Untie
  <2> HIDE DEF fly, loose, f
  <2>3. new.fade = f /\ new.flying = TRUE /\ new.fly = k.fly /\ new.keyframes = k.keyframes
    BY <1>0, <2>1, <2>2 DEF KeyerType
  <2> HIDE DEF new
  <2>4. Free(new) /\ new.fade.gain = Full /\ CanFly(new)
    BY <1>2, <2>3, HeldIs DEF Free, CanFly, f
  <2> QED BY <1>0, <2>3, <2>4 DEF Rests, FlyOk, Levels, Still, new
<1>3. CASE ~CanFly(k)
  <2>1. ~loose.flying
    BY <1>1, <1>3 DEF Rests, FlyOk
  <2>2. new = [loose EXCEPT !.fade = FadeAuto(loose.fade, frames)]
    BY <1>1, <1>3 DEF KeyAuto, KeyerType
  <2> HIDE DEF loose
  <2>3. new.fade = FadeAuto(loose.fade, frames) /\ ~new.flying
    BY <1>1, <2>1, <2>2 DEF KeyerType
  <2> HIDE DEF new
  <2>4. new.fade.pending /\ new.fade.to = Level(On(new))
    BY <2>3 DEF FadeAuto, On
  <2> QED BY <1>0, <2>3, <2>4 DEF Rests, FlyOk, Levels, Still, Free, new
<1> QED BY <1>2, <1>3

(* New keyframes stop a run.                                               *)
LEMMA KeyKeyframesRests ==
  ASSUME NEW k, Rests(k), NEW n \in Nat
  PROVE  Rests(KeyKeyframes(k, n)) /\ (Levels(k) => Levels(KeyKeyframes(k, n)))
<1> DEFINE stop == StopRun(k)
           new  == KeyKeyframes(k, n)
<1>1. Rests(stop) /\ ~stop.flying /\ (Levels(k) => Levels(stop)) /\ Sound(new) /\ Flies(new)
  BY StopRunRests, KeyKeyframesSound DEF Rests
<1>2. new = [stop EXCEPT !.keyframes = n]
  BY DEF KeyKeyframes
<1> HIDE DEF stop
<1>3. /\ new.fade = stop.fade /\ new.tied = stop.tied /\ new.tie = stop.tie
      /\ new.flying = stop.flying
  BY <1>1, <1>2 DEF Rests, Sound, KeyerType
<1> HIDE DEF new
<1> QED BY <1>1, <1>3 DEF Rests, FlyOk, Levels, Still, Free, On, new

(* A run, or a jump, leaves the gain as it is.                             *)
LEMMA KeyRunRests ==
  ASSUME NEW k, Rests(k), NEW j \in Nat, j < k.keyframes, NEW frames \in Nat, NEW jump \in BOOLEAN
  PROVE  Rests(KeyRun(k, j, frames, jump)) /\ (Levels(k) => Levels(KeyRun(k, j, frames, jump)))
<1> DEFINE stop == StopRun(k)
           new  == KeyRun(k, j, frames, jump)
<1>1. Rests(stop) /\ ~stop.flying /\ (Levels(k) => Levels(stop)) /\ Sound(new) /\ Flies(new)
  BY StopRunRests, KeyRunSound DEF Rests
<1>2. new = IF jump THEN stop ELSE StartRun(stop, j, frames)
  BY DEF KeyRun
<1> HIDE DEF stop
<1>3. /\ new.fade = stop.fade /\ new.tied = stop.tied /\ new.tie = stop.tie
      /\ new.flying = stop.flying
  BY <1>1, <1>2 DEF Rests, Sound, KeyerType, StartRun
<1> HIDE DEF new
<1> QED BY <1>1, <1>3 DEF Rests, FlyOk, Levels, Still, Free, On, new

-----------------------------------------------------------------------------
(* A grain of a keyer: what its tie does, *)
LEMMA TiedRests ==
  ASSUME NEW k, Rests(k), NEW tie, tie.t \in 0 .. Full
  PROVE  LET new == Tied(k, tie)
         IN /\ Rests(new) /\ new.flying = k.flying /\ (~k.tied => new = k)
            /\ On(new) = (IF k.tied /\ tie.back THEN ~On(k) ELSE On(k))
            /\ ~tie.back /\ Levels(k) => Levels(new)
<1> DEFINE new == Tied(k, tie)
<1>0. Sound(new) /\ Flies(new) /\ k \in KeyerType
  BY TiedSound DEF Rests, Sound
<1>1. CASE ~k.tied
  BY <1>1 DEF Tied
<1>2. CASE k.tied /\ tie.back
  <2>1. new = TieEnd(k, FALSE) /\ ~k.flying
    BY <1>2 DEF Tied, Rests, FlyOk
  <2>2. /\ Rests(TieEnd(k, FALSE))
        /\ On(TieEnd(k, FALSE)) = (IF k.tied /\ ~FALSE THEN ~On(k) ELSE On(k))
        /\ k.tied => ~TieEnd(k, FALSE).flying
    BY TieEndRests
  <2>3. On(TieEnd(k, FALSE)) = ~On(k)
    BY <1>2, <2>2
  <2> HIDE DEF new
  <2>4. Rests(new) /\ On(new) = ~On(k) /\ ~new.flying
    BY <1>2, <2>1, <2>2, <2>3
  <2>5. new.flying = k.flying
    BY <1>0, <2>1, <2>4 DEF Sound, KeyerType
  <2> QED BY <1>2, <2>4, <2>5 DEF new
<1>3. CASE k.tied /\ ~tie.back /\ tie.active
  <2> DEFINE gain == IF k.tie.fly THEN Full ELSE Between(k.tie.from, k.tie.to, tie.t, Full)
  <2>1. new = [k EXCEPT !.fade.gain = gain]
    BY <1>3 DEF Tied, TieAdvance, Rests, FlyOk
  <2> HIDE DEF gain
  <2>2. /\ On(new) = On(k) /\ new.flying = k.flying /\ new.tied = k.tied /\ new.tie = k.tie
        /\ new.fly = k.fly /\ new.keyframes = k.keyframes /\ Free(new) = Free(k)
    BY <1>0, <2>1, GainIs DEF On, Free
  <2> HIDE DEF new
  <2>3. FlyOk(new)
    BY <1>3, <2>2 DEF Rests, FlyOk
  <2>4. ASSUME Levels(k) PROVE Levels(new)
    <3>1. ~new.flying /\ ~Still(new) /\ Free(new)
      BY <1>3, <2>2, <1>0 DEF Rests, FlyOk, Still, Free, Sound, OneDriven
    <3>2. new.tied /\ ~new.tie.fly => new.tie.to = Level(On(new))
      BY <2>2, <2>4 DEF Levels
    <3> QED BY <3>1, <3>2 DEF Levels
  <2> QED BY <1>0, <1>3, <2>2, <2>3, <2>4 DEF Rests, new
<1>4. CASE k.tied /\ ~tie.back /\ ~tie.active
  <2>1. new = k
    BY <1>4 DEF Tied, Rests, FlyOk
  <2> QED BY <1>4, <2>1
<1> QED BY <1>1, <1>2, <1>3, <1>4

(* then its fade, *)
LEMMA FadeRests ==
  ASSUME NEW k, Rests(k), NEW d \in Nat
  PROVE  LET new == [k EXCEPT !.fade = FadeAdvance(@, d)]
         IN /\ Rests(new) /\ On(new) = On(k) /\ new.flying = k.flying /\ new.run = k.run
            /\ new.tied = k.tied /\ new.tie = k.tie
            /\ Levels(k) => Levels(new)
            /\ Free(k) => new.fade = k.fade
<1> DEFINE f == FadeAdvance(k.fade, d)
           new == [k EXCEPT !.fade = f]
<1>0. k \in KeyerType /\ Sound(k) /\ f \in FadeType /\ (Free(k) => f = k.fade)
  BY FadeAdvanceType DEF Rests, Sound, KeyerType, Free
<1>1. new = [k EXCEPT !.fade = FadeAdvance(@, d)]
  BY <1>0 DEF KeyerType
<1>2. f.on = k.fade.on
  BY HeldIs DEF FadeAdvance
<1>3. ~Free(k) /\ Levels(k) => IF f.pending \/ f.running THEN f.to = Level(On(k))
                                                          ELSE f.gain = Level(On(k))
  BY HeldIs DEF FadeAdvance, Free, Levels
<1>4. /\ new.fade = f /\ new.flying = k.flying /\ new.run = k.run /\ new.tied = k.tied
      /\ new.tie = k.tie /\ new.fly = k.fly /\ new.keyframes = k.keyframes
  BY <1>0 DEF KeyerType
<1> HIDE DEF f
<1>5. Sound(new) /\ Flies(new)
  BY <1>0, FadeSound DEF Rests, Free, Sound, OneDriven
<1> HIDE DEF new
<1>6. On(new) = On(k) /\ FlyOk(new)
  BY <1>0, <1>2, <1>4 DEF On, FlyOk, Rests, CanFly, Free
<1>7. ASSUME Levels(k) PROVE Levels(new)
  <2>1. CASE Free(k)
    BY <1>0, <1>4, <1>6, <1>7, <2>1 DEF Levels, Still, Free
  <2>2. CASE ~Free(k)
    <3>1. ~k.flying
      BY <2>2 DEF Rests, FlyOk
    <3>2. k.tied => FALSE
      BY <1>0, <2>2 DEF Rests, FlyOk, Free, Sound, OneDriven
    <3> QED BY <1>3, <1>4, <1>6, <1>7, <2>2, <3>1, <3>2 DEF Levels, Still, Free
  <2> QED BY <2>1, <2>2
<1> QED BY <1>0, <1>1, <1>4, <1>5, <1>6, <1>7 DEF Rests, new

(* then its run. *)
LEMMA RunIs ==
  ASSUME NEW k, Sound(k), NEW d \in Nat
  PROVE  LET new == RunAdvance(k, d)
         IN /\ Sound(new) /\ new.fade = k.fade /\ new.flying = k.flying /\ new.tied = k.tied
            /\ new.tie = k.tie /\ new.fly = k.fly /\ new.keyframes = k.keyframes
            /\ ~RunEnds(k, d) /\ Flies(k) => Flies(new)
<1>1. Sound(RunAdvance(k, d)) /\ (~RunEnds(k, d) /\ Flies(k) => Flies(RunAdvance(k, d)))
  BY RunAdvanceSound
<1> QED BY <1>1 DEF RunAdvance, EndRun, Sound, KeyerType

(* A grain leaves a keyer at rest or on its way to its level; only the     *)
(* T-bar back at 0 turns it over, and a fly off that ends leaves it dark.  *)
LEMMA KeyGrainRests ==
  ASSUME NEW k, Rests(k), NEW d \in Nat, NEW tie, tie.t \in 0 .. Full
  PROVE  LET new == KeyGrain(k, tie, d)
         IN /\ Rests(new)
            /\ On(new) = (IF k.tied /\ tie.back THEN ~On(k) ELSE On(k))
            /\ ~tie.back /\ Levels(k) => Levels(new)
            /\ k.flying /\ ~new.flying /\ ~On(new) => new.fade.gain = 0 /\ Free(new)
<1> DEFINE tied    == Tied(k, tie)
           mid     == [tied EXCEPT !.fade = FadeAdvance(@, d)]
           planned == RunAdvance(mid, d)
           left    == IF TieEnds(k, tie) THEN TieEnd(planned, TRUE) ELSE planned
           flewOff == left.flying /\ ~On(left)
           gain    == IF flewOff THEN 0 ELSE left.fade.gain
           off     == [left EXCEPT !.fade.gain = gain, !.flying = FALSE]
           new     == KeyGrain(k, tie, d)
           turns   == k.tied /\ tie.back
<1>0. /\ Rests(tied) /\ tied.flying = k.flying /\ (~k.tied => tied = k)
      /\ On(tied) = (IF turns THEN ~On(k) ELSE On(k))
      /\ ~tie.back /\ Levels(k) => Levels(tied)
  BY TiedRests
<1>1. new = IF RunEnds(tied, d) THEN [left EXCEPT !.fade.gain = IF flewOff THEN 0 ELSE @, !.flying = FALSE]
                                ELSE left
  BY DEF KeyGrain, Planned
<1>2. Sound(new) /\ Flies(new) /\ k.keyframes \in Nat
  BY KeyGrainSound DEF Rests, Sound, KeyerType
<1> HIDE DEF tied, turns
<1>3. /\ Rests(mid) /\ On(mid) = On(tied) /\ mid.flying = k.flying /\ mid.run = tied.run
      /\ Levels(tied) => Levels(mid)
      /\ Free(tied) => mid.fade = tied.fade
  BY <1>0, FadeRests
<1>4. RunEnds(mid, d) <=> RunEnds(tied, d)
  BY <1>3 DEF RunEnds, RunRan, Running
<1> HIDE DEF mid
<1>5. /\ Sound(planned) /\ planned.fade = mid.fade /\ planned.flying = k.flying
      /\ planned.tied = mid.tied /\ planned.tie = mid.tie /\ planned.fly = mid.fly
      /\ planned.keyframes = mid.keyframes
      /\ ~RunEnds(tied, d) => Flies(planned)
  BY <1>3, <1>4, RunIs DEF Rests
<1> HIDE DEF planned
<1>6. /\ FlyOk(planned) /\ On(planned) = On(mid) /\ (Levels(mid) => Levels(planned))
      /\ Free(planned) = Free(mid)
  BY <1>3, <1>5 DEF Rests, FlyOk, Levels, Still, Free, On, CanFly
<1>7. CASE k.tied
  <2>1. ~k.flying /\ ~planned.flying /\ Rests(planned)
    BY <1>5, <1>6, <1>7 DEF Rests, FlyOk, Flies
  <2>2. /\ Rests(left) /\ On(left) = On(planned) /\ ~left.flying
        /\ Levels(planned) => Levels(left)
    <3>1. CASE TieEnds(k, tie)
      <4>1. /\ Rests(left) /\ On(left) = On(planned) /\ (Levels(planned) => Levels(left))
            /\ planned.tied => ~left.flying
        BY <2>1, <3>1, TieEndRests
      <4>2. ~planned.tied => left = planned
        BY <3>1 DEF TieEnd
      <4> QED BY <2>1, <4>1, <4>2
    <3>2. CASE ~TieEnds(k, tie)
      BY <2>1, <3>2
    <3> QED BY <3>1, <3>2
  <2>3. left \in KeyerType
    BY <2>2 DEF Rests, Sound
  <2> HIDE DEF left
  <2>4. new = left
    <3>1. [left EXCEPT !.fade.gain = IF flewOff THEN 0 ELSE @, !.flying = FALSE] = left
      BY <2>2, <2>3 DEF KeyerType, FadeType
    <3> QED BY <1>1, <3>1
  <2> HIDE DEF new
  <2> QED BY <1>0, <1>3, <1>6, <2>1, <2>2, <2>4 DEF new, turns
<1>8. CASE ~k.tied
  <2>1. left = planned /\ tied = k /\ ~mid.tied /\ On(left) = On(k)
    BY <1>0, <1>3, <1>5, <1>6, <1>8 DEF TieEnds, turns, FadeAdvance, mid, Rests, Sound, KeyerType
  <2>2. left \in KeyerType
    BY <1>5, <2>1 DEF Sound
  <2>3. ~tie.back /\ Levels(k) => Levels(left)
    BY <1>0, <1>3, <1>6, <2>1
  <2>4. FlyOk(left) /\ left.flying = k.flying /\ ~left.tied
    BY <1>5, <1>6, <2>1
  <2> HIDE DEF left
  <2>5. CASE ~RunEnds(tied, d)
    <3>1. new = left
      BY <1>1, <2>5
    <3> QED BY <1>2, <1>8, <2>1, <2>3, <2>4, <3>1 DEF Rests
  <2>6. CASE RunEnds(tied, d)
    <3>1. /\ new.fade.gain = gain /\ new.flying = FALSE /\ On(new) = On(left)
          /\ new.tied = left.tied /\ new.tie = left.tie /\ new.fade.to = left.fade.to
          /\ Free(new) = Free(left)
      <4> DEFINE set == [left EXCEPT !.fade.gain = gain]
      <4>0. left \in KeyerType => /\ set.fade.gain = gain /\ set.fade.on = left.fade.on /\ set.fade.to = left.fade.to
            /\ set.fade.pending = left.fade.pending /\ set.fade.running = left.fade.running
            /\ set.tied = left.tied /\ set.tie = left.tie
        <5> HIDE DEF gain
        <5> QED BY GainIs
      <4>1. set.fade.gain = gain /\ set.fade.on = left.fade.on /\ set.fade.to = left.fade.to
            /\ set.fade.pending = left.fade.pending /\ set.fade.running = left.fade.running
            /\ set.tied = left.tied /\ set.tie = left.tie
        BY <2>2, <4>0
      <4>2. new = [set EXCEPT !.flying = FALSE] /\ set = [h \in DOMAIN left |-> set[h]]
            /\ DOMAIN left = {"fade", "fly", "keyframes", "run", "flying", "tied", "tie"}
        BY <1>1, <2>2, <2>6 DEF KeyerType, FadeType
      <4> HIDE DEF set, gain
      <4>3. new.fade = set.fade /\ new.flying = FALSE /\ new.tied = set.tied /\ new.tie = set.tie
        BY <4>2
      <4> QED BY <4>1, <4>3 DEF On, Free
    <3> HIDE DEF new
    <3>2. FlyOk(new)
      BY <2>4, <3>1 DEF FlyOk
    <3>3. ASSUME Levels(left) PROVE Levels(new)
      <4>1. CASE ~left.flying
        BY <2>4, <3>1, <3>3, <4>1 DEF Levels, Still, Free
      <4>2. CASE left.flying
        <5>1. Free(left) /\ left.fade.gain = Full /\ On(left) \in BOOLEAN
          BY <2>2, <2>4, <3>3, <4>2 DEF FlyOk, Levels, KeyerType, FadeType, On
        <5>2. new.fade.gain = Level(On(new))
          BY <3>1, <4>2, <5>1 DEF Level
        <5> QED BY <2>4, <3>1, <5>1, <5>2 DEF Levels, Still, Free
      <4> QED BY <4>1, <4>2
    <3>4. k.flying /\ ~On(new) => new.fade.gain = 0 /\ Free(new)
      BY <2>4, <3>1 DEF FlyOk
    <3> QED BY <1>2, <1>8, <2>1, <2>3, <3>1, <3>2, <3>3, <3>4 DEF Rests, new
  <2> QED BY <2>5, <2>6
<1> QED BY <1>7, <1>8

(* A take that starts no stinger, on a keyer.                              *)
LEMMA TakeKeyRests ==
  ASSUME NEW k, Rests(k), NEW tk, ~IsStinger(tk), NEW tied \in BOOLEAN
  PROVE  LET new   == TakeKey(k, tk, tied)
             turns == tk.ties /\ tied
         IN /\ Rests(new) /\ (Levels(k) => Levels(new))
            /\ turns => On(new) = ~On(k) /\ (~IsImmediate(tk) => new.tied)
            /\ ~turns => On(new) = On(k)
<1> DEFINE end == TieEnd(k, TRUE)
           new == TakeKey(k, tk, tied)
<1>1. /\ Rests(end) /\ (Levels(k) => Levels(end))
      /\ On(end) = IF k.tied /\ ~TRUE THEN ~On(k) ELSE On(k)
  BY TieEndRests
<1>2. On(end) = On(k)
  BY <1>1
<1>3. IsStinger(tk) = FALSE /\ (~On(end)) \in BOOLEAN
  OBVIOUS
<1>4. new = IF ~(tk.ties /\ tied) THEN end
            ELSE IF IsImmediate(tk) THEN CutKey(end, ~On(end))
            ELSE TieStart(end, FALSE)
  BY <1>3 DEF TakeKey
<1> HIDE DEF end, new
<1>5. CASE ~(tk.ties /\ tied)
  <2>1. new = end
    BY <1>4, <1>5
  <2> QED BY <1>1, <1>2, <1>5, <2>1 DEF new
<1>6. CASE tk.ties /\ tied /\ IsImmediate(tk)
  <2>1. new = CutKey(end, ~On(end))
    BY <1>4, <1>6
  <2>2. Rests(new) /\ Levels(new) /\ On(new) = ~On(end)
    BY <1>1, <1>3, <2>1, CutKeyRests
  <2> QED BY <1>2, <1>6, <2>2 DEF new
<1>7. CASE tk.ties /\ tied /\ ~IsImmediate(tk)
  <2>1. new = TieStart(end, FALSE)
    BY <1>4, <1>7
  <2>2. Rests(new) /\ Levels(new) /\ new.tied /\ On(new) = ~On(end)
    BY <1>1, <2>1, TieStartRests
  <2> QED BY <1>2, <1>7, <2>2 DEF new
<1> QED BY <1>5, <1>6, <1>7

(* Only the keyer's own Auto lets it fly.                                  *)
LEMMA TieEndGrounded ==
  ASSUME NEW k, Sound(k), NEW complete \in BOOLEAN, ~k.flying
  PROVE  ~TieEnd(k, complete).flying
<1>0. k \in KeyerType
  BY DEF Sound
<1>1. CASE k.tied /\ k.tie.atCut
  <2>1. (~On(k)) \in BOOLEAN
    OBVIOUS
  <2> QED BY <1>0, <1>1, <2>1, CutKeyIs, UntieIs DEF TieEnd
<1>2. CASE k.tied /\ ~k.tie.atCut
  BY <1>0, <1>2 DEF TieEnd, Untie, TieAdvance, KeyerType
<1> QED BY <1>1, <1>2 DEF TieEnd

(* A take starts no fly, ...                                               *)
LEMMA TakeKeyGrounded ==
  ASSUME NEW k, Sound(k), NEW tk, NEW tied \in BOOLEAN, ~k.flying
  PROVE  ~TakeKey(k, tk, tied).flying
<1> DEFINE end == TieEnd(k, TRUE)
<1>1. Sound(end) /\ ~end.flying
  BY TieEndSound, TieEndGrounded
<1>2. TakeKey(k, tk, tied) = IF ~(tk.ties /\ tied) THEN end
                             ELSE IF IsImmediate(tk) THEN CutKey(end, ~On(end))
                             ELSE TieStart(end, IsStinger(tk))
  BY DEF TakeKey
<1> HIDE DEF end
<1>3. ~CutKey(end, ~On(end)).flying
  <2>1. (~On(end)) \in BOOLEAN
    OBVIOUS
  <2> QED BY <1>1, <2>1, CutKeyIs
<1>4. ASSUME NEW c PROVE ~TieStart(end, c).flying
  BY <1>1 DEF TieStart, EndRun, Sound, KeyerType
<1> QED BY <1>1, <1>2, <1>3, <1>4

(* ... nor do new settings, ...                                            *)
LEMMA KeySettingsGrounded ==
  ASSUME NEW k, Sound(k), NEW fly \in BOOLEAN, NEW moved \in BOOLEAN, ~k.flying
  PROVE  ~KeySettings(k, fly, moved).flying
<1> DEFINE set == [k EXCEPT !.fly = fly]
<1>1. set \in KeyerType /\ ~set.flying
  BY DEF Sound, KeyerType
<1>2. KeySettings(k, fly, moved) = IF moved THEN StopRun(set) ELSE set
  BY DEF KeySettings
<1> HIDE DEF set
<1> QED BY <1>1, <1>2, StopRunIs

(* ... nor a grain.                                                        *)
LEMMA KeyGrainGrounded ==
  ASSUME NEW k, Sound(k), NEW d \in Nat, NEW tie, tie.t \in 0 .. Full, ~k.flying
  PROVE  ~KeyGrain(k, tie, d).flying
<1> DEFINE tied    == Tied(k, tie)
           mid     == [tied EXCEPT !.fade = FadeAdvance(@, d)]
           planned == RunAdvance(mid, d)
           left    == IF TieEnds(k, tie) THEN TieEnd(planned, TRUE) ELSE planned
<1>1. Sound(tied) /\ ~tied.flying
  <2>1. Sound(tied)
    BY TiedSound
  <2>2. ~CutKey(k, ~On(k)).flying
    <3>1. (~On(k)) \in BOOLEAN
      OBVIOUS
    <3> QED BY <3>1, CutKeyIs
  <2>3. ~TieEnd(k, FALSE).flying
    BY TieEndGrounded
  <2>4. ASSUME NEW t PROVE ~TieAdvance(k, t).flying
    BY DEF TieAdvance, Sound, KeyerType
  <2> QED BY <2>1, <2>2, <2>3, <2>4 DEF Tied
<1>2. KeyGrain(k, tie, d) =
        IF RunEnds(tied, d)
        THEN [left EXCEPT !.fade.gain = IF left.flying /\ ~On(left) THEN 0 ELSE @, !.flying = FALSE]
        ELSE left
  BY DEF KeyGrain, Planned
<1> HIDE DEF tied
<1>3. Sound(mid) /\ ~mid.flying
  <2>1. tied.fade \in FadeType
    BY <1>1 DEF Sound, KeyerType
  <2>2. /\ FadeAdvance(tied.fade, d) \in FadeType
        /\ ~(tied.fade.pending \/ tied.fade.running) => FadeAdvance(tied.fade, d) = tied.fade
    BY <2>1, FadeAdvanceType
  <2> DEFINE f == FadeAdvance(tied.fade, d)
  <2>3. mid = [tied EXCEPT !.fade = f]
    BY <1>1 DEF Sound, KeyerType
  <2>4. tied.tied /\ ~tied.tie.atCut => ~(f.pending \/ f.running)
    BY <1>1, <2>2 DEF Sound, OneDriven
  <2> HIDE DEF f, mid
  <2> QED BY <1>1, <2>2, <2>3, <2>4, FadeSound DEF f, Sound, KeyerType
<1> HIDE DEF mid
<1>4. Sound(planned) /\ ~planned.flying
  BY <1>3, RunIs
<1> HIDE DEF planned
<1>5. Sound(left) /\ ~left.flying
  BY <1>4, TieEndSound, TieEndGrounded
<1>6. left \in KeyerType
  BY <1>5 DEF Sound
<1> HIDE DEF left
<1>7. left.fade.gain = IF left.flying /\ ~On(left) THEN 0 ELSE left.fade.gain
  BY <1>5
<1> QED BY <1>2, <1>5, <1>6 DEF KeyerType

(* The two sources ME m starts with. *)
Pair(m) == {FirstBus(2 * m - 2), FirstBus(2 * m - 1)}

(* An ME whose buses only swap: they hold the two sources it started with, *)
(* and a transition ends with the two exchanged.                           *)
Swaps(m, s) ==
  /\ {s.program, s.preview} = Pair(m)
  /\ Busy(s) => s.mix.target = s.preview /\ s.mix.after = s.program
  /\ s.mix.sting.player = 0
  /\ s.next.ties = Keys

(* A take of the two sources; one that takes time, of those on the buses.  *)
SwapTake(m, s, tk) ==
  /\ {tk.target, tk.preview} = Pair(m) /\ tk.preview # NoSource
  /\ tk.sting.player = 0
  /\ IsImmediate(tk) \/ (~Busy(s) /\ tk.target = s.preview /\ tk.preview = s.program)

(* Without the T-bar a keyer is at its level, or goes to it.               *)
NoBar == use \in {"rest", "fades"}

(* An ME in a use, and a keyer.                                            *)
MeUsed(m, s) == Swaps(m, s) /\ (NoBar => ~s.mix.manual)
KeyUsed(k)   == FlyOk(k) /\ (NoBar => Levels(k))

(* A keyer of ME m turns with the background: it is on when what is on     *)
(* Program, or will be, is the source that was on Preview at the start.    *)
Turns(m, k, s) ==
  use = "swap" =>
    /\ On(k) <=> (IF Busy(s) THEN s.preview ELSE s.program) = FirstBus(2 * m - 1)
    /\ Busy(s) => k.tied

(* A call between its two sections read the two sources; an Auto's still   *)
(* are on the buses, as it found none running.                             *)
SeenUsed ==
  /\ pc["control"] \in {"cut", "auto"} => {seen.program, seen.preview} = Pair(seen.me)
  /\ pc["control"] = "auto" =>
       LET s == me[seen.me] IN
       ~Busy(s) /\ seen.program = s.program /\ seen.preview = s.preview
  /\ use = "swap" => pc["control"] # "cut"

(* The uses that change the buses or the keyer's settings one by one. *)
OneByOne == use \in {"buses", "holds"}

(* No take is held or in the hands of a thread.                            *)
NothingHeld == \A m \in Mes : ~IsHeld(m) /\ \A th \in Threads : due[th][m] = NoTake

(* All MEs and keyers are as in the use, and the keyers turn with the MEs. *)
MesUsed  == \A m \in Mes : MeUsed(m, me[m])
KeysUsed == \A k \in Keys : KeyUsed(key[k])
KeysTurn == \A k \in Keys : Turns(KeyMe[k], key[k], me[KeyMe[k]])

(* The inductive invariant of the uses, on top of Inv.                     *)
UseInv ==
  /\ use \in Chosen
  /\ OneByOne => \A k \in Keys : ~key[k].flying
  /\ ~OneByOne => NothingHeld /\ MesUsed /\ KeysUsed /\ KeysTurn /\ SeenUsed

-----------------------------------------------------------------------------
(* With two inputs or more the two sources of an ME are different.         *)
LEMMA Successor ==
  ASSUME NEW n \in Nat, n >= 2, NEW x \in Int
  PROVE  x % n # (x + 1) % n
<1>1. n \in Nat \ {0}
  OBVIOUS
<1>2. \A y \in Int : y = n * (y \div n) + (y % n) /\ y \div n \in Int /\ y % n \in Int
  BY <1>1, SMTT(30)
<1>3. PICK q \in Int : x = n * q + (x % n)
  BY <1>2
<1>4. PICK p \in Int : x + 1 = n * p + ((x + 1) % n)
  <2>1. x + 1 \in Int
    OBVIOUS
  <2> QED BY <1>2, <2>1
<1>5. SUFFICES ASSUME x % n = (x + 1) % n PROVE FALSE
  OBVIOUS
<1> DEFINE r == x % n
           d == p - q
<1>6. x = n * q + r /\ x + 1 = n * p + r /\ r \in Int /\ d \in Int
  BY <1>2, <1>3, <1>4, <1>5
<1> HIDE DEF r
<1>7. n * d = 1
  BY <1>6
<1> HIDE DEF d
<1>8. (d >= 1 => n * d >= n) /\ (d <= 0 => n * d <= 0)
  BY <1>6
<1> QED BY <1>6, <1>7, <1>8

(* The sources of an ME are two.                                           *)
LEMMA TwoSources ==
  ASSUME InputCount >= 2, NEW m \in Mes
  PROVE  FirstBus(2 * m - 2) # FirstBus(2 * m - 1)
<1> DEFINE x == 2 * m - 2
<1>1. x \in Int /\ x + 1 = 2 * m - 1 /\ InputCount \in Nat
  BY MixerAssumption DEF Mes
<1>2. x % InputCount # (x + 1) % InputCount
  BY <1>1, Successor
<1>3. x % InputCount \in Int /\ (x + 1) % InputCount \in Int
  BY <1>1
<1> HIDE DEF x
<1>4. (x % InputCount) + 1 # ((x + 1) % InputCount) + 1
  BY <1>2, <1>3
<1>5. FirstBus(x) # FirstBus(x + 1)
  BY <1>1, <1>4 DEF FirstBus
<1> QED BY <1>1, <1>5 DEF x

(* The sources of an ME are none that stands for no source. *)
LEMMA PairIsSource ==
  ASSUME NEW m \in Mes
  PROVE  Pair(m) \subseteq Source /\ NoSource \notin Pair(m)
<1>1. 2 * m - 2 \in Int /\ 2 * m - 1 \in Int
  BY MixerAssumption DEF Mes
<1>2. NoSource \notin Source
  BY DEF NoSource, Source, Black
<1> QED BY <1>1, <1>2, FirstBusSource DEF Pair

(* A transition that ends leaves the two sources exchanged.                *)
LEMMA FinishSwaps ==
  ASSUME NEW m \in Mes, NEW s, MeSound(m, s), Swaps(m, s)
  PROVE  LET f == FinishMix(s)
         IN /\ Swaps(m, f) /\ ~Busy(f) /\ ~f.mix.manual /\ f.next = s.next /\ f \in MeType
            /\ f.program = (IF Busy(s) THEN s.preview ELSE s.program)
            /\ f.preview = (IF Busy(s) THEN s.program ELSE s.preview)
<1> DEFINE f == FinishMix(s)
<1>1. s.program # NoSource
  BY PairIsSource DEF Swaps
<1>2. /\ f.mix = NoMix /\ f.next = s.next
      /\ f.program = (IF Busy(s) THEN s.preview ELSE s.program)
      /\ f.preview = (IF Busy(s) THEN s.program ELSE s.preview)
  BY <1>1 DEF FinishMix, Rest, Swaps, MeSound, MeType
<1>3. f \in MeType
  BY FinishMixSound DEF MeSound
<1> HIDE DEF f
<1>4. ~Busy(f) /\ f.mix.sting.player = 0 /\ ~f.mix.manual
  BY <1>2 DEF Busy, NoMix, NoSting
<1>5. {f.program, f.preview} = {s.program, s.preview}
  BY <1>2
<1> QED BY <1>2, <1>3, <1>4, <1>5 DEF Swaps, f

(* A take of the two sources exchanges them, or will.                      *)
LEMMA TakeSwaps ==
  ASSUME NEW m \in Mes, NEW s, MeSound(m, s), Swaps(m, s), NEW tk, SwapTake(m, s, tk)
  PROVE  LET new == TakeMe(s, tk)
         IN /\ Swaps(m, new) /\ ~new.mix.manual
            /\ IsImmediate(tk) => /\ ~Busy(new) /\ new.program = tk.target
            /\ ~IsImmediate(tk) => Busy(new) /\ new.program = s.program /\ new.preview = s.preview
<1> DEFINE f == FinishMix(s)
           new == TakeMe(s, tk)
<1>1. /\ Swaps(m, f) /\ ~Busy(f) /\ ~f.mix.manual /\ f \in MeType
      /\ f.program = (IF Busy(s) THEN s.preview ELSE s.program)
      /\ f.preview = (IF Busy(s) THEN s.program ELSE s.preview)
  BY FinishSwaps
<1>2. new = IF IsImmediate(tk)
            THEN [f EXCEPT !.program = tk.target,
                           !.preview = IF tk.preview = NoSource THEN @ ELSE tk.preview]
            ELSE [f EXCEPT !.mix = Coming(tk)]
  BY DEF TakeMe
<1> HIDE DEF f, new
<1>3. CASE IsImmediate(tk)
  <2>1. /\ new.program = tk.target /\ new.preview = tk.preview /\ new.mix = f.mix /\ new.next = f.next
    BY <1>1, <1>2, <1>3 DEF SwapTake, MeType
  <2> QED BY <1>1, <1>3, <2>1 DEF Swaps, SwapTake, Busy, new
<1>4. CASE ~IsImmediate(tk)
  <2>1. /\ new.program = f.program /\ new.preview = f.preview /\ new.next = f.next
        /\ new.mix = Coming(tk)
    BY <1>1, <1>2, <1>4 DEF MeType
  <2>2. /\ Coming(tk).target = tk.target /\ Coming(tk).after = tk.preview /\ Coming(tk).pending
        /\ ~Coming(tk).manual /\ Coming(tk).sting.player = 0
    BY DEF Coming, SwapTake, IsStinger, NoMix, NoSting
  <2>3. ~Busy(s) /\ tk.target = s.preview /\ tk.preview = s.program
    BY <1>4 DEF SwapTake
  <2> QED BY <1>1, <1>4, <2>1, <2>2, <2>3 DEF Swaps, Busy, new
<1> QED BY <1>3, <1>4

(* The rest of a T-bar's transition ends with the same exchange, *)
LEMMA ResumedSwaps ==
  ASSUME NEW m, NEW s, MeSound(m, s), Swaps(m, s), s.mix.manual, NEW rate
  PROVE  LET new == [s EXCEPT !.mix = Resumed(s.mix, rate)]
         IN /\ Swaps(m, new) /\ ~new.mix.manual /\ Busy(new) /\ Busy(s)
            /\ new.program = s.program /\ new.preview = s.preview
<1> DEFINE x   == Resumed(s.mix, rate)
           new == [s EXCEPT !.mix = x]
<1>1. Busy(s)
  BY DEF MeSound, MixSound, Busy
<1>2. /\ x.target = s.mix.target /\ x.after = s.mix.after /\ x.pending /\ ~x.manual
      /\ x.sting.player = 0
  BY DEF Resumed, NoMix, NoSting
<1> HIDE DEF x
<1>3. new.mix = x /\ new.program = s.program /\ new.preview = s.preview /\ new.next = s.next
  BY DEF MeSound, MeType
<1> HIDE DEF new
<1>4. Swaps(m, new) /\ ~new.mix.manual /\ Busy(new)
  BY <1>1, <1>2, <1>3 DEF Swaps, Busy
<1> QED BY <1>1, <1>3, <1>4 DEF new, x

(* as does the transition the T-bar starts or holds. *)
LEMMA ScrubSwaps ==
  ASSUME NEW m, NEW s, MeSound(m, s), Swaps(m, s), ~s.mix.pending, NEW t
  PROVE  LET new == Scrub(s, t)
         IN /\ Swaps(m, new) /\ Busy(new) /\ (Busy(s) <=> s.mix.mixing)
            /\ new.program = s.program /\ new.preview = s.preview
<1> DEFINE new == Scrub(s, t)
<1>1. CASE s.mix.mixing
  <2> DEFINE x == [s.mix EXCEPT !.t = t]
  <2>1. /\ x.target = s.mix.target /\ x.after = s.mix.after /\ x.mixing = s.mix.mixing
        /\ x.sting = s.mix.sting
    BY DEF MeSound, MeType, MixType
  <2>2. new = [s EXCEPT !.mix = x]
    BY <1>1 DEF Scrub, MeSound, MeType
  <2> HIDE DEF x
  <2>3. new.mix = x /\ new.program = s.program /\ new.preview = s.preview /\ new.next = s.next
    BY <2>2 DEF MeSound, MeType
  <2> HIDE DEF new
  <2> QED BY <1>1, <2>1, <2>3 DEF Swaps, Busy, new
<1>2. CASE ~s.mix.mixing
  <2> DEFINE x == [NoMix EXCEPT !.target = s.preview, !.after = s.program, !.frames = s.next.frames,
                                !.mixing = TRUE, !.manual = TRUE, !.t = t]
  <2>1. x.target = s.preview /\ x.after = s.program /\ x.mixing /\ x.sting.player = 0
    BY DEF NoMix, NoSting
  <2>2. new = [s EXCEPT !.mix = x]
    BY <1>2 DEF Scrub
  <2> HIDE DEF x
  <2>3. new.mix = x /\ new.program = s.program /\ new.preview = s.preview /\ new.next = s.next
    BY <2>2 DEF MeSound, MeType
  <2> HIDE DEF new
  <2> QED BY <1>2, <2>1, <2>3 DEF Swaps, Busy, new
<1> QED BY <1>1, <1>2

(* A grain goes on with the exchange or ends it, or drops it when the      *)
(* T-bar is back at 0.                                                     *)
LEMMA GrainSwaps ==
  ASSUME NEW m \in Mes, NEW s, MeSound(m, s), Swaps(m, s), NEW d \in Nat, NEW ready
  PROVE  LET r   == Started(s, d, ready)
             new == Planned1(r)
         IN /\ Swaps(m, new) /\ (~s.mix.manual => ~new.mix.manual)
            /\ Busy(new) => Busy(s) /\ ~Completes(r.mix) /\ ~GoesBack(r.mix)
            /\ GoesBack(r.mix) => s.mix.manual
            /\ (IF Busy(new) THEN new.preview ELSE new.program) =
                 (IF Busy(s) /\ (GoesBack(r.mix) => Completes(r.mix)) THEN s.preview ELSE s.program)
<1> DEFINE x   == Reached(s.mix, d, ready)
           r   == Started(s, d, ready)
           new == Planned1(r)
<1>1. ~Waits(s.mix, ready) /\ ~GivesUp(s.mix, d, ready)
  BY DEF Swaps, Waits, GivesUp
<1>2. /\ x.target = s.mix.target /\ x.after = s.mix.after /\ x.sting = s.mix.sting
      /\ (x.pending \/ x.mixing <=> Busy(s)) /\ x.manual = s.mix.manual
  BY <1>1 DEF Reached, Busy, MeSound, MeType, MixType
<1>3. r = [s EXCEPT !.mix = x]
  BY <1>1 DEF Started
<1> HIDE DEF x
<1>4. /\ r.mix = x /\ r.program = s.program /\ r.preview = s.preview /\ r.next = s.next
  BY <1>3 DEF MeSound, MeType
<1>5. MeReached(m, r)
  BY StartedSound
<1> HIDE DEF r
<1>6. Swaps(m, r) /\ (Busy(r) <=> Busy(s)) /\ r.mix.manual = s.mix.manual
  BY <1>2, <1>4 DEF Swaps, Busy
<1>7. GoesBack(r.mix) => s.mix.manual /\ Busy(r)
  BY <1>6 DEF GoesBack, Scrubbing, Busy
<1>8. CASE Completes(r.mix)
  <2>1. new = FinishMix(r) /\ Busy(r)
    BY <1>8 DEF Planned1, Completes, Scrubbing, Stinging, Fading, Busy
  <2>2. r.program # NoSource
    BY <1>6, PairIsSource DEF Swaps
  <2>3. /\ new.mix = NoMix /\ new.next = r.next /\ new.program = r.preview /\ new.preview = r.program
    BY <1>5, <1>6, <2>1, <2>2 DEF FinishMix, Rest, Swaps, MeReached, MeType
  <2>4. ~NoMix.manual /\ ~NoMix.pending /\ ~NoMix.mixing /\ NoMix.sting.player = 0
    BY DEF NoMix, NoSting
  <2> HIDE DEF new
  <2>5. ~Busy(new) /\ ~new.mix.manual /\ {new.program, new.preview} = {r.program, r.preview}
    BY <2>3, <2>4 DEF Busy
  <2>6. Swaps(m, new)
    BY <1>6, <2>3, <2>4, <2>5 DEF Swaps
  <2> QED BY <1>4, <1>6, <1>7, <1>8, <2>1, <2>3, <2>5, <2>6 DEF new, r
<1>9. CASE ~Completes(r.mix) /\ GoesBack(r.mix)
  <2>1. new = Rest(r)
    BY <1>9 DEF Planned1
  <2>2. new.mix = NoMix /\ new.next = r.next /\ new.program = r.program /\ new.preview = r.preview
    BY <1>5, <2>1 DEF Rest, MeReached, MeType
  <2>3. ~NoMix.manual /\ ~NoMix.pending /\ ~NoMix.mixing /\ NoMix.sting.player = 0
    BY DEF NoMix, NoSting
  <2> HIDE DEF new
  <2>4. ~Busy(new) /\ ~new.mix.manual /\ Swaps(m, new)
    BY <1>6, <2>2, <2>3 DEF Busy, Swaps
  <2> QED BY <1>4, <1>7, <1>9, <2>2, <2>4 DEF new, r
<1>10. CASE ~Completes(r.mix) /\ ~GoesBack(r.mix)
  <2> DEFINE y == IF Scrubbing(r.mix) THEN [r.mix EXCEPT !.tLast = r.mix.t] ELSE r.mix
  <2>1. /\ y.target = r.mix.target /\ y.after = r.mix.after /\ y.pending = r.mix.pending
        /\ y.mixing = r.mix.mixing /\ y.manual = r.mix.manual /\ y.sting = r.mix.sting
    BY <1>5 DEF MeReached, MeType, MixType
  <2>2. new = [r EXCEPT !.mix = y]
    BY <1>5, <1>10 DEF Planned1, MeReached, MeType
  <2> HIDE DEF y
  <2>3. new.mix = y /\ new.program = r.program /\ new.preview = r.preview /\ new.next = r.next
    BY <1>5, <2>2 DEF MeReached, MeType
  <2> HIDE DEF new
  <2>4. Swaps(m, new) /\ (Busy(new) <=> Busy(r)) /\ new.mix.manual = r.mix.manual
    BY <1>6, <2>1, <2>3 DEF Swaps, Busy
  <2> QED BY <1>4, <1>6, <1>10, <2>3, <2>4 DEF new, r
<1> QED BY <1>8, <1>9, <1>10

(* A tied keyer stays tied as long as its transition goes on. *)
LEMMA KeyGrainStays ==
  ASSUME NEW k, Rests(k), k.tied, NEW d \in Nat, NEW tie, tie.t \in 0 .. Full, ~tie.back, ~tie.end
  PROVE  KeyGrain(k, tie, d).tied
<1> DEFINE tied    == Tied(k, tie)
           mid     == [tied EXCEPT !.fade = FadeAdvance(@, d)]
           planned == RunAdvance(mid, d)
<1>1. ~k.tie.atCut /\ k \in KeyerType
  BY DEF Rests, FlyOk, Sound
<1>2. tied.tied /\ Rests(tied)
  <2>1. tied = TieAdvance(k, tie.t) \/ tied = k
    BY <1>1 DEF Tied
  <2>2. TieAdvance(k, tie.t).tied
    BY TieAdvanceSound DEF Rests
  <2> QED BY <2>1, <2>2, TiedRests
<1>3. KeyGrain(k, tie, d) =
        IF RunEnds(tied, d)
        THEN [planned EXCEPT !.fade.gain = IF planned.flying /\ ~On(planned) THEN 0 ELSE @,
                             !.flying = FALSE]
        ELSE planned
  BY DEF KeyGrain, Planned, TieEnds
<1> HIDE DEF tied
<1>4. Rests(mid) /\ mid.tied
  BY <1>2, FadeRests
<1> HIDE DEF mid
<1>5. Sound(planned) /\ planned.tied
  BY <1>4, RunIs DEF Rests
<1> HIDE DEF planned
<1> QED BY <1>3, <1>5 DEF Sound, KeyerType

(* What a run picks is a use; swapping needs two inputs to tell apart. *)
UsesAssumption == Chosen \subseteq DOMAIN Uses /\ ("swap" \in Chosen => InputCount >= 2)

(* A keyer of an ME in one of the uses. *)
KeyGoes(m, k, s) == KeyUsed(k) /\ Turns(m, k, s)

(* What UseInv rests on in a use where the buses only swap.                *)
InUse == UsesAssumption /\ Inv /\ UseInv /\ ~OneByOne

(* What a use calls, and what it does not. *)
LEMMA UsedOps ==
  ASSUME Chosen \subseteq DOMAIN Uses, use \in Chosen
  PROVE  /\ OneByOne => /\ ~Used("position") /\ ~Used("keySet") /\ ~Used("keyAuto")
                        /\ ~Used("keyKeyframes") /\ ~Used("keyRun") /\ ~Used("keyStop")
         /\ ~OneByOne => /\ ~Used("take") /\ ~Used("program") /\ ~Used("preview")
                         /\ ~Used("transition") /\ ~Used("takeAt") /\ ~Used("keySettings")
         /\ NoBar => ~Used("position")
         /\ use = "swap" => /\ ~Used("cut") /\ ~Used("keySet") /\ ~Used("keyAuto")
                            /\ ~Used("keyKeyframes") /\ ~Used("keyRun") /\ ~Used("keyStop")
<1>1. use \in {"buses", "ties", "swap", "rest", "fades", "holds"}
  BY DEF Uses
<1>2. CASE use = "buses"
  BY <1>2 DEF Used, Uses, OneByOne, NoBar
<1>3. CASE use = "ties"
  BY <1>3 DEF Used, Uses, OneByOne, NoBar
<1>4. CASE use = "swap"
  BY <1>4 DEF Used, Uses, OneByOne, NoBar
<1>5. CASE use = "rest"
  BY <1>5 DEF Used, Uses, OneByOne, NoBar
<1>6. CASE use = "fades"
  BY <1>6 DEF Used, Uses, OneByOne, NoBar
<1>7. CASE use = "holds"
  BY <1>7 DEF Used, Uses, OneByOne, NoBar
<1> QED BY <1>1, <1>2, <1>3, <1>4, <1>5, <1>6, <1>7

(* What the proofs below know of a keyer and of its ME. *)
LEMMA InUseKey ==
  ASSUME InUse, NEW k \in Keys
  PROVE  /\ Rests(key[k]) /\ KeyGoes(KeyMe[k], key[k], me[KeyMe[k]]) /\ KeyMe[k] \in Mes
         /\ Followed(key[k], me[KeyMe[k]])
  BY MixerAssumption DEF InUse, Inv, KeysInv, KeySound, UseInv, KeysUsed, KeysTurn, KeyGoes, Rests, KeyUsed

(* ... and of an ME.                                                       *)
LEMMA InUseMe ==
  ASSUME InUse, NEW m \in Mes
  PROVE  MeSound(m, me[m]) /\ MeUsed(m, me[m]) /\ Swaps(m, me[m])
  BY DEF InUse, Inv, MesInv, UseInv, MesUsed, MeUsed

-----------------------------------------------------------------------------
(* One ME changes, with its keyers. *)
LEMMA OneMeGoes ==
  ASSUME InUse, use' = use, NEW m \in Mes, NEW new, MeUsed(m, new),
         me' = [me EXCEPT ![m] = new],
         \A k \in Keys : IF KeyMe[k] = m THEN KeyGoes(m, key'[k], new) ELSE key'[k] = key[k]
  PROVE  MesUsed' /\ KeysUsed' /\ KeysTurn'
<1>1. /\ me'[m] = new /\ \A n \in Mes : n # m => me'[n] = me[n]
  BY DEF InUse, Inv, MesInv
<1>2. \A n \in Mes : MeUsed(n, me'[n])
  BY <1>1, InUseMe
<1>3. \A k \in Keys : KeyGoes(KeyMe[k], key'[k], me'[KeyMe[k]])
  BY <1>1, InUseKey
<1>5. MesUsed'
  BY <1>2 DEF MesUsed, MeUsed, NoBar
<1>6. KeysUsed'
  BY <1>3 DEF KeysUsed, KeyUsed, KeyGoes, NoBar
<1>7. KeysTurn'
  BY <1>3 DEF KeysTurn, Turns, KeyGoes
<1> QED BY <1>5, <1>6, <1>7

(* One keyer changes; an operator who only swaps calls none.               *)
LEMMA OneKeyGoes ==
  ASSUME InUse, use' = use, NEW j \in Keys, NEW new, KeyUsed(new), use # "swap",
         key' = [key EXCEPT ![j] = new], me' = me
  PROVE  MesUsed' /\ KeysUsed' /\ KeysTurn'
<1>1. \A k \in Keys : key'[k] = IF k = j THEN new ELSE key[k]
  BY DEF InUse, Inv, KeysInv
<1>2. \A k \in Keys : KeyUsed(key'[k])
  BY <1>1, InUseKey DEF KeyGoes
<1>3. KeysUsed'
  BY <1>2 DEF KeysUsed, KeyUsed, NoBar
<1>4. MesUsed'
  BY DEF InUse, UseInv, MesUsed, MeUsed, NoBar
<1> QED BY <1>3, <1>4 DEF KeysTurn, Turns

(* Neither changes.                                                        *)
LEMMA NoneGoes ==
  ASSUME InUse, use' = use, me' = me, key' = key
  PROVE  MesUsed' /\ KeysUsed' /\ KeysTurn'
  BY DEF InUse, UseInv, MesUsed, MeUsed, KeysUsed, KeyUsed, KeysTurn, Turns, NoBar

(* A command that ends. *)
LEMMA UseReturns ==
  ASSUME InUse, use' = use, Return, held' = held, MesUsed', KeysUsed', KeysTurn'
  PROVE  UseInv'
<1>1. NothingHeld'
  BY DEF InUse, UseInv, NothingHeld, IsHeld, Return
<1>2. pc'["control"] = "idle"
  BY DEF Return, InUse, Inv, PcInv, Threads
<1>3. SeenUsed'
  BY <1>2 DEF SeenUsed
<1> QED BY <1>1, <1>3 DEF InUse, UseInv, OneByOne

(* The two sources are exchanged, once per transition. *)
LEMMA Turned ==
  ASSUME NEW m \in Mes, NEW s, Swaps(m, s), InputCount >= 2
  PROVE  s.preview = FirstBus(2 * m - 1) <=> s.program # FirstBus(2 * m - 1)
  BY TwoSources DEF Swaps, Pair

-----------------------------------------------------------------------------
(* A take of the two sources, by whichever call. *)
LEMMA TakeGoes ==
  ASSUME InUse, use' = use,
         NEW m \in Mes, NEW tk, Take(m, tk), SwapTake(m, me[m], tk),
         use = "swap" => ~Busy(me[m]) /\ tk.target = me[m].preview /\ tk.ties
  PROVE  MesUsed' /\ KeysUsed' /\ KeysTurn'
<1> DEFINE s   == me[m]
           new == TakeMe(s, tk)
<1>1. MeSound(m, s) /\ MeUsed(m, s) /\ Swaps(m, s)
  BY InUseMe
<1>2. /\ Swaps(m, new) /\ ~new.mix.manual
      /\ IsImmediate(tk) => /\ ~Busy(new) /\ new.program = tk.target
      /\ ~IsImmediate(tk) => Busy(new) /\ new.program = s.program /\ new.preview = s.preview
  BY <1>1, TakeSwaps
<1>3. ~IsStinger(tk)
  BY DEF SwapTake, IsStinger
<1>4. me' = [me EXCEPT ![m] = new]
  BY DEF Take
<1> HIDE DEF new
<1>5. ASSUME NEW k \in Keys, KeyMe[k] = m
      PROVE  KeyGoes(m, key'[k], new)
  <2> DEFINE j == TakeKey(key[k], tk, k \in s.next.ties)
  <2>1. Rests(key[k]) /\ KeyUsed(key[k]) /\ Turns(m, key[k], s)
    BY <1>5, InUseKey DEF KeyGoes
  <2>2. k \in s.next.ties /\ (k \in s.next.ties) \in BOOLEAN
    BY <1>1 DEF Swaps
  <2>3. /\ Rests(j) /\ (Levels(key[k]) => Levels(j))
        /\ tk.ties => On(j) = ~On(key[k]) /\ (~IsImmediate(tk) => j.tied)
    BY <1>3, <2>1, <2>2, TakeKeyRests
  <2>4. key'[k] = j
    BY <1>5 DEF Take
  <2> HIDE DEF j
  <2>5. KeyUsed(j)
    BY <2>1, <2>3 DEF KeyUsed, Rests
  <2>6. ASSUME use = "swap" PROVE Turns(m, j, new)
    <3>1. /\ ~Busy(s) /\ tk.target = s.preview /\ On(j) = ~On(key[k]) /\ (~IsImmediate(tk) => j.tied)
          /\ On(key[k]) <=> s.program = FirstBus(2 * m - 1)
      BY <2>1, <2>3, <2>6 DEF Turns
    <3>2. s.preview = FirstBus(2 * m - 1) <=> s.program # FirstBus(2 * m - 1)
      BY <1>1, <2>6, Turned DEF InUse, UseInv, UsesAssumption
    <3> QED BY <1>2, <3>1, <3>2 DEF Turns
  <2> QED BY <2>4, <2>5, <2>6 DEF KeyGoes, Turns
<1>6. \A k \in Keys : KeyMe[k] # m => key'[k] = key[k]
  BY DEF Take
<1>7. MeUsed(m, new)
  BY <1>2 DEF MeUsed
<1> QED BY <1>4, <1>5, <1>6, <1>7, OneMeGoes

(* A grain exchanges the two sources at most, and every keyer with them.   *)
LEMMA PlanGoes ==
  ASSUME InUse, use' = use, NEW ready, Plan(ready)
  PROVE  UseInv'
<1> DEFINE r(m)   == Started(me[m], grain, ready)
           tie(m) == TieStep(r(m).mix, GivesUp(me[m].mix, grain, ready))
<1>1. grain \in Nat
  BY MixerAssumption DEF InUse, Inv, PcInv
<1>2. /\ me' = [m \in Mes |-> Planned1(r(m))]
      /\ key' = [k \in Keys |-> KeyGrain(key[k], tie(KeyMe[k]), grain)]
  BY DEF Plan
<1>3. ASSUME NEW m \in Mes
      PROVE  LET s   == me[m]
                 new == Planned1(r(m))
                 x   == r(m).mix
             IN /\ Swaps(m, new) /\ (~s.mix.manual => ~new.mix.manual)
                /\ Busy(new) => Busy(s) /\ ~Completes(x) /\ ~GoesBack(x)
                /\ GoesBack(x) => s.mix.manual
                /\ (IF Busy(new) THEN new.preview ELSE new.program) =
                     (IF Busy(s) /\ ~GoesBack(x) THEN s.preview ELSE s.program)
                /\ tie(m).t \in 0 .. Full
                /\ (tie(m).back <=> GoesBack(x)) /\ (tie(m).end <=> Completes(x))
  <2>1. MeSound(m, me[m]) /\ Swaps(m, me[m])
    BY InUseMe
  <2>2. GoesBack(r(m).mix) => ~Completes(r(m).mix)
    <3>1. MeReached(m, r(m))
      BY <1>1, <2>1, StartedSound
    <3>2. r(m).mix.t \in 0 .. Full /\ Full \in Nat \ {0}
      BY <3>1, FullAssumption DEF MeReached, MeType, MixType
    <3> HIDE DEF r
    <3>3. r(m).mix.manual => r(m).mix.sting.player = 0
      BY <3>1 DEF MeReached, MixReached
    <3> QED BY <3>2, <3>3 DEF GoesBack, Completes, Scrubbing, Stinging, Fading
  <2>3. tie(m).t \in 0 .. Full
    BY <1>1, <2>1, StartedSound, ShownType DEF TieStep, MeReached
  <2>4. (tie(m).back <=> GoesBack(r(m).mix)) /\ (tie(m).end <=> Completes(r(m).mix))
    BY DEF TieStep
  <2>5. LET s   == me[m]
            new == Planned1(r(m))
            x   == r(m).mix
        IN /\ Swaps(m, new) /\ (~s.mix.manual => ~new.mix.manual)
           /\ Busy(new) => Busy(s) /\ ~Completes(x) /\ ~GoesBack(x)
           /\ GoesBack(x) => s.mix.manual
           /\ (IF Busy(new) THEN new.preview ELSE new.program) =
                (IF Busy(s) /\ (GoesBack(x) => Completes(x)) THEN s.preview ELSE s.program)
    BY <1>1, <2>1, GrainSwaps
  <2> HIDE DEF r, tie
  <2> QED BY <2>2, <2>3, <2>4, <2>5
<1> HIDE DEF r, tie
<1>4. \A m \in Mes : me'[m] = Planned1(r(m))
  BY <1>2
<1>5. ASSUME NEW m \in Mes PROVE MeUsed(m, me'[m])
  BY <1>3, <1>4, InUseMe DEF MeUsed
<1>6. ASSUME NEW k \in Keys PROVE KeyGoes(KeyMe[k], key'[k], me'[KeyMe[k]])
  <2> DEFINE m   == KeyMe[k]
             s   == me[m]
             x   == r(m).mix
             new == KeyGrain(key[k], tie(m), grain)
  <2>1. /\ Rests(key[k]) /\ KeyUsed(key[k]) /\ Turns(m, key[k], s) /\ m \in Mes
        /\ (key[k].tied => Busy(s))
    BY InUseKey DEF KeyGoes, Followed
  <2>2. key'[k] = new /\ me'[m] = Planned1(r(m))
    BY <1>2, <1>4, <2>1
  <2>3. /\ Rests(new) /\ On(new) = (IF key[k].tied /\ tie(m).back THEN ~On(key[k]) ELSE On(key[k]))
        /\ ~tie(m).back /\ Levels(key[k]) => Levels(new)
    BY <1>1, <1>3, <2>1, KeyGrainRests
  <2>4. NoBar => ~tie(m).back
    BY <1>3, <2>1, InUseMe DEF MeUsed
  <2>5. KeyUsed(new)
    BY <2>1, <2>3, <2>4 DEF KeyUsed, Rests
  <2>6. ASSUME use = "swap" PROVE Turns(m, new, Planned1(r(m)))
    <3> DEFINE left == Planned1(r(m))
    <3>1. s.preview = FirstBus(2 * m - 1) <=> s.program # FirstBus(2 * m - 1)
      BY <2>1, <2>6, InUseMe, Turned DEF InUse, UseInv, UsesAssumption
    <3>2. /\ Busy(left) => Busy(s) /\ ~tie(m).end /\ ~tie(m).back
          /\ (IF Busy(left) THEN left.preview ELSE left.program) =
               (IF Busy(s) /\ ~tie(m).back THEN s.preview ELSE s.program)
      BY <1>3, <2>1
    <3>3. Busy(left) => new.tied
      BY <1>1, <1>3, <2>1, <2>6, <3>2, KeyGrainStays DEF Turns
    <3> HIDE DEF left, new
    <3>4. Busy(s) <=> key[k].tied
      BY <2>1, <2>6 DEF Turns
    <3>5. On(key[k]) <=> (IF Busy(s) THEN s.preview ELSE s.program) = FirstBus(2 * m - 1)
      BY <2>1, <2>6 DEF Turns
    <3>6. On(new) <=> (IF Busy(s) /\ ~tie(m).back THEN s.preview ELSE s.program) = FirstBus(2 * m - 1)
      <4>1. CASE Busy(s) /\ tie(m).back
        BY <2>3, <3>1, <3>4, <3>5, <4>1
      <4>2. CASE ~(Busy(s) /\ tie(m).back)
        BY <2>3, <3>4, <3>5, <4>2
      <4> QED BY <4>1, <4>2
    <3> QED BY <3>2, <3>3, <3>6 DEF Turns, left
  <2> HIDE DEF m, s, x, new
  <2>7. Turns(m, new, Planned1(r(m)))
    BY <2>6 DEF Turns
  <2> QED BY <2>2, <2>5, <2>7 DEF KeyGoes, m
<1>7. MesUsed' /\ KeysUsed' /\ KeysTurn'
  BY <1>5, <1>6 DEF MesUsed, MeUsed, KeysUsed, KeyUsed, KeysTurn, Turns, KeyGoes, NoBar
<1>8. NothingHeld'
  <2>1. held' = [m \in Mes |-> NotHeld] /\ due' = due
    BY DEF Plan, InUse, UseInv, NothingHeld
  <2> QED BY <2>1 DEF InUse, UseInv, NothingHeld, IsHeld
<1>9. SeenUsed'
  <2>1. pc'["control"] = pc["control"] /\ seen' = seen
    BY DEF Plan, InUse, Inv, PcInv, Threads
  <2>2. pc["control"] = "auto" => seen.me \in Mes
    BY DEF InUse, Inv, Carried
  <2>3. ASSUME pc["control"] = "auto"
        PROVE  LET s == me'[seen.me] IN
               ~Busy(s) /\ seen.program = s.program /\ seen.preview = s.preview
    <3> DEFINE m == seen.me
               s == me[m]
               new == me'[m]
    <3>1. m \in Mes /\ ~Busy(s) /\ seen.program = s.program /\ seen.preview = s.preview
      BY <2>2, <2>3 DEF InUse, UseInv, SeenUsed
    <3>2. ~Busy(new) /\ new.program = s.program
      BY <1>3, <1>4, <3>1
    <3>3. {new.program, new.preview} = Pair(m) /\ {s.program, s.preview} = Pair(m)
      BY <1>3, <1>4, <3>1, InUseMe DEF Swaps
    <3> HIDE DEF m, s, new
    <3>4. new.preview = s.preview
      BY <3>2, <3>3
    <3> QED BY <3>1, <3>2, <3>4 DEF m, s, new
  <2> QED BY <2>1, <2>3 DEF InUse, UseInv, SeenUsed
<1> QED BY <1>7, <1>8, <1>9 DEF InUse, UseInv, OneByOne

(* With nothing held the other steps of the two threads change nothing.    *)
LEMMA RenderGoes ==
  ASSUME InUse, use' = use, Render
  PROVE  UseInv'
<1>1. CASE Wake
  <2>1. PICK d \in 1 .. MaxStep : TakeOut("render", {m \in Mes : IsHeld(m) /\ held[m].in <= d})
    BY <1>1 DEF Wake
  <2>2. \A m \in Mes : ~IsHeld(m) /\ held[m].take = NoTake
    BY DEF InUse, UseInv, NothingHeld, IsHeld, NotHeld
  <2>3. \A th \in Threads, m \in Mes : due'[th][m] = NoTake
    <3> DEFINE S   == {m \in Mes : IsHeld(m) /\ held[m].in <= d}
               out == [m \in Mes |-> IF m \in S THEN held[m].take ELSE NoTake]
    <3>1. due' = [due EXCEPT !["render"] = out] /\ \A m \in Mes : out[m] = NoTake
      BY <2>1, <2>2 DEF TakeOut
    <3> HIDE DEF out
    <3> QED BY <3>1 DEF InUse, UseInv, NothingHeld, Inv, DueInv
  <2>4. \A m \in Mes : held'[m] = NotHeld
    BY <2>1, <2>2 DEF TakeOut, IsHeld
  <2>5. NothingHeld'
    BY <2>3, <2>4 DEF NothingHeld, IsHeld
  <2>6. SeenUsed'
    <3>1. pc'["control"] = pc["control"] /\ seen' = seen /\ me' = me
      BY <1>1 DEF Wake, InUse, Inv, PcInv, Threads
    <3> QED BY <3>1 DEF InUse, UseInv, SeenUsed
  <2>7. MesUsed' /\ KeysUsed' /\ KeysTurn'
    BY <1>1, NoneGoes DEF Wake
  <2> QED BY <2>5, <2>6, <2>7 DEF InUse, UseInv, OneByOne
<1>2. ~MakeHeld("render") /\ ~NoteHeld("render")
  BY DEF InUse, UseInv, NothingHeld, MakeHeld, NoteHeld, IsFirst, HasDue, Threads
<1> QED BY <1>1, <1>2, PlanGoes DEF Render

(* A call starts with nothing to make.                                     *)
LEMMA CallGoes ==
  ASSUME InUse, use' = use, NEW S, NEW m, Call(S, m)
  PROVE  UseInv'
<1>1. \A n \in Mes : held[n] = NotHeld /\ held[n].take = NoTake
  BY DEF InUse, UseInv, NothingHeld, IsHeld, NotHeld
<1>2. \A th \in Threads, n \in Mes : due'[th][n] = NoTake
  <2> DEFINE out == [n \in Mes |-> IF n \in S THEN held[n].take ELSE NoTake]
  <2>1. due' = [due EXCEPT !["control"] = out] /\ \A n \in Mes : out[n] = NoTake
    BY <1>1 DEF Call, TakeOut
  <2> HIDE DEF out
  <2> QED BY <2>1 DEF InUse, UseInv, NothingHeld, Inv, DueInv
<1>3. NothingHeld'
  BY <1>1, <1>2 DEF Call, TakeOut, NothingHeld, IsHeld
<1>4. pc'["control"] = "held"
  BY DEF Call, InUse, Inv, PcInv, Threads
<1>5. MesUsed' /\ KeysUsed' /\ KeysTurn'
  BY NoneGoes DEF Call
<1> QED BY <1>3, <1>4, <1>5 DEF InUse, UseInv, OneByOne, SeenUsed

(* A call that goes on reads the two sources of its ME.                    *)
LEMMA ReadGoes ==
  ASSUME InUse, use' = use, NEW m \in Mes, NEW next \in {"cut", "auto", "scrub"}, NEW what,
         GoOn(next, what), UNCHANGED <<me, key>>,
         next # "scrub" => /\ what.me = m /\ what.program = me[m].program
                           /\ what.preview = me[m].preview,
         next = "auto" => ~Busy(me[m]), use = "swap" => next # "cut"
  PROVE  UseInv'
<1>1. pc'["control"] = next /\ seen' = what /\ me' = me /\ held' = held /\ due' = due
  BY DEF GoOn, InUse, Inv, PcInv, Threads
<1>2. {me[m].program, me[m].preview} = Pair(m)
  BY InUseMe DEF Swaps
<1>3. SeenUsed'
  BY <1>1, <1>2 DEF SeenUsed
<1>4. NothingHeld'
  BY <1>1 DEF InUse, UseInv, NothingHeld, IsHeld
<1>5. MesUsed' /\ KeysUsed' /\ KeysTurn'
  BY NoneGoes
<1> QED BY <1>3, <1>4, <1>5 DEF InUse, UseInv, OneByOne

(* What Cut and Auto read.                                                 *)
LEMMA ReadIs ==
  ASSUME NEW m
  PROVE  /\ Read(m).me = m /\ Read(m).program = me[m].program /\ Read(m).preview = me[m].preview
         /\ \A next : LET what == [Read(m) EXCEPT !.next = next]
                      IN what.me = m /\ what.program = me[m].program /\ what.preview = me[m].preview
  BY DEF Read, Nothing

(* Cut reads the two sources.                                              *)
LEMMA CutGoes ==
  ASSUME InUse, use' = use, NEW m \in Mes, Cut(m), use # "swap"
  PROVE  UseInv'
<1>1. GoOn("cut", Read(m)) /\ UNCHANGED <<me, key>>
  BY DEF Cut
<1> QED BY <1>1, ReadGoes, ReadIs

(* Auto resumes the T-bar, is refused or reads them.                       *)
LEMMA AutoGoes ==
  ASSUME InUse, use' = use, NEW m \in Mes, NEW rate, AutoAt(m, rate)
  PROVE  UseInv'
<1> DEFINE s == me[m]
           new == [s EXCEPT !.mix = Resumed(s.mix, rate)]
<1>0. MeSound(m, s) /\ MeUsed(m, s) /\ Swaps(m, s)
  BY InUseMe
<1>1. CASE s.mix.manual /\ me' = [me EXCEPT ![m].mix = Resumed(@, rate)] /\ key' = key /\ MeReturn
  <2>1. /\ Swaps(m, new) /\ ~new.mix.manual /\ Busy(new) /\ Busy(s)
        /\ new.program = s.program /\ new.preview = s.preview
    BY <1>0, <1>1, ResumedSwaps
  <2>2. me' = [me EXCEPT ![m] = new]
    BY <1>1
  <2> HIDE DEF new
  <2>3. MeUsed(m, new)
    BY <2>1 DEF MeUsed
  <2>4. ASSUME NEW k \in Keys PROVE IF KeyMe[k] = m THEN KeyGoes(m, key'[k], new) ELSE key'[k] = key[k]
    BY <1>1, <2>1, InUseKey DEF KeyGoes, Turns
  <2> QED BY <1>1, <2>2, <2>3, <2>4, OneMeGoes, UseReturns DEF MeReturn
<1>2. CASE UNCHANGED <<me, key>> /\ MeReturn
  BY <1>2, NoneGoes, UseReturns DEF MeReturn
<1>3. CASE ~Busy(s) /\ GoOn("auto", [Read(m) EXCEPT !.next = [me[m].next EXCEPT !.frames = rate]])
           /\ UNCHANGED <<me, key>>
  <2> DEFINE what == [Read(m) EXCEPT !.next = [me[m].next EXCEPT !.frames = rate]]
  <2>1. what.me = m /\ what.program = me[m].program /\ what.preview = me[m].preview
    BY ReadIs
  <2>2. GoOn("auto", what)
    BY <1>3
  <2> HIDE DEF what
  <2> QED BY <1>3, <2>1, <2>2, ReadGoes
<1> QED BY <1>1, <1>2, <1>3 DEF AutoAt

(* The T-bar: it starts the exchange, or moves it. *)
LEMMA BarGoes ==
  ASSUME InUse, use' = use, NEW m \in Mes, Position(m), ~NoBar
  PROVE  UseInv'
<1> DEFINE s == me[m]
<1>0. MeSound(m, s) /\ MeUsed(m, s) /\ Swaps(m, s)
  BY InUseMe
<1>1. CASE UNCHANGED <<me, key>> /\ MeReturn
  BY <1>1, NoneGoes, UseReturns DEF MeReturn
<1>2. CASE GoOn("scrub", [Nothing EXCEPT !.me = m]) /\ UNCHANGED <<me, key>>
  BY <1>2, ReadGoes
<1>3. ASSUME NEW t, ~s.mix.pending, me' = [me EXCEPT ![m] = Scrub(@, t)], MeReturn,
             key' = [k \in Keys |-> IF ~s.mix.mixing /\ KeyMe[k] = m /\ k \in s.next.ties
                                    THEN TieStart(key[k], FALSE) ELSE key[k]]
      PROVE  UseInv'
  <2> DEFINE new == Scrub(s, t)
  <2>1. /\ Swaps(m, new) /\ Busy(new) /\ (Busy(s) <=> s.mix.mixing)
        /\ new.program = s.program /\ new.preview = s.preview
    BY <1>0, <1>3, ScrubSwaps
  <2>2. me' = [me EXCEPT ![m] = new]
    BY <1>3
  <2> HIDE DEF new
  <2>3. MeUsed(m, new)
    BY <2>1 DEF MeUsed
  <2>4. ASSUME NEW k \in Keys, KeyMe[k] = m PROVE KeyGoes(m, key'[k], new)
    <3>1. Rests(key[k]) /\ KeyUsed(key[k]) /\ Turns(m, key[k], s)
      BY <2>4, InUseKey DEF KeyGoes
    <3>2. CASE s.mix.mixing
      <4>1. key'[k] = key[k]
        BY <1>3, <3>2
      <4> QED BY <2>1, <3>1, <3>2, <4>1 DEF KeyGoes, Turns
    <3>3. CASE ~s.mix.mixing
      <4> DEFINE j == TieStart(key[k], FALSE)
      <4>1. Rests(j) /\ Levels(j) /\ j.tied /\ On(j) = ~On(key[k])
        BY <3>1, TieStartRests
      <4>2. key'[k] = j
        BY <1>0, <1>3, <2>4, <3>3 DEF Swaps
      <4> HIDE DEF j
      <4>3. use = "swap" => (s.preview = FirstBus(2 * m - 1) <=> s.program # FirstBus(2 * m - 1))
        BY <1>0, Turned DEF InUse, UseInv, UsesAssumption
      <4>4. Turns(m, j, new)
        BY <2>1, <3>1, <3>3, <4>1, <4>3 DEF Turns
      <4> QED BY <4>1, <4>2, <4>4 DEF KeyGoes, KeyUsed, Rests
    <3> QED BY <3>2, <3>3
  <2>5. \A k \in Keys : KeyMe[k] # m => key'[k] = key[k]
    BY <1>3
  <2> QED BY <1>3, <2>2, <2>3, <2>4, <2>5, OneMeGoes, UseReturns DEF MeReturn
<1> QED BY <1>1, <1>2, <1>3 DEF Position

(* What a call read it takes, the other way around.                        *)
LEMMA SeenGoes ==
  ASSUME InUse, use' = use, CutTake \/ AutoTake
  PROVE  UseInv'
<1> DEFINE m == seen.me
<1>1. m \in Mes /\ {seen.program, seen.preview} = Pair(m)
  BY DEF CutTake, AutoTake, InUse, Inv, Carried, UseInv, SeenUsed
<1>2. ASSUME NEW type, NEW frames, NEW ties, Take(m, SeenTake(type, frames, ties)), MeReturn,
             \/ type = "cut" /\ frames = 0 /\ use # "swap"
             \/ ~Busy(me[m]) /\ seen.program = me[m].program /\ seen.preview = me[m].preview /\ ties
      PROVE  UseInv'
  <2> DEFINE tk == SeenTake(type, frames, ties)
  <2>1. /\ tk.target = seen.preview /\ tk.preview = seen.program /\ tk.sting.player = 0
        /\ tk.type = type /\ tk.frames = frames /\ tk.ties = ties
    BY DEF SeenTake, NoSting
  <2> HIDE DEF tk
  <2>2. tk.preview # NoSource
    BY <1>1, <2>1, PairIsSource
  <2>3. type = "cut" => IsImmediate(tk)
    BY <2>1 DEF IsImmediate, IsStinger
  <2>4. {tk.target, tk.preview} = Pair(m)
    BY <1>1, <2>1
  <2>5. SwapTake(m, me[m], tk)
    BY <1>2, <2>1, <2>2, <2>3, <2>4 DEF SwapTake
  <2>6. Take(m, tk)
    BY <1>2 DEF tk
  <2> HIDE DEF m
  <2>7. MesUsed' /\ KeysUsed' /\ KeysTurn'
    BY <1>1, <1>2, <2>1, <2>5, <2>6, TakeGoes
  <2> QED BY <1>2, <2>7, UseReturns DEF MeReturn
<1>3. CASE CutTake
  <2>1. Take(m, SeenTake("cut", 0, ~seen.running)) /\ MeReturn /\ use # "swap"
    BY <1>3 DEF CutTake, InUse, UseInv, SeenUsed
  <2> HIDE DEF m
  <2> QED BY <1>2, <2>1
<1>4. CASE AutoTake
  <2>1. /\ Take(m, SeenTake(seen.next.type, seen.next.frames, TRUE)) /\ MeReturn
        /\ ~Busy(me[m]) /\ seen.program = me[m].program /\ seen.preview = me[m].preview
    BY <1>4 DEF AutoTake, InUse, UseInv, SeenUsed
  <2> HIDE DEF m
  <2> QED BY <1>2, <2>1
<1> QED BY <1>3, <1>4

(* A keyer's command leaves it at its level, or on the way there. *)
LEMMA KeyGoesAlone ==
  ASSUME InUse, use' = use, use # "swap", NEW op, NEW k \in Keys, NEW new, KeyCommand(op, k, new),
         KeyUsed(new)
  PROVE  UseInv'
<1>1. MesUsed' /\ KeysUsed' /\ KeysTurn'
  BY OneKeyGoes DEF KeyCommand
<1> QED BY <1>1, UseReturns DEF KeyCommand

(* The commands of a keyer, one by one.                                    *)
LEMMA KeysGo ==
  ASSUME InUse, use' = use, use # "swap", NEW k \in Keys,
         KeySet(k) \/ KeyFade(k) \/ KeyPath(k) \/ KeyMove(k) \/ KeyStop(k)
  PROVE  UseInv'
<1>0. Rests(key[k]) /\ (NoBar => Levels(key[k])) /\ key[k].keyframes \in Nat
  BY InUseKey DEF KeyGoes, KeyUsed, Rests, Sound, KeyerType
<1> DEFINE Fits(new) == Rests(new) /\ (Levels(key[k]) => Levels(new))
<1>1. ASSUME NEW op, NEW new, KeyCommand(op, k, new), Fits(new) PROVE UseInv'
  <2>1. KeyUsed(new)
    BY <1>0, <1>1 DEF KeyUsed, Rests
  <2> QED BY <1>1, <2>1, KeyGoesAlone
<1>2. CASE KeySet(k)
  <2>1. PICK on \in BOOLEAN : KeyCommand("keySet", k, CutKey(key[k], on))
    BY <1>2 DEF KeySet
  <2>2. Fits(CutKey(key[k], on))
    BY <1>0, CutKeyRests
  <2> HIDE DEF Fits
  <2> QED BY <1>1, <2>1, <2>2
<1>3. CASE KeyFade(k)
  <2>1. PICK n \in Rates, run \in RunLengths \ {0} :
          KeyCommand("keyAuto", k, KeyAuto(key[k], n, run))
    BY <1>3 DEF KeyFade
  <2>2. n \in Nat /\ run \in Nat
    BY MixerAssumption
  <2>3. Fits(KeyAuto(key[k], n, run))
    BY <1>0, <2>2, KeyAutoRests
  <2> HIDE DEF Fits
  <2> QED BY <1>1, <2>1, <2>3
<1>4. CASE KeyPath(k)
  <2>1. PICK n \in KeyframeCounts : KeyCommand("keyKeyframes", k, KeyKeyframes(key[k], n))
    BY <1>4 DEF KeyPath
  <2>2. n \in Nat
    BY MixerAssumption
  <2>3. Fits(KeyKeyframes(key[k], n))
    BY <1>0, <2>2, KeyKeyframesRests
  <2> HIDE DEF Fits
  <2> QED BY <1>1, <2>1, <2>3
<1>5. CASE KeyMove(k)
  <2>1. PICK j \in 0 .. key[k].keyframes - 1, n \in RunLengths, jump \in BOOLEAN :
          KeyCommand("keyRun", k, KeyRun(key[k], j, n, jump))
    BY <1>5 DEF KeyMove
  <2>2. j \in Nat /\ j < key[k].keyframes /\ n \in Nat
    BY <1>0, MixerAssumption
  <2>3. Fits(KeyRun(key[k], j, n, jump))
    BY <1>0, <2>2, KeyRunRests
  <2> HIDE DEF Fits
  <2> QED BY <1>1, <2>1, <2>3
<1>6. CASE KeyStop(k)
  <2>1. KeyCommand("keyStop", k, StopRun(key[k])) /\ Fits(StopRun(key[k]))
    BY <1>0, <1>6, StopRunRests DEF KeyStop
  <2> HIDE DEF Fits
  <2> QED BY <1>1, <2>1
<1> QED BY <1>2, <1>3, <1>4, <1>5, <1>6

(* Where no keyer's Auto is called, none flies.                            *)
Grounded == \A k \in Keys : ~key[k].flying

(* No take lets a keyer fly, ...                                           *)
LEMMA TakeGrounded ==
  ASSUME Inv, Grounded, NEW m \in Mes, NEW tk, Take(m, tk)
  PROVE  Grounded'
<1>1. ASSUME NEW k \in Keys PROVE ~key'[k].flying
  <2>1. (k \in me[m].next.ties) \in BOOLEAN /\ Sound(key[k]) /\ ~key[k].flying
    BY DEF Inv, KeysInv, KeySound, Grounded
  <2>2. ~TakeKey(key[k], tk, k \in me[m].next.ties).flying
    BY <2>1, TakeKeyGrounded
  <2> QED BY <2>1, <2>2 DEF Take
<1> QED BY <1>1 DEF Grounded

(* ... nor does any step of the uses without it.                           *)
LEMMA GroundedStep ==
  ASSUME Inv, Grounded, UsesAssumption, use \in Chosen, OneByOne, UsesNext
  PROVE  Grounded'
<1>0. KeyMe \in [Keys -> Mes]
  BY MixerAssumption
<1>1. ASSUME key' = key PROVE Grounded'
  BY <1>1 DEF Grounded
<1>2. ASSUME NEW th \in Threads, MakeHeld(th) PROVE Grounded'
  BY <1>2, TakeGrounded DEF MakeHeld
<1>3. ASSUME NEW th, NoteHeld(th) PROVE Grounded'
  BY <1>1, <1>3 DEF NoteHeld
<1>4. ASSUME NEW ready, Plan(ready) PROVE Grounded'
  <2> DEFINE r(m)   == Started(me[m], grain, ready)
             tie(m) == TieStep(r(m).mix, GivesUp(me[m].mix, grain, ready))
  <2>1. ASSUME NEW k \in Keys PROVE ~KeyGrain(key[k], tie(KeyMe[k]), grain).flying
    <3>1. grain \in Nat /\ Sound(key[k]) /\ MeSound(KeyMe[k], me[KeyMe[k]]) /\ KeyMe[k] \in Mes
      BY <1>0, MixerAssumption DEF Inv, PcInv, KeysInv, KeySound, MesInv
    <3>2. tie(KeyMe[k]).t \in 0 .. Full
      BY <3>1, StartedSound, ShownType DEF TieStep, MeReached
    <3> HIDE DEF tie, r
    <3> QED BY <3>1, <3>2, KeyGrainGrounded DEF Grounded
  <2>2. \A k \in Keys : key'[k] = KeyGrain(key[k], tie(KeyMe[k]), grain)
    BY <1>4 DEF Plan
  <2> HIDE DEF tie, r
  <2> QED BY <2>1, <2>2 DEF Grounded
<1>5. CASE Render
  <2>1. "render" \in Threads
    BY DEF Threads
  <2> QED BY <1>1, <1>2, <1>3, <1>4, <1>5, <2>1 DEF Render, Wake
<1>6. CASE UsedCall
  BY <1>1, <1>6 DEF UsedCall, Call, TakeAt
<1>7. CASE UsedCommand
  <2>1. /\ "control" \in Threads /\ Called \subseteq Mes
    BY MixerAssumption DEF Threads, Called, Mes
  <2>2. ASSUME NEW m \in Mes, TakeNow(m) PROVE Grounded'
    BY <2>2, TakeGrounded DEF TakeNow
  <2>3. ASSUME NEW m \in Mes, SetProgram(m) PROVE Grounded'
    <3>1. ASSUME NEW k \in Keys PROVE ~TieEnd(key[k], TRUE).flying
      BY TieEndGrounded DEF Inv, KeysInv, KeySound, Grounded
    <3> QED BY <2>3, <3>1 DEF SetProgram, Grounded
  <2>4. ASSUME NEW m \in Mes, SetPreview(m) \/ SetTransition(m) \/ SetFtb(m) \/ Cut(m) PROVE Grounded'
    BY <1>1, <2>4 DEF SetPreview, SetTransition, SetFtb, Cut
  <2>5. ASSUME NEW m, NEW n, AutoAt(m, n) PROVE Grounded'
    BY <1>1, <2>5 DEF AutoAt
  <2>6. ASSUME NEW k \in Keys, KeyChange(k) PROVE Grounded'
    <3>1. PICK fly \in BOOLEAN, moved \in BOOLEAN : key' = [key EXCEPT ![k] = KeySettings(key[k], fly, moved)]
      BY <2>6 DEF KeyChange
    <3>2. ~KeySettings(key[k], fly, moved).flying
      BY KeySettingsGrounded DEF Inv, KeysInv, KeySound, Grounded
    <3> QED BY <3>1, <3>2 DEF Grounded, Inv, KeysInv
  <2>7. CutTake \/ AutoTake => Grounded'
    <3>1. CutTake \/ AutoTake => seen.me \in Mes
      BY DEF CutTake, AutoTake, Inv, Carried
    <3> QED BY <3>1, TakeGrounded DEF CutTake, AutoTake
  <2>8. /\ ~Used("position") /\ ~Used("keySet") /\ ~Used("keyAuto")
        /\ ~Used("keyKeyframes") /\ ~Used("keyRun") /\ ~Used("keyStop")
    BY UsedOps DEF UsesAssumption
  <2> QED BY <1>2, <1>3, <1>7, <2>1, <2>2, <2>3, <2>4, <2>5, <2>6, <2>7, <2>8
          DEF UsedCommand, AutoTransition, ScrubAuto
<1> QED BY <1>5, <1>6, <1>7 DEF UsesNext

-----------------------------------------------------------------------------
(* UseInv is inductive where Inv holds, and Inv is an invariant of every use. *)
LEMMA UsesStart ==
  ASSUME UsesAssumption, UsesInit
  PROVE  Inv /\ UseInv
<1>1. Types \subseteq {"mix", "stinger"} /\ DefaultRate \in Nat \ {0}
  BY MixerAssumption
<1>2. CASE use = "holds"
  <2>1. Init
    BY <1>2 DEF UsesInit
  <2>2. Inv
    BY <2>1, InitInv, Defaults, NewKeyerSound DEF Init
  <2>3. \A k \in Keys : ~key[k].flying
    BY <2>1 DEF Init, InitWith, NewKeyer
  <2> QED BY <1>2, <2>2, <2>3 DEF UseInv, OneByOne, UsesInit
<1>3. CASE use # "holds"
  <2> DEFINE next(type) == [type |-> type, frames |-> DefaultRate, ties |-> Keys]
             keyer(fly) == [NewKeyer EXCEPT !.fly = fly, !.keyframes = 2]
  <2>1. PICK type \in Types, fly \in BOOLEAN : InitWith(next(type), keyer(fly))
    BY <1>3 DEF UsesInit, TiedInit
  <2>2. next(type) \in NextType /\ next(type).ties = Keys
    BY <1>1 DEF NextType
  <2>3. /\ Sound(keyer(fly)) /\ Flies(keyer(fly)) /\ ~keyer(fly).tied /\ ~keyer(fly).flying
        /\ keyer(fly).fade = NoFade
    <3>1. /\ Sound(NewKeyer) /\ NewKeyer.tied = FALSE /\ NewKeyer.flying = FALSE
          /\ NewKeyer.fade = NoFade /\ ~Running(NewKeyer)
      BY NewKeyerSound DEF NewKeyer, Running, NoRun
    <3> DEFINE k == keyer(fly)
    <3>2. /\ k \in KeyerType /\ k.fade = NoFade /\ k.run = NewKeyer.run /\ k.tied = FALSE
          /\ k.flying = FALSE
      BY <3>1 DEF Sound, KeyerType
    <3> HIDE DEF k
    <3>3. Sound(k) /\ Flies(k)
      BY <3>1, <3>2 DEF Sound, OneDriven, HasTargets, TiedFly, Running, Flies
    <3> QED BY <3>2, <3>3 DEF k
  <2> HIDE DEF next, keyer
  <2>4. Inv
    BY <2>1, <2>2, <2>3, InitInv
  <2>5. NoFade.on = FALSE /\ NoFade.gain = 0 /\ NoFade.pending = FALSE /\ NoFade.running = FALSE
    BY HeldIs DEF NoFade
  <2>6. ASSUME NEW k, k.fade = NoFade, ~k.tied, ~k.flying PROVE FlyOk(k) /\ Levels(k) /\ ~On(k)
    BY <2>5, <2>6 DEF FlyOk, Levels, Free, On, Level
  <2>7. \A k \in Keys : key[k] = keyer(fly)
    BY <2>1 DEF InitWith
  <2>8. ASSUME NEW m \in Mes
        PROVE  /\ me[m].program = FirstBus(2 * m - 2) /\ me[m].preview = FirstBus(2 * m - 1)
               /\ ~Busy(me[m]) /\ ~me[m].mix.manual /\ Swaps(m, me[m])
    <3>1. me[m] = NewMe(m, next(type))
      BY <2>1 DEF InitWith
    <3>2. /\ me[m].program = FirstBus(2 * m - 2) /\ me[m].preview = FirstBus(2 * m - 1)
          /\ me[m].mix = NoMix /\ me[m].next = next(type)
      BY <3>1 DEF NewMe
    <3>3. ~NoMix.manual /\ ~NoMix.pending /\ ~NoMix.mixing /\ NoMix.sting.player = 0
      BY DEF NoMix, NoSting
    <3> QED BY <2>2, <3>2, <3>3 DEF Swaps, Pair, Busy
  <2>9. KeyMe \in [Keys -> Mes]
    BY MixerAssumption
  <2>10. MesUsed /\ KeysUsed
    BY <2>3, <2>6, <2>7, <2>8 DEF MesUsed, MeUsed, KeysUsed, KeyUsed
  <2>11. KeysTurn
    BY <2>3, <2>6, <2>7, <2>8, <2>9, TwoSources DEF KeysTurn, Turns, UsesAssumption, UsesInit
  <2>12. NothingHeld /\ SeenUsed
    BY <2>1 DEF InitWith, NothingHeld, NoneDue, IsHeld, SeenUsed, Threads
  <2> QED BY <2>3, <2>4, <2>7, <2>10, <2>11, <2>12 DEF UseInv, UsesInit
<1> QED BY <1>2, <1>3

(* Every step of a use keeps both invariants.                              *)
LEMMA UsesStep ==
  ASSUME UsesAssumption, Inv, UseInv, UsesNext
  PROVE  Inv' /\ UseInv'
<1>0. Called \subseteq Mes /\ "control" \in Threads /\ use' = use /\ use \in Chosen
  BY MixerAssumption DEF Called, Mes, Threads, UsesNext, UseInv
<1>1. Inv'
  <2>1. CASE UsedCall
    BY <1>0, <2>1, CallStep, TakeAtStep DEF UsedCall
  <2>2. CASE UsedCommand
    <3>1. \A m \in Mes : TakeNow(m) \/ SetProgram(m) \/ SetPreview(m) \/ SetTransition(m)
                           \/ SetFtb(m) \/ Cut(m) \/ AutoTransition(m) \/ Position(m) => Inv'
      BY MeCommandStep DEF MeCommand
    <3>2. \A k \in Keys : KeySet(k) \/ KeyFade(k) \/ KeyPath(k) \/ KeyMove(k) \/ KeyStop(k)
                            \/ KeyChange(k) => Inv'
      BY KeyerCommandStep DEF KeyerCommand
    <3> QED BY <1>0, <2>2, <3>1, <3>2, MakeHeldStep, NoteHeldStep, CutTakeStep, AutoTakeStep,
               ScrubAutoStep DEF UsedCommand
  <2> QED BY <2>1, <2>2, RenderStep DEF UsesNext
<1>2. CASE OneByOne
  <2>1. Grounded
    BY <1>2 DEF UseInv, Grounded
  <2>2. Grounded'
    BY <1>0, <1>2, <2>1, GroundedStep
  <2>3. OneByOne' /\ use' \in Chosen
    BY <1>0, <1>2 DEF OneByOne
  <2> QED BY <1>1, <2>2, <2>3 DEF UseInv, Grounded
<1>3. ASSUME ~OneByOne PROVE UseInv'
  <2>0. InUse
    BY <1>3 DEF InUse
  <2>1. CASE Render
    BY <1>0, <2>0, <2>1, RenderGoes
  <2>2. /\ ~Used("take") /\ ~Used("program") /\ ~Used("preview")
        /\ ~Used("transition") /\ ~Used("takeAt") /\ ~Used("keySettings")
        /\ NoBar => ~Used("position")
        /\ use = "swap" => /\ ~Used("cut") /\ ~Used("keySet") /\ ~Used("keyAuto")
                           /\ ~Used("keyKeyframes") /\ ~Used("keyRun") /\ ~Used("keyStop")
    BY <1>0, <1>3, UsedOps DEF UsesAssumption
  <2>3. CASE UsedCall
    BY <1>0, <2>0, <2>2, <2>3, CallGoes DEF UsedCall
  <2>4. CASE UsedCommand
    <3>1. ~MakeHeld("control") /\ ~NoteHeld("control")
      BY <1>0, <2>0 DEF InUse, UseInv, NothingHeld, MakeHeld, NoteHeld, IsFirst, HasDue
    <3>2. ASSUME NEW m \in Mes, SetFtb(m) PROVE UseInv'
      BY <1>0, <2>0, <3>2, NoneGoes, UseReturns DEF SetFtb
    <3>3. ASSUME NEW m \in Mes, AutoTransition(m) PROVE UseInv'
      BY <1>0, <2>0, <3>3, AutoGoes DEF AutoTransition
    <3>4. ScrubAuto => UseInv'
      BY <1>0, <2>0, AutoGoes DEF ScrubAuto, InUse, Inv, Carried
    <3> QED BY <1>0, <2>0, <2>2, <2>4, <3>1, <3>2, <3>3, <3>4, CutGoes, BarGoes, SeenGoes, KeysGo
            DEF UsedCommand
  <2> QED BY <2>1, <2>3, <2>4 DEF UsesNext
<1> QED BY <1>1, <1>2, <1>3

(* So does a step that changes nothing.                                    *)
LEMMA UsesStutter ==
  ASSUME Inv, UseInv, UNCHANGED <<vars, use>>
  PROVE  Inv' /\ UseInv'
<1>1. Inv'
  BY Stutters
<1> QED BY <1>1 DEF vars, UseInv, OneByOne, NothingHeld, MesUsed, MeUsed, KeysUsed, KeyUsed, KeysTurn,
           Turns, SeenUsed, NoBar, IsHeld

(* What an operator's use of the mixer keeps. *)
THEOREM UsesKeep == UsesAssumption => (UsesSpec => [](Inv /\ UseInv))
<1>1. UsesAssumption /\ UsesInit => Inv /\ UseInv
  BY UsesStart
<1>2. UsesAssumption /\ Inv /\ UseInv /\ [UsesNext]_<<vars, use>> => Inv' /\ UseInv'
  BY UsesStep, UsesStutter
<1>3. UsesAssumption => (Inv /\ UseInv /\ [UsesNext]_<<vars, use>> => Inv' /\ UseInv')
  BY <1>2
<1>4. SUFFICES ASSUME UsesAssumption PROVE UsesSpec => [](Inv /\ UseInv)
  OBVIOUS
<1> QED BY <1>1, <1>3, <1>4, PTL DEF UsesSpec

(* In the uses of one operator, on any number of MEs and keyers, the buses *)
(* and the tied keyers swap together, keyers rest at their level, and a    *)
(* fly off leaves its keyer dark.                                          *)
THEOREM SwapsHold == UsesAssumption => (UsesSpec => SwapsAndRests)
<1> DEFINE Off == \A k \in Keys :
       (grain > 0 /\ grain' = 0 /\ key[k].flying /\ ~key'[k].flying /\ ~On(key'[k])) =>
         key'[k].fade.gain = 0 /\ ~key'[k].fade.pending /\ ~key'[k].fade.running
<1>1. Inv /\ UseInv => BusesSwap /\ KeysSwap /\ KeysRest
  <2> SUFFICES ASSUME Inv, UseInv PROVE BusesSwap /\ KeysSwap /\ KeysRest
    OBVIOUS
  <2>1. ASSUME ~OneByOne PROVE BusesAreASwap
    BY <2>1 DEF UseInv, MesUsed, MeUsed, Swaps, Pair, BusesAreASwap
  <2>2. ASSUME use = "swap" PROVE KeysFollowBackground
    BY <2>2 DEF UseInv, OneByOne, KeysTurn, Turns, KeysFollowBackground
  <2>3. ASSUME NoBar PROVE AtRestAgrees
    BY <2>3 DEF UseInv, OneByOne, NoBar, KeysUsed, KeyUsed, Levels, AtRestAgrees
  <2> QED BY <2>1, <2>2, <2>3 DEF BusesSwap, KeysSwap, KeysRest, OneByOne, NoBar
<1>2. ASSUME Inv, UseInv, UsesNext, grain > 0, grain' = 0
      PROVE  \E ready : Plan(ready)
  <2>1. \A d \in 1 .. MaxStep : d # 0
    BY MixerAssumption
  <2>2. ~Wake
    BY <1>2, <2>1 DEF Wake
  <2>3. grain' # grain
    BY <1>2
  <2>4. \A th : ~MakeHeld(th) /\ ~NoteHeld(th)
    BY <2>3 DEF MakeHeld, NoteHeld
  <2>5. ~UsedCall
    BY <2>3 DEF UsedCall, Call, TakeAt
  <2>6. \A m \in Mes : ~MeCommand(m)
    BY <2>3 DEF MeCommand, TakeNow, SetProgram, SetPreview, SetTransition, SetFtb, Cut,
                AutoTransition, AutoAt, Position, MeReturn, Return, GoOn
  <2>7. \A k : ~KeyerCommand(k)
    BY <2>3 DEF KeyerCommand, KeySet, KeyFade, KeyPath, KeyMove, KeyStop, KeyChange, KeyCommand, Return
  <2>8. ~CutTake /\ ~AutoTake /\ ~ScrubAuto
    BY <2>3 DEF CutTake, AutoTake, ScrubAuto, AutoAt, MeReturn, Return, GoOn
  <2>9. Called \subseteq Mes
    BY MixerAssumption DEF Called, Mes
  <2>10. ~UsedCommand
    BY <2>4, <2>6, <2>7, <2>8, <2>9 DEF UsedCommand, MeCommand, KeyerCommand
  <2> QED BY <1>2, <2>2, <2>4, <2>5, <2>10 DEF UsesNext, Render
<1>3. ASSUME UsesAssumption, Inv, UseInv, NEW ready, Plan(ready)
      PROVE  Off
  <2> DEFINE r(m)   == Started(me[m], grain, ready)
             tie(m) == TieStep(r(m).mix, GivesUp(me[m].mix, grain, ready))
  <2>1. ASSUME NEW k \in Keys, key[k].flying, ~key'[k].flying, ~On(key'[k])
        PROVE  key'[k].fade.gain = 0 /\ Free(key'[k])
    <3>1. InUse
      BY <1>3, <2>1 DEF InUse, UseInv
    <3>2. /\ grain \in Nat /\ Rests(key[k]) /\ KeyMe[k] \in Mes
          /\ MeSound(KeyMe[k], me[KeyMe[k]])
      BY <1>3, <3>1, MixerAssumption, InUseKey, InUseMe DEF Inv, PcInv
    <3>3. tie(KeyMe[k]).t \in 0 .. Full
      BY <3>2, StartedSound, ShownType DEF TieStep, MeReached
    <3>4. key'[k] = KeyGrain(key[k], tie(KeyMe[k]), grain)
      BY <1>3 DEF Plan
    <3> HIDE DEF tie, r
    <3> QED BY <2>1, <3>2, <3>3, <3>4, KeyGrainRests
  <2> QED BY <2>1 DEF Free
<1>4. ASSUME UsesAssumption, Inv, UseInv, [UsesNext]_<<vars, use>> PROVE [Off]_vars
  <2>1. CASE UNCHANGED vars
    BY <2>1
  <2>2. CASE UsesNext /\ grain > 0 /\ grain' = 0
    BY <1>2, <1>3, <1>4, <2>2
  <2>3. CASE UsesNext /\ ~(grain > 0 /\ grain' = 0)
    BY <2>3
  <2>4. UNCHANGED <<vars, use>> => UNCHANGED vars
    BY DEF vars
  <2> QED BY <1>4, <2>1, <2>2, <2>3, <2>4
<1>5. UsesAssumption => (Inv /\ UseInv /\ [UsesNext]_<<vars, use>> => [Off]_vars)
  BY <1>4
<1>6. SUFFICES ASSUME UsesAssumption PROVE UsesSpec => SwapsAndRests
  OBVIOUS
<1>7. UsesSpec => [](Inv /\ UseInv)
  BY <1>6, UsesKeep
<1> QED BY <1>1, <1>5, <1>6, <1>7, PTL DEF UsesSpec, SwapsAndRests, FlyOffStaysOff
=============================================================================
