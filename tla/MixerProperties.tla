-------------------------- MODULE MixerProperties --------------------------
(***************************************************************************)
(* What the mixer of the media engine promises: the properties the runs    *)
(* check (MCMixer and its configurations) and the proofs prove             *)
(* (MixerProofs).                                                          *)
(***************************************************************************)
EXTENDS Mixer

StingType == [player : Nat, frames : Nat, cut : Int]
NextType  == [type : {"mix", "stinger"}, frames : Nat \ {0}, ties : SUBSET Keys]

MixType ==
  [target : Source, after : Source \cup {NoSource}, frames : Nat \ {0}, pending : BOOLEAN,
   mixing : BOOLEAN, ran : Nat, from : 0 .. Full, manual : BOOLEAN, t : 0 .. Full,
   tLast : 0 .. Full, sting : StingType, waiting : BOOLEAN]

MeType ==
  [program : Source, preview : Source, mix : MixType, next : NextType, heldMade : BOOLEAN]

TakeType ==
  [target : Source, preview : Source \cup {NoSource}, frames : Nat,
   type : {"cut", "mix", "stinger"}, sting : StingType, ties : BOOLEAN]

SeenType == [me : Mes \cup {0}, program : Source \cup {NoSource},
             preview : Source \cup {NoSource}, running : BOOLEAN, next : NextType]

PlanType == [a : Source, b : Source, mixing : BOOLEAN, stinger : BOOLEAN,
             t : 0 .. Full, tPrev : 0 .. Full]

(* The type of every variable of the mixer. *)
TypeOK ==
  /\ me \in [Mes -> MeType]
  /\ ftb \in [Mes -> FadeType]
  /\ key \in [Keys -> KeyerType]
  /\ keySource \in [Keys -> Source \cup {NoSource}]
  /\ held \in [Mes -> [in : Nat, take : TakeType \cup {NoTake}]]
  /\ pc \in [Threads -> {"idle", "held", "made", "cut", "auto", "scrub"}]
  /\ due \in [Threads -> [Mes -> TakeType \cup {NoTake}]]
  /\ seen \in SeenType
  /\ grain \in 0 .. MaxStep
  /\ plan \in [Mes -> PlanType]

-----------------------------------------------------------------------------
(* A keyer tied to a transition never outlives it: while it is tied, its   *)
(* ME's transition waits or runs, and it waits for a cut point exactly     *)
(* when that transition is a stinger.  Every end of a transition, by       *)
(* either thread, has to let its keyers go (mixer.cpp tieEnd, endTies).    *)
TieHasTransition ==
  \A k \in Keys : key[k].tied =>
    /\ Busy(me[KeyMe[k]])
    /\ key[k].tie.atCut <=> me[KeyMe[k]].mix.sting.player > 0

(* One thing at a time drives a keyer's gain: a keyer that follows a       *)
(* transition runs no fade of its own, and a tied fly no run of its own    *)
(* (mixer.cpp tieStart, keyAuto, keyRun).                                  *)
OneDriver ==
  \A k \in Keys :
    /\ key[k].tied /\ ~key[k].tie.atCut => ~(key[k].fade.pending \/ key[k].fade.running)
    /\ TiedFly(key[k]) => ~Running(key[k])
    /\ key[k].flying => Running(key[k])

(* A run and a tied fly go to a keyframe the keyer still has: its list of  *)
(* keyframes can be replaced while they run, and the code then indexes it  *)
(* (mixer.cpp tieAdvance, keyframes.cpp dmeRunAt).                         *)
TargetsExist ==
  \A k \in Keys :
    /\ Running(key[k]) => key[k].run.to < key[k].keyframes
    /\ TiedFly(key[k]) => key[k].tie.target < key[k].keyframes

Still(k) == ~(k.fade.pending \/ k.fade.running \/ k.tied \/ k.flying)

(* A keyer no fade, fly or transition moves is on in full or off in full:  *)
(* what the status shows as off is not on air (mixer.hpp KeyView `on`).    *)
AtRestAgrees ==
  \A k \in Keys : Still(key[k]) => key[k].fade.gain = Level(On(key[k]))

(* Skipped grains do not stretch a transition: after every planned grain   *)
(* an Auto or a stinger that still runs has grains left, counted from its  *)
(* first one, and a stinger still waiting may still wait (mixer.hpp frame).*)
EndsInTime ==
  \A m \in Mes :
    LET x == me[m].mix IN
    /\ x.mixing /\ ~x.manual => x.ran + 1 < x.frames
    /\ x.waiting => x.pending /\ x.ran < StingerWait

(* No ME ever shows itself through other MEs: every source an ME has, will *)
(* have or plans is one it may take, so a re-entry only ever goes to an ME *)
(* that renders before it (mixer.hpp sourceAllowed).                       *)
RendersAfter(m, s) == s[1] = "me" => s[2] > m
NoRenderLoop ==
  /\ \A m \in Mes :
       /\ RendersAfter(m, me[m].program) /\ RendersAfter(m, me[m].preview)
       /\ RendersAfter(m, me[m].mix.target) /\ RendersAfter(m, me[m].mix.after)
       /\ RendersAfter(m, plan[m].a) /\ RendersAfter(m, plan[m].b)
       /\ RendersAfter(m, held[m].take.target) /\ RendersAfter(m, held[m].take.preview)
  /\ \A k \in Keys : RendersAfter(KeyMe[k], keySource[k])

(* Cut, Auto and the T-bar only ever swap an ME's two buses: at rest they  *)
(* hold the two sources they started with, whatever the render thread did  *)
(* between a call's read of the buses and its take (mixer.cpp cut,         *)
(* autoTransition).  Holds when nothing else is called but takes of those  *)
(* two sources.                                                            *)
BusesAreASwap ==
  \A m \in Mes : ~Busy(me[m]) =>
    {me[m].program, me[m].preview} = {FirstBus(2 * m - 2), FirstBus(2 * m - 1)}

(* The tied keyers go on and off with the background, once per swap: at    *)
(* rest a keyer off at the start is on exactly when the other source is on *)
(* Program (mixer.hpp TransitionSettings ties).  Holds without commands    *)
(* that touch the keyer or the buses alone.                                *)
KeysFollowBackground ==
  \A k \in Keys : LET m == KeyMe[k] IN
    (k \in me[m].next.ties /\ ~Busy(me[m])) =>
      (On(key[k]) <=> me[m].program = FirstBus(2 * m - 1))

-----------------------------------------------------------------------------
(* A Cut during a transition ends it there, the buses as at its end        *)
(* (mixer.hpp cut, docs/engine-p4.md Ends).                                *)
CutEndsTransition ==
  [][CutTake /\ seen.running /\ Busy(me[seen.me]) =>
       LET end == FinishMix(me[seen.me]) IN
       me'[seen.me].program = end.program /\ me'[seen.me].preview = end.preview]_vars

(* What was shown stays on air: when no transition is left after a grain,  *)
(* Program is the target if that grain was the last of a mix (the target   *)
(* in full) or of a stinger, and else the Program it was planned with, as  *)
(* with the T-bar back at 0 (mixer.cpp frame, finishMix).                  *)
ShownIsKept ==
  [][(grain > 0 /\ grain' = 0) =>
       \A m \in Mes : ~Busy(me'[m]) =>
         me'[m].program = IF plan'[m].t = Full \/ plan'[m].stinger THEN plan'[m].b ELSE plan'[m].a]_vars

(* A held take of an ME is made before any other command of it (api.cpp,   *)
(* mixer.hpp runDeferred): no command finds one still to be made.          *)
HeldBeforeCommand ==
  [][\A m \in Mes : MeCommand(m) => due["render"][m] = NoTake]_vars

(* A fly off that ends leaves the keyer off from the next grain: nothing   *)
(* brings its gain back but a command (mixer.cpp frame, runEnded).         *)
FlyOffStaysOff ==
  [][\A k \in Keys :
       (grain > 0 /\ grain' = 0 /\ key[k].flying /\ ~key'[k].flying /\ ~On(key'[k])) =>
         key'[k].fade.gain = 0 /\ ~key'[k].fade.pending /\ ~key'[k].fade.running]_vars

(* A held take taken out is made by the thread that took it out, none is   *)
(* dropped: it leaves `held` only into exactly that thread's hands or for  *)
(* a newer one, and leaves a thread's hands only after it was made.        *)
HeldTakesAreKept ==
  [][\A m \in Mes :
       /\ (IsHeld(m) /\ held'[m] = NotHeld) =>
            Cardinality({th \in Threads : due[th][m] = NoTake /\ due'[th][m] = held[m].take}) = 1
       /\ \A th \in Threads : (due[th][m] # NoTake /\ due'[th][m] = NoTake) => pc[th] = "made"]_vars

(* What moves a keyer, its tie, its fade or its run, is there and alone as *)
(* long as it moves it.                                                    *)
KeysAreDriven == TieHasTransition /\ OneDriver /\ TargetsExist
=============================================================================
