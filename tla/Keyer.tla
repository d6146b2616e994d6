------------------------------- MODULE Keyer -------------------------------
(***************************************************************************)
(* A keyer and a fade of the media engine (engine/src/core/mixer.cpp):     *)
(* what one call under the mixer's lock does to a `Fade` record.  The      *)
(* module declares no variable; Mixer keeps one record per keyer and one   *)
(* fade per ME (its Fade to Black).                                        *)
(*                                                                         *)
(* Data that no property tells apart is abstracted:                        *)
(*   - a gain and a transition's t are integers 0 .. Full, Full being 1.0, *)
(*     rounded down to that grid;                                          *)
(*   - the grain a fade or a run started at is kept as the number of       *)
(*     grains since it (`ran`), which is all the code computes from it;    *)
(*   - the box of a flying keyer is dropped; of a run along the keyframes  *)
(*     remain the keyframe it goes to and how many grains it takes;        *)
(*   - values the code leaves behind and never reads again are reset.      *)
(***************************************************************************)
EXTENDS Integers

CONSTANT Full    (* The integer standing for a gain, or a T-bar position, of 1.0 *)

ASSUME FullAssumption == Full \in Nat \ {0}

(* (Each definition named after a bug, such as TieEndStaysOn, is the mutant *)
(* of the definition after it: the property it breaks is in PROJECT.json.) *)

(* frames * part / Full to the nearest integer, and at least one grain. *)
Scaled(frames, part) ==
  LET n == (2 * frames * part + Full) \div (2 * Full) IN IF n < 1 THEN 1 ELSE n

(* A share `done` of `frames` of the way between two levels. *)
Between(from, to, done, frames) == from + ((to - from) * done) \div frames

Level(on) == IF on THEN Full ELSE 0

-----------------------------------------------------------------------------
(* Fades: a keyer's, or the Fade to Black of an ME.                        *)

(* The gain holds; no fade waits or runs. *)
Held(on, gain) == [on |-> on, gain |-> gain, from |-> 0, to |-> 0, frames |-> 1,
                   ran |-> 0, pending |-> FALSE, running |-> FALSE]

NoFade == Held(FALSE, 0)

FadeSet(on) == Held(on, Level(on))

(* An auto during an auto turns back from the gain it has reached. *)
FadeAuto(f, frames) ==
  LET to == Level(~f.on)
      way == IF to > f.gain THEN to - f.gain ELSE f.gain - to
  IN  [on |-> ~f.on, gain |-> f.gain, from |-> f.gain, to |-> to,
       frames |-> Scaled(frames, way), ran |-> 0, pending |-> TRUE, running |-> FALSE]

(* The fade at the next grain planned, d grains after the one before. *)
FadeAdvance(f, d) ==
  LET ran == IF f.pending THEN 0 ELSE f.ran + d
  IN  IF ~(f.pending \/ f.running) THEN f
      ELSE IF ran + 1 >= f.frames THEN Held(f.on, f.to)
      ELSE [on |-> f.on, gain |-> Between(f.from, f.to, ran + 1, f.frames), from |-> f.from,
            to |-> f.to, frames |-> f.frames, ran |-> ran, pending |-> FALSE, running |-> TRUE]

-----------------------------------------------------------------------------
(* Keyers: the fade, the keyframes and the run along them, and the tie to  *)
(* a transition of the keyer's ME.                                         *)

NoRun == [pending |-> FALSE, active |-> FALSE, to |-> 0, frames |-> 0, ran |-> 0]

(* Of a tie: whether the keyer waits for the cut point of a stinger, or    *)
(* flies with t (to keyframe `target`), or fades from one gain to another; *)
(* and its gain when it was tied.                                          *)
NoTie == [atCut |-> FALSE, fly |-> FALSE, from |-> 0, to |-> 0, gain0 |-> 0, target |-> 0]

NewKeyer == [fade |-> NoFade,
             fly |-> FALSE,       (* settings.fly on an upstream keyer with a box *)
             keyframes |-> 0,     (* how many *)
             run |-> NoRun,
             flying |-> FALSE,    (* the run is the keyer's Auto *)
             tied |-> FALSE, tie |-> NoTie]

On(k) == k.fade.on
Running(k) == k.run.pending \/ k.run.active
CanFly(k) == k.fly /\ k.keyframes >= 2

(* A tied fly: the box moves with the transition's t. *)
TiedFly(k) == k.tied /\ k.tie.fly /\ ~k.tie.atCut

EndRun(k) == [k EXCEPT !.run = NoRun]

(* The first and the last keyframe a fly goes to. *)
FlyTo(k, on) == IF on THEN k.keyframes - 1 ELSE 0

(* A run of `frames` grains to keyframe j; 0 grains stand for a loop. *)
StartRun(k, j, frames) ==
  [k EXCEPT !.run = [pending |-> TRUE, active |-> FALSE, to |-> j, frames |-> frames, ran |-> 0]]

Untie(k) == [k EXCEPT !.tied = FALSE, !.tie = NoTie]

(* A fly off that stops, its own or a tied one, leaves the box visible, so *)
(* the keyer stays on air; a tied fly goes out of its tie.                 *)
StopRun(k) ==
  LET stays == ~On(k) /\ ((k.flying /\ Running(k)) \/ TiedFly(k))
      held  == [EndRun(k) EXCEPT !.fade.on = @ \/ stays, !.flying = FALSE]
  IN  IF TiedFly(k) THEN [Untie(held) EXCEPT !.fade.gain = Full] ELSE held

(* The run at the next grain planned; a loop never ends. *)
RunRan(k, d) == IF k.run.pending THEN 0 ELSE k.run.ran + d
RunEnds(k, d) == Running(k) /\ k.run.frames > 0 /\ RunRan(k, d) + 1 >= k.run.frames
RunAdvance(k, d) ==
  IF ~Running(k) THEN k
  ELSE IF RunEnds(k, d) THEN EndRun(k)
  ELSE [k EXCEPT !.run = [pending |-> FALSE, active |-> TRUE, to |-> k.run.to, frames |-> k.run.frames,
                          ran |-> IF k.run.frames = 0 THEN 0 ELSE RunRan(k, d)]]

CutKey(k, on) ==
  LET loose == IF CanFly(k) THEN StopRun(Untie(k)) ELSE Untie(k)
  IN  [loose EXCEPT !.fade = FadeSet(on)]

(* With a stinger the keyer waits for its cut point.  Otherwise its own    *)
(* fade or fly stops where it is and it goes to its other state with the   *)
(* transition.                                                             *)
TieStart(k, atCut) ==
  LET on  == ~On(k)
      fly == CanFly(k)
  IN  IF atCut THEN [k EXCEPT !.tied = TRUE, !.tie = [NoTie EXCEPT !.atCut = TRUE]]
      ELSE [EndRun(k) EXCEPT
              !.flying = FALSE, !.tied = TRUE, !.fade = Held(on, k.fade.gain),
              !.tie = [atCut |-> FALSE, fly |-> fly, gain0 |-> k.fade.gain,
                       from |-> IF fly THEN 0 ELSE k.fade.gain,
                       to |-> IF fly THEN 0 ELSE Level(on),
                       target |-> IF fly THEN FlyTo(k, on) ELSE 0]]

(* A fly is on air while it runs; a fade follows t. *)
TieAdvance(k, t) ==
  [k EXCEPT !.fade.gain = IF k.tie.fly THEN Full ELSE Between(k.tie.from, k.tie.to, t, Full)]

TieEndStaysOn(k, complete) ==
  IF ~k.tied THEN k
  ELSE IF k.tie.atCut THEN (IF complete THEN CutKey(k, ~On(k)) ELSE Untie(k))
  ELSE IF ~complete THEN Untie([k EXCEPT !.fade.gain = k.tie.gain0])
  ELSE Untie(TieAdvance(k, Full))

(* The end of a tie: complete, or (the T-bar back at 0) as it was. *)
TieEnd(k, complete) ==
  IF ~k.tied THEN k
  ELSE IF k.tie.atCut THEN (IF complete THEN CutKey(k, ~On(k)) ELSE Untie(k))
  ELSE IF ~complete THEN Untie([k EXCEPT !.fade.on = ~@, !.fade.gain = k.tie.gain0])
  ELSE IF k.tie.fly /\ ~On(k) THEN Untie([k EXCEPT !.fade.gain = 0])
  ELSE Untie(TieAdvance(k, Full))

(* The keyer's Auto: out of a tied transition where it is, then a fly of   *)
(* `run` grains or a fade over `frames`.                                   *)
KeyAuto(k, frames, run) ==
  LET loose == Untie(k) IN
  IF CanFly(k)
  THEN [StartRun(loose, FlyTo(k, ~On(k)), run) EXCEPT
          !.fade = Held(~On(k), Full), !.flying = TRUE]
  ELSE [loose EXCEPT !.fade = FadeAuto(@, frames)]

(* A change of the settings; one that moves the box stops a run. *)
KeySettings(k, fly, moved) ==
  LET set == [k EXCEPT !.fly = fly] IN IF moved THEN StopRun(set) ELSE set

KeyKeyframes(k, n) == [StopRun(k) EXCEPT !.keyframes = n]

(* A run of the box to keyframe j, or a jump there. *)
KeyRun(k, j, frames, jump) ==
  IF jump THEN StopRun(k) ELSE StartRun(StopRun(k), j, frames)

(* A grain of a keyer: `tie` says what its ME's transition does to a tied  *)
(* keyer in this grain.  Shown is the gain the grain is planned with.      *)
Tied(k, tie) ==
  IF ~k.tied THEN k
  ELSE IF k.tie.atCut THEN (IF tie.cut THEN CutKey(k, ~On(k)) ELSE k)
  ELSE IF tie.back THEN TieEnd(k, FALSE)
  ELSE IF tie.active THEN TieAdvance(k, tie.t)
  ELSE k

TieEnds(k, tie) ==
  k.tied /\ tie.end /\ IF k.tie.atCut THEN ~tie.cut ELSE tie.active /\ ~tie.back

Planned(k, tie, d) ==
  LET tied == Tied(k, tie) IN RunAdvance([tied EXCEPT !.fade = FadeAdvance(@, d)], d)

Shown(k, tie, d) == Planned(k, tie, d).fade.gain

KeyGrain(k, tie, d) ==
  LET planned == Planned(k, tie, d)
      left    == IF TieEnds(k, tie) THEN TieEnd(planned, TRUE) ELSE planned
      flewOff == left.flying /\ ~On(left)
  IN  IF RunEnds(Tied(k, tie), d)
      THEN [left EXCEPT !.fade.gain = IF flewOff THEN 0 ELSE @, !.flying = FALSE]
      ELSE left
-----------------------------------------------------------------------------
(* The types of a fade and of a keyer. *)
FadeType == [on : BOOLEAN, gain : 0 .. Full, from : 0 .. Full, to : 0 .. Full,
             frames : Nat \ {0}, ran : Nat, pending : BOOLEAN, running : BOOLEAN]

RunType == [pending : BOOLEAN, active : BOOLEAN, to : Nat, frames : Nat, ran : Nat]

TieType == [atCut : BOOLEAN, fly : BOOLEAN, from : 0 .. Full, to : 0 .. Full,
            gain0 : 0 .. Full, target : Nat]

KeyerType == [fade : FadeType, fly : BOOLEAN, keyframes : Nat, run : RunType,
              flying : BOOLEAN, tied : BOOLEAN, tie : TieType]
=============================================================================
