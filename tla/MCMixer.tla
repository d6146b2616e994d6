------------------------------ MODULE MCMixer ------------------------------
(* The mixer in small instances, by what the operator uses of it: the      *)
(* commands of one use are interleaved, the use is chosen at the start.    *)
(* Some properties hold of some uses only (of an operator who only swaps   *)
(* the buses).                                                             *)
EXTENDS MixerProperties

CONSTANT Chosen     \* the uses of the run
VARIABLE use

in(n) == <<"input", n>>
TwoInputs   == {in(1), in(2)}
InputOrMe2  == {in(1), <<"me", 2>>}
OnMe1  == [k \in Keys |-> 1]

(* Takes: a mix, or a stinger of 2 grains that cuts at its second one (or, *)
(* with 5, only as it ends).                                               *)
TakesOver(target, previews, tied, cuts) ==
  LET Mix == [target |-> target, preview |-> NoSource, frames |-> 2, type |-> "mix",
              sting |-> NoSting, ties |-> tied]
      Stinger(cut) == [Mix EXCEPT !.frames = 0, !.type = "stinger",
                                  !.sting = [player |-> 1, frames |-> 2, cut |-> cut]]
  IN {[tk EXCEPT !.preview = p] : tk \in {Mix} \cup {Stinger(c) : c \in cuts}, p \in previews}
UsedTakes  == TakesOver(in(1), {NoSource, in(2)}, TRUE, {1, 5})
Reentries  == TakesOver(<<"me", 2>>, {in(1)}, FALSE, {1})

(* Every keyer tied to the next transition, which is of either type; the   *)
(* keyers fade or fly.                                                     *)
TiedInit ==
  \E type \in Types, fly \in BOOLEAN :
    InitWith([type |-> type, frames |-> DefaultRate, ties |-> Keys],
             [NewKeyer EXCEPT !.fly = fly, !.keyframes = 2])

Uses == [buses |-> {"take", "program", "preview", "transition", "auto", "cut"},
         ties  |-> {"cut", "auto", "position", "keyAuto", "keyKeyframes"},
         swap  |-> {"auto", "position"},
         rest  |-> {"auto", "cut", "keySet", "keyAuto", "keyKeyframes", "keyRun", "keyStop"},
         fades |-> {"auto", "keyAuto", "ftb"},
         holds |-> {"takeAt", "preview", "keySettings"}]

Used(op) == op \in Uses[use]

\* The commands go to ME 1; holds to both.
Called == IF use = "holds" THEN Mes ELSE {1}

UsedCall ==
  \/ /\ Uses[use] \cap {"take", "cut", "auto", "position", "program", "preview", "transition", "ftb"} # {}
     /\ \E m \in Called : Call({n \in {m} : IsHeld(n)}, m)
  \/ /\ Uses[use] \cap {"keySet", "keyAuto", "keySettings", "keyKeyframes", "keyRun", "keyStop"} # {}
     /\ Call({n \in Mes : IsHeld(n)}, 0)
  \/ \E m \in Called : Used("takeAt") /\ TakeAt(m)

UsedCommand ==
  \/ MakeHeld("control") \/ NoteHeld("control")
  \/ \E m \in Called : \/ Used("take") /\ TakeNow(m)
                       \/ Used("program") /\ SetProgram(m)
                       \/ Used("preview") /\ SetPreview(m)
                       \/ Used("transition") /\ SetTransition(m)
                       \/ Used("ftb") /\ SetFtb(m)
                       \/ Used("cut") /\ Cut(m)
                       \/ Used("auto") /\ AutoTransition(m)
                       \/ Used("position") /\ Position(m)
  \/ \E k \in Keys : \/ Used("keySet") /\ KeySet(k)
                     \/ Used("keyAuto") /\ KeyFade(k)
                     \/ Used("keyKeyframes") /\ KeyPath(k)
                     \/ Used("keyRun") /\ KeyMove(k)
                     \/ Used("keyStop") /\ KeyStop(k)
                     \/ Used("keySettings") /\ KeyChange(k)
  \/ CutTake \/ AutoTake \/ ScrubAuto

UsesInit ==
  /\ use \in Chosen
  /\ IF use = "holds" THEN Init ELSE TiedInit

UsesNext == (Render \/ UsedCall \/ UsedCommand) /\ UNCHANGED use
UsesSpec == UsesInit /\ [][UsesNext]_<<vars, use>>
UsesFairness == WF_vars(Render /\ UNCHANGED use) /\ WF_vars(UsedCommand /\ UNCHANGED use)
FairUsesSpec == UsesSpec /\ UsesFairness

-----------------------------------------------------------------------------
(* Whatever the operator uses but the buses one by one, they only swap.    *)
BusesSwap == use \notin {"buses", "holds"} => BusesAreASwap

(* An operator of Auto and the T-bar only takes the tied keyers along.     *)
KeysSwap == use = "swap" => KeysFollowBackground

(* Without the T-bar a keyer at rest is on in full or off in full.         *)
KeysRest == use \in {"rest", "fades"} => AtRestAgrees

(* Once no call is made any more, every transition ends but one the T-bar  *)
(* holds, every held take is made, every fade, fly and Fade to Black ends, *)
(* at its level (mixer.cpp frame: grains may be skipped, a stinger player  *)
(* never get ready).                                                       *)
AllSettles ==
  <>[][~UsedCall]_vars => \A m \in Mes :
    /\ <>[](~Busy(me[m]) \/ me[m].mix.manual)
    /\ <>[](~IsHeld(m) /\ \A th \in Threads : due[th][m] = NoTake)
    /\ <>[](~ftb[m].pending /\ ~ftb[m].running /\ ftb[m].gain = Level(ftb[m].on))
    /\ \A k \in Keys :
         <>[](use # "swap" => Still(key[k]) /\ key[k].fade.gain = Level(On(key[k])))

(* Buses and tied keyers swap together, and rest where what moved them     *)
(* ended, also after a fly off.                                            *)
SwapsAndRests == [](BusesSwap /\ KeysSwap /\ KeysRest) /\ FlyOffStaysOff
=============================================================================
