------------------------------- MODULE Mixer -------------------------------
(***************************************************************************)
(* The mixer of the media engine (engine/src/core/mixer.cpp) as the two    *)
(* threads that call it see it: the control API's thread, one call at a    *)
(* time (engine/src/engine/api.cpp), and the render thread, which plans    *)
(* one output grain after the other (engine/src/engine/engine.cpp).        *)
(*                                                                         *)
(* One action is one critical section of the mixer's lock.  A call that    *)
(* takes the lock more than once is more than one action: the other thread *)
(* can run in between, and what the call read before is kept in `seen`.    *)
(*                                                                         *)
(* Abstracted: a wipe is a mix with another shape, so "mix" stands for     *)
(* both; the grain a transition started at is kept as the grains since it  *)
(* (`ran`); the grain of a held take as the grains until it (`in`); values *)
(* the code leaves behind and never reads again are reset; refused         *)
(* arguments (BadSource, BadFrames, ...) change nothing and are not taken; *)
(* the counters of the metrics and the notifications are left out.         *)
(***************************************************************************)
EXTENDS Keyer, FiniteSets

CONSTANTS
  MeCount,       (* Number of mix/effects banks, ME 1 .. MeCount                *)
  InputCount,    (* Number of live inputs                                       *)
  PlayerCount,   (* Number of clip players                                      *)
  Keys,          (* The keyers                                                  *)
  KeyMe,         (* The ME each keyer keys over                                 *)
  Upstream,      (* The upstream keyers (the others are downstream, DSKs)       *)
  StingerWait,   (* kStingerWait: grains a stinger waits for its first frame    *)
  DefaultRate,   (* The rate of a new ME's next transition, in grains           *)
  (* Bounds on what is called and on what the render thread meets:              *)
  Ops,           (* The commands that are called                                *)
  Picked,        (* The sources commands name                                   *)
  Types,         (* The types of the next transition                            *)
  Rates,         (* The rates, in grains                                        *)
  TakeArgs,      (* The takes: target, Preview, frames, type, stinger, ties     *)
  RunLengths,    (* Grains a run along the keyframes takes (0: a loop)          *)
  KeyframeCounts,(* The numbers of keyframes a keyer is given                   *)
  MaxIn,         (* The furthest grain a take is held for                       *)
  MaxStep        (* Grains from one planned grain to the next (1: none skipped) *)

Mes == 1 .. MeCount

(* Sources: an input, a clip player, an ME's Program, or black. *)
Black    == <<"black", 0>>
NoSource == <<"none", 0>>
Source   == {Black} \cup ({"input"} \X (1 .. InputCount))
                    \cup ({"player"} \X (1 .. PlayerCount)) \cup ({"me"} \X Mes)

AllowedItself(m) == {s \in Source : s[1] = "me" => s[2] >= m}

(* ME m may take the inputs, the players, black and the Program of a later ME. *)
Allowed(m) == {s \in Source : s[1] = "me" => s[2] > m}

NoSting == [player |-> 0, frames |-> 0, cut |-> 0]

ASSUME MixerAssumption ==
  /\ MeCount \in Nat \ {0} /\ InputCount \in Nat /\ PlayerCount \in Nat
  /\ KeyMe \in [Keys -> Mes] /\ Upstream \subseteq Keys
  /\ StingerWait \in Nat /\ DefaultRate \in Nat \ {0}
  /\ Picked \subseteq Source /\ Types \subseteq {"mix", "stinger"}
  /\ Rates \subseteq Nat \ {0}
  /\ TakeArgs \subseteq [target : Source, preview : Source \cup {NoSource}, frames : Nat,
                          type : {"cut", "mix", "stinger"},
                          sting : [player : Nat, frames : Nat, cut : Int], ties : BOOLEAN]
  /\ RunLengths \subseteq Nat /\ KeyframeCounts \subseteq Nat
  /\ MaxIn \in Nat /\ MaxStep \in Nat \ {0}

VARIABLES
  me,         (* The state of each ME                                            *)
  ftb,        (* Its Fade to Black                                               *)
  key,        (* Each keyer                                                      *)
  keySource,  (* The source of its luma key or pip                               *)
  held,       (* The take held for a later grain, per ME                         *)
  pc,         (* Where each thread is                                            *)
  due,        (* The held takes a thread has taken out and is making, per ME     *)
  seen,       (* What the control thread read in its call's first section        *)
  grain,      (* Grains from the last planned grain to the one being planned     *)
  plan        (* What was planned for the last grain, per ME                     *)

vars == <<me, ftb, key, keySource, held, pc, due, seen, grain, plan>>

Threads == {"control", "render"}

-----------------------------------------------------------------------------
(* One ME: its buses, its transition and the settings of its next one.     *)

(* No transition waits or runs. *)
NoMix == [target |-> Black, after |-> NoSource, frames |-> 1, pending |-> FALSE, mixing |-> FALSE,
          ran |-> 0, from |-> 0, manual |-> FALSE, t |-> 0, tLast |-> 0, sting |-> NoSting,
          waiting |-> FALSE]

Busy(s) == s.mix.pending \/ s.mix.mixing

(* The transition dropped, the buses as they are. *)
Rest(s) == [s EXCEPT !.mix = NoMix]

(* Ends a pending or running transition as if it had run to its end. *)
FinishMix(s) ==
  IF Busy(s)
  THEN Rest([s EXCEPT !.program = s.mix.target,
                      !.preview = IF s.mix.after = NoSource THEN @ ELSE s.mix.after])
  ELSE Rest(s)

IsStinger(tk)   == tk.type = "stinger" /\ tk.sting.player > 0 /\ tk.sting.frames > 0
IsImmediate(tk) == ~IsStinger(tk) /\ (tk.frames = 0 \/ tk.type \in {"cut", "stinger"})

Clamp(n, low, high) == IF n < low THEN low ELSE IF n > high THEN high ELSE n

(* The transition a take starts at the next grain planned. *)
Coming(tk) ==
  [NoMix EXCEPT !.target = tk.target, !.after = tk.preview, !.pending = TRUE,
                !.frames = IF IsStinger(tk) THEN tk.sting.frames ELSE tk.frames,
                !.sting = IF IsStinger(tk)
                          THEN [tk.sting EXCEPT !.cut = Clamp(@, 0, tk.sting.frames)] ELSE NoSting]

(* A take on an ME: a running transition ends first. *)
TakeMe(s, tk) ==
  LET f == FinishMix(s) IN
  IF IsImmediate(tk)
  THEN [f EXCEPT !.program = tk.target,
                 !.preview = IF tk.preview = NoSource THEN @ ELSE tk.preview]
  ELSE [f EXCEPT !.mix = Coming(tk)]

TakeKeyStaysTied(k, tk, tied) ==
  IF ~(tk.ties /\ tied) THEN k
  ELSE IF IsImmediate(tk) THEN CutKey(k, ~On(k))
  ELSE TieStart(k, IsStinger(tk))

(* ... and on a keyer of that ME, `tied` when the next transition ties it. *)
TakeKey(k, tk, tied) ==
  LET e == TieEnd(k, TRUE) IN
  IF ~(tk.ties /\ tied) THEN e
  ELSE IF IsImmediate(tk) THEN CutKey(e, ~On(e))
  ELSE TieStart(e, IsStinger(tk))

KeysOf(m) == {k \in Keys : KeyMe[k] = m}

Take(m, tk) ==
  /\ me' = [me EXCEPT ![m] = TakeMe(me[m], tk)]
  /\ key' = [k \in Keys |-> IF KeyMe[k] = m THEN TakeKey(key[k], tk, k \in me[m].next.ties)
                                            ELSE key[k]]

-----------------------------------------------------------------------------
(* One ME in one grain, planned d grains after the one before.             *)

(* A stinger waits for its player's first frame, then starts as any        *)
(* transition does, at the latest after StingerWait grains: then it cuts.  *)
Waited(x, d)    == IF x.waiting THEN x.ran + d ELSE 0
Waits(x, ready) == x.pending /\ x.sting.player > 0 /\ x.sting.player \notin ready
GivesUp(x, d, ready) == Waits(x, ready) /\ Waited(x, d) >= StingerWait

(* The transition x once the grain came: waiting, starting or going on. *)
Reached(x, d, ready) ==
  IF Waits(x, ready) THEN [x EXCEPT !.waiting = TRUE, !.ran = Waited(x, d)]
  ELSE IF x.pending THEN [x EXCEPT !.pending = FALSE, !.mixing = TRUE, !.waiting = FALSE, !.ran = 0]
  ELSE IF x.mixing /\ ~x.manual THEN [x EXCEPT !.ran = @ + d]
  ELSE x

Started(s, d, ready) ==
  IF GivesUp(s.mix, d, ready) THEN FinishMix(s) ELSE [s EXCEPT !.mix = Reached(s.mix, d, ready)]

(* The same of a transition x that is running in this grain. *)
Stinging(x)  == x.mixing /\ x.sting.player > 0
Scrubbing(x) == x.mixing /\ x.manual
Fading(x)    == x.mixing /\ ~x.manual /\ x.sting.player = 0

StingFrame(x) == IF x.ran < x.frames THEN x.ran ELSE x.frames - 1
CutDone(x)    == Stinging(x) /\ StingFrame(x) >= x.sting.cut
FadeStep(x)   == IF x.ran + 1 < x.frames THEN x.ran + 1 ELSE x.frames

CompletesLate(x) == \/ Scrubbing(x) /\ x.t >= Full
                    \/ Stinging(x) /\ StingFrame(x) >= x.frames - 1
                    \/ Fading(x) /\ x.ran >= x.frames
Completes(x) == \/ Scrubbing(x) /\ x.t >= Full
                \/ Stinging(x) /\ StingFrame(x) >= x.frames - 1
                \/ Fading(x) /\ FadeStep(x) >= x.frames
GoesBack(x)  == Scrubbing(x) /\ x.t <= 0

ShownT(x) == IF Scrubbing(x) THEN x.t
             ELSE IF Fading(x) THEN Between(x.from, Full, FadeStep(x), x.frames)
             ELSE 0
PrevT(x)  == IF Scrubbing(x) THEN x.tLast
             ELSE IF Fading(x) THEN Between(x.from, Full, FadeStep(x) - 1, x.frames)
             ELSE 0

MePlan(s) == [a |-> s.program, b |-> IF s.mix.mixing THEN s.mix.target ELSE s.preview,
              mixing |-> s.mix.mixing, stinger |-> Stinging(s.mix),
              t |-> ShownT(s.mix), tPrev |-> PrevT(s.mix)]

Planned1Swaps(s) == IF Completes(s.mix) \/ GoesBack(s.mix) THEN FinishMix(s)
                    ELSE IF Scrubbing(s.mix) THEN [s EXCEPT !.mix.tLast = s.mix.t]
                    ELSE s

(* After the grain: the buses swap after the last one shown in full; the   *)
(* T-bar at 0 ends the transition without the swap.                        *)
Planned1(s) == IF Completes(s.mix) THEN FinishMix(s)
               ELSE IF GoesBack(s.mix) THEN Rest(s)
               ELSE IF Scrubbing(s.mix) THEN [s EXCEPT !.mix.tLast = s.mix.t]
               ELSE s

(* What the grain does to the keyers tied to the transition. *)
TieStep(x, gaveUp) ==
  [active |-> (Scrubbing(x) \/ Fading(x)) /\ ~GoesBack(x), t |-> ShownT(x),
   cut |-> gaveUp \/ CutDone(x), end |-> Completes(x), back |-> GoesBack(x)]

-----------------------------------------------------------------------------
(* Initial state: ME m on inputs 2m-1 (Program) and 2m (Preview), wrapped  *)
(* to the inputs there are; nothing keyed.                                 *)
FirstBus(n) == IF InputCount = 0 THEN Black ELSE <<"input", (n % InputCount) + 1>>

NewMe(m, next) ==
  [program |-> FirstBus(2 * m - 2), preview |-> FirstBus(2 * m - 1),
   mix |-> NoMix, next |-> next, heldMade |-> FALSE]

NoTake == [target |-> NoSource, preview |-> NoSource, frames |-> 0, type |-> "none",
           sting |-> NoSting, ties |-> FALSE]
NotHeld == [in |-> 0, take |-> NoTake]
NoneDue == [m \in Mes |-> NoTake]

DefaultNext == [type |-> "mix", frames |-> DefaultRate, ties |-> {}]
Nothing == [me |-> 0, program |-> NoSource, preview |-> NoSource, running |-> FALSE,
            next |-> DefaultNext]
NoPlan == [a |-> Black, b |-> Black, mixing |-> FALSE, stinger |-> FALSE, t |-> 0, tPrev |-> 0]

(* The mixer as constructed, after the settings FlowXer sends first: each  *)
(* ME's next transition and each keyer's.                                  *)
InitWith(next, keyer) ==
  /\ me = [m \in Mes |-> NewMe(m, next)]
  /\ ftb = [m \in Mes |-> NoFade]
  /\ key = [k \in Keys |-> keyer]
  /\ keySource = [k \in Keys |-> NoSource]
  /\ held = [m \in Mes |-> NotHeld]
  /\ pc = [th \in Threads |-> "idle"]
  /\ due = [th \in Threads |-> NoneDue]
  /\ seen = Nothing
  /\ grain = 0
  /\ plan = [m \in Mes |-> NoPlan]

Init == InitWith(DefaultNext, NewKeyer)

-----------------------------------------------------------------------------
(* Held takes.  A thread takes them out under the lock, makes them one by  *)
(* one (each a take of its own) and notes after each whether it was made   *)
(* in its grain.                                                           *)

IsHeld(m) == held[m] # NotHeld
HasDue(th) == {m \in Mes : due[th][m] # NoTake}
IsFirst(th, m) == m \in HasDue(th) /\ \A n \in HasDue(th) : m <= n

TakeOutAll(th, S) ==
  /\ due' = [due EXCEPT ![th] = [m \in Mes |-> IF m \in S THEN held[m].take ELSE NoTake]]
  /\ held' = [m \in Mes |-> NotHeld]

TakeOut(th, S) ==
  /\ due' = [due EXCEPT ![th] = [m \in Mes |-> IF m \in S THEN held[m].take ELSE NoTake]]
  /\ held' = [m \in Mes |-> IF m \in S THEN NotHeld ELSE held[m]]

MakeHeld(th) ==
  /\ pc[th] = "held"
  /\ \E m \in Mes : IsFirst(th, m) /\ Take(m, due[th][m])
  /\ pc' = [pc EXCEPT ![th] = "made"]
  /\ UNCHANGED <<ftb, keySource, held, due, seen, grain, plan>>

NoteHeld(th) ==
  /\ pc[th] = "made"
  /\ \E m \in Mes : /\ IsFirst(th, m)
                    /\ me' = [me EXCEPT ![m].heldMade = (th = "render")]
                    /\ due' = [due EXCEPT ![th][m] = NoTake]
  /\ pc' = [pc EXCEPT ![th] = "held"]
  /\ UNCHANGED <<ftb, key, keySource, held, seen, grain, plan>>

-----------------------------------------------------------------------------
(* The render thread.                                                      *)

WakeExactly ==
  /\ pc["render"] = "idle"
  /\ \E d \in 1 .. MaxStep :
       /\ grain' = d
       /\ TakeOut("render", {m \in Mes : IsHeld(m) /\ held[m].in = d})
  /\ pc' = [pc EXCEPT !["render"] = "held"]
  /\ UNCHANGED <<me, ftb, key, keySource, seen, plan>>

(* The next grain, some grains after the last one: the takes due by it are *)
(* taken out.                                                              *)
Wake ==
  /\ pc["render"] = "idle"
  /\ \E d \in 1 .. MaxStep :
       /\ grain' = d
       /\ TakeOut("render", {m \in Mes : IsHeld(m) /\ held[m].in <= d})
  /\ pc' = [pc EXCEPT !["render"] = "held"]
  /\ UNCHANGED <<me, ftb, key, keySource, seen, plan>>

(* The grain is planned; `ready`: the stinger players with their first     *)
(* frame decoded.                                                          *)
Plan(ready) ==
  LET s(m)   == Started(me[m], grain, ready)
      tie(m) == TieStep(s(m).mix, GivesUp(me[m].mix, grain, ready))
  IN
  /\ pc["render"] = "held" /\ HasDue("render") = {}
  /\ plan' = [m \in Mes |-> MePlan(s(m))]
  /\ me' = [m \in Mes |-> Planned1(s(m))]
  /\ ftb' = [m \in Mes |-> FadeAdvance(ftb[m], grain)]
  /\ key' = [k \in Keys |-> KeyGrain(key[k], tie(KeyMe[k]), grain)]
  /\ held' = [m \in Mes |-> IF IsHeld(m)
                            THEN [held[m] EXCEPT !.in = IF @ > grain THEN @ - grain ELSE 0]
                            ELSE NotHeld]
  /\ grain' = 0
  /\ pc' = [pc EXCEPT !["render"] = "idle"]
  /\ UNCHANGED <<keySource, due, seen>>

Players == {tk.sting.player : tk \in TakeArgs} \ {0}

Render == \/ Wake \/ MakeHeld("render") \/ NoteHeld("render")
          \/ \E ready \in SUBSET Players : Plan(ready)

-----------------------------------------------------------------------------
(* The control thread.  Before a command of an ME its held take is made,   *)
(* before one of a keyer every ME's; only a take to be held leaves it.     *)

Call(S, m) ==
  /\ pc["control"] = "idle"
  /\ TakeOut("control", S)
  /\ seen' = [Nothing EXCEPT !.me = m]
  /\ pc' = [pc EXCEPT !["control"] = "held"]
  /\ UNCHANGED <<me, ftb, key, keySource, grain, plan>>

CallMe  == Ops \cap {"take", "cut", "auto", "position", "program", "preview", "transition", "ftb"} # {}
           /\ \E m \in Mes : Call({n \in {m} : IsHeld(n)}, m)
CallKey == Ops \cap {"keySet", "keyAuto", "keySettings", "keyKeyframes", "keyRun", "keyStop"} # {}
           /\ Call({n \in Mes : IsHeld(n)}, 0)

(* Its held take made, the command op of ME m itself. *)
Ready(op, m) == /\ op \in Ops
                /\ pc["control"] = "held" /\ HasDue("control") = {} /\ seen.me = m

(* A command that ends in this critical section. *)
Return == /\ pc' = [pc EXCEPT !["control"] = "idle"] /\ seen' = Nothing
          /\ UNCHANGED <<keySource, due, grain, plan>>

MeReturn == Return /\ UNCHANGED <<ftb, held>>

(* The takes of an ME: to a source it may take, and on Preview one it may. *)
Takes(m) == {tk \in TakeArgs : /\ tk.target \in Allowed(m)
                               /\ tk.preview \in Allowed(m) \cup {NoSource}}

TakeNow(m) ==
  /\ Ready("take", m)
  /\ \E tk \in Takes(m) : Take(m, tk)
  /\ MeReturn

(* A take held for a later grain replaces the one held. *)
TakeAt(m) ==
  /\ "takeAt" \in Ops /\ pc["control"] = "idle"
  /\ \E tk \in Takes(m), n \in 0 .. MaxIn : held' = [held EXCEPT ![m] = [in |-> n, take |-> tk]]
  /\ UNCHANGED <<me, ftb, key, keySource, pc, due, seen, grain, plan>>

SetProgram(m) ==
  /\ Ready("program", m)
  /\ \E s \in Picked \cap Allowed(m) : me' = [me EXCEPT ![m] = [Rest(@) EXCEPT !.program = s]]
  /\ key' = [k \in Keys |-> IF KeyMe[k] = m THEN TieEnd(key[k], TRUE) ELSE key[k]]
  /\ MeReturn

(* The operator's choice wins over the swap at the end of a running mix. *)
SetPreview(m) ==
  /\ Ready("preview", m)
  /\ \E s \in Picked \cap Allowed(m) :
       me' = [me EXCEPT ![m].preview = s, ![m].mix.after = NoSource]
  /\ key' = key /\ MeReturn

SetTransition(m) ==
  /\ Ready("transition", m)
  /\ \E type \in Types, n \in Rates,
        ties \in SUBSET (KeysOf(m) \cap Upstream) :
       me' = [me EXCEPT ![m].next = [type |-> type, frames |-> n, ties |-> ties]]
  /\ key' = key /\ MeReturn

SetFtb(m) ==
  /\ Ready("ftb", m)
  /\ \/ \E on \in BOOLEAN : ftb' = [ftb EXCEPT ![m] = FadeSet(on)]
     \/ \E n \in Rates : ftb' = [ftb EXCEPT ![m] = FadeAuto(@, n)]
  /\ Return /\ UNCHANGED <<me, key, held>>

(* The first section of a call that goes on after it. *)
GoOn(next, what) == /\ pc' = [pc EXCEPT !["control"] = next] /\ seen' = what
                    /\ UNCHANGED <<ftb, keySource, held, due, grain, plan>>

(* What a call reads of its ME, to use it after the lock was released. *)
Read(m) == [Nothing EXCEPT !.me = m, !.program = me[m].program, !.preview = me[m].preview,
                           !.running = Busy(me[m])]

(* Cut: Program and Preview are read, then taken the other way around; a   *)
(* cut that found a transition running leaves the tied keyers to its end.  *)
Cut(m) ==
  /\ Ready("cut", m)
  /\ GoOn("cut", Read(m)) /\ UNCHANGED <<me, key>>

SeenTake(type, frames, ties) ==
  [target |-> seen.preview, preview |-> seen.program, frames |-> frames, type |-> type,
   sting |-> NoSting, ties |-> ties]

CutTake ==
  /\ pc["control"] = "cut"
  /\ Take(seen.me, SeenTake("cut", 0, ~seen.running))
  /\ MeReturn

(* Auto, at `rate`: from a held T-bar the rest of its transition; refused  *)
(* while one runs; else the next transition, from what it read.            *)
Resumed(x, rate) == [NoMix EXCEPT !.target = x.target, !.after = x.after, !.pending = TRUE,
                                  !.frames = Scaled(rate, Full - x.t), !.from = x.t]
AutoAt(m, rate) ==
  \/ /\ me[m].mix.manual
     /\ me' = [me EXCEPT ![m].mix = Resumed(@, rate)] /\ key' = key /\ MeReturn
  \/ /\ ~me[m].mix.manual /\ Busy(me[m])
     /\ UNCHANGED <<me, key>> /\ MeReturn
  \/ /\ ~Busy(me[m])
     /\ GoOn("auto", [Read(m) EXCEPT !.next = [me[m].next EXCEPT !.frames = rate]]) /\ UNCHANGED <<me, key>>

AutoTransition(m) == Ready("auto", m) /\ \E n \in Rates \cup {me[m].next.frames} : AutoAt(m, n)

AutoTake ==
  /\ pc["control"] = "auto"
  /\ Take(seen.me, SeenTake(seen.next.type, seen.next.frames, TRUE))
  /\ MeReturn

(* The T-bar to t: off 0 it starts the next transition and holds it there; *)
(* a stinger does not scrub, it is started as an Auto.                     *)
Scrub(s, t) ==
  IF s.mix.mixing THEN [s EXCEPT !.mix.t = t]
  ELSE [s EXCEPT !.mix = [NoMix EXCEPT !.target = s.preview, !.after = s.program, !.frames = s.next.frames,
                                       !.mixing = TRUE, !.manual = TRUE, !.t = t]]

Position(m) ==
  /\ Ready("position", m)
  /\ \E t \in 0 .. Full :
       LET s == me[m]
           refused == s.mix.pending \/ (s.mix.mixing /\ ~s.mix.manual)
           nothing == ~s.mix.mixing /\ t = 0
       IN
       \/ /\ refused \/ nothing
          /\ UNCHANGED <<me, key>> /\ MeReturn
       \/ /\ ~refused /\ ~nothing /\ ~s.mix.mixing /\ s.next.type = "stinger"
          /\ GoOn("scrub", [Nothing EXCEPT !.me = m]) /\ UNCHANGED <<me, key>>
       \/ /\ ~refused /\ ~nothing /\ (s.mix.mixing \/ s.next.type # "stinger")
          /\ me' = [me EXCEPT ![m] = Scrub(@, t)]
          /\ key' = [k \in Keys |-> IF ~s.mix.mixing /\ KeyMe[k] = m /\ k \in s.next.ties
                                    THEN TieStart(key[k], FALSE) ELSE key[k]]
          /\ MeReturn

ScrubAuto == pc["control"] = "scrub" /\ AutoAt(seen.me, me[seen.me].next.frames)

(* A keyer's commands.  A run needs a box, which is taken to be there. *)
KeyCommand(op, k, new) ==
  /\ Ready(op, 0)
  /\ key' = [key EXCEPT ![k] = new]
  /\ Return /\ UNCHANGED <<me, ftb, held>>

KeySet(k)  == \E on \in BOOLEAN : KeyCommand("keySet", k, CutKey(key[k], on))
KeyFade(k) == \E n \in Rates, run \in RunLengths \ {0} :
                KeyCommand("keyAuto", k, KeyAuto(key[k], n, run))
KeyPath(k) == /\ k \in Upstream
              /\ \E n \in KeyframeCounts : KeyCommand("keyKeyframes", k, KeyKeyframes(key[k], n))
KeyMove(k) == /\ k \in Upstream
              /\ \E j \in 0 .. key[k].keyframes - 1, n \in RunLengths, jump \in BOOLEAN :
                   (n = 0 => ~jump /\ key[k].keyframes >= 2)
                   /\ KeyCommand("keyRun", k, KeyRun(key[k], j, n, jump))
KeyStop(k) == KeyCommand("keyStop", k, StopRun(key[k]))
KeyChange(k) ==
  /\ Ready("keySettings", 0)
  /\ \E fly \in IF k \in Upstream THEN BOOLEAN ELSE {FALSE}, moved \in BOOLEAN,
        s \in (Picked \cap Allowed(KeyMe[k])) \cup {NoSource} :
       /\ key' = [key EXCEPT ![k] = KeySettings(@, fly, moved)]
       /\ keySource' = [keySource EXCEPT ![k] = s]
  /\ pc' = [pc EXCEPT !["control"] = "idle"] /\ seen' = Nothing
  /\ UNCHANGED <<me, ftb, held, due, grain, plan>>

MeCommand(m) == \/ TakeNow(m) \/ SetProgram(m) \/ SetPreview(m) \/ SetTransition(m)
                \/ SetFtb(m) \/ Cut(m) \/ AutoTransition(m) \/ Position(m)
KeyerCommand(k) == KeySet(k) \/ KeyFade(k) \/ KeyPath(k) \/ KeyMove(k) \/ KeyStop(k) \/ KeyChange(k)

Command == \/ MakeHeld("control") \/ NoteHeld("control")
           \/ \E m \in Mes : MeCommand(m)
           \/ \E k \in Keys : KeyerCommand(k)
           \/ CutTake \/ AutoTake \/ ScrubAuto

Control == CallMe \/ CallKey \/ (\E m \in Mes : TakeAt(m)) \/ Command

Next == Render \/ Control

Spec == Init /\ [][Next]_vars

(* The render thread plans grain after grain and a call that was started   *)
(* comes to its end; nothing makes the operator call again.                *)
Fairness == WF_vars(Render) /\ WF_vars(Command)
=============================================================================
