------------------------------ MODULE ClipEnds ------------------------------
(***************************************************************************)
(* A clip player's end action on one ME (engine/mixer.py): while the clip  *)
(* is on Program, a watcher thread reads the engine's players, arms a      *)
(* timer a few grains before the action starts, and the timer's thread     *)
(* checks, reads what to take and sends the take, which the engine holds   *)
(* for its grain.  That thread has a lock (_lock) only a start of Program  *)
(* takes as well: every other call may come between two of its steps.      *)
(*                                                                         *)
(* Time is the output grain: `now` is the last one planned, and monotonic  *)
(* time runs with it.  Threads are late by at most Lag grains.  One clip   *)
(* player that does not loop, one other source, one stinger player; which  *)
(* stinger that player holds, the T-bar (Mixer) and a change of the rate   *)
(* are left out.                                                           *)
(***************************************************************************)
EXTENDS Integers, FiniteSets

CONSTANTS
    Clip, Cam,          \* the clip player and another source
    None,
    Length,             \* frames of the clip
    Rate,               \* the ME's transition rate
    StingFrames, CutFrame, Margin,    \* the stinger; how long its player stays taken after it
    StingWait,          \* STINGER_WAIT_S
    Poll, Horizon, Lead, Late,        \* CLIP_END_POLL_S, _HORIZON, _LEAD, _LATE
    Lag,                \* how late a thread runs
    PlayOnCut,          \* the clip player plays when it comes on Program (play_on_cut)
    MaxGrain, MaxCalls  \* bounds: the last grain, and the operator's calls

Sources == {Clip, Cam}
Actions == {"off", "cut", "auto", "stinger"}
States == {"cued", "starting", "playing", "paused", "ended"}
Ends == 1..(MaxGrain + Length)

\* A take the engine holds: its grain, the one it is due in (see Taken), and its buses.
Held == [at : Nat, goal : Nat, target : Sources, preview : Sources \cup {None}]

\* The engine's reply about the clip player: when, its state and its end grain (0: none).
Replies == [index : Nat, state : States, end : {0} \cup Ends]

\* A timer: the grain its action starts in, of which end, when it runs off; armed in time.
Timers == [start : Int, end : Ends, due : Nat, timely : BOOLEAN]

\* What the thread of a timer that ran off works on: the action and the timer it was decided for
\* and, once read, the source and the grain to take it in (in time: for this action's start too).
Firings == [action : Actions, start : Int, end : Ends, due : Nat, timely : BOOLEAN,
            incoming : Sources \cup {None}, at : Nat \cup {None}]

ASSUME GrainAssumption ==
    /\ Clip # Cam /\ None \notin {Clip, Cam}
    /\ None \notin Int /\ None \notin Held /\ None \notin Replies /\ None \notin Timers
    /\ None \notin Firings /\ PlayOnCut \in BOOLEAN
    /\ {Length, Rate, StingFrames, Poll, Lead, MaxGrain} \subseteq Nat \ {0}
    /\ {CutFrame, Margin, StingWait, Horizon, Late, Lag, MaxCalls} \subseteq Nat
    /\ Lead > 2 * Lag                       \* a late read and a late timer together
    /\ Horizon >= Lead + Poll + 2 * Lag     \* a read falls between the horizon and the lead

VARIABLES
    now,        \* the last output grain planned
    clip,       \* the engine's clip player: its state, the frames not shown, its last grain
    aired,      \* the clip was on the engine's Program in the last grain
    eng,        \* the engine's buses and the take it holds for a grain
    running,    \* Program runs (state running and an engine)
    program, preview,   \* the control plane's buses
    mix,        \* _mixes: the grain the running transition ends (0: none)
    onEnd,      \* the clip player's on_end
    until,      \* _stinger_until of the stinger player
    playable,   \* the stinger has its mezzanine
    watch,      \* the watcher: the reply it works on, and the grain of its last read
    heard,      \* _players_seen: how far the last reply's index was behind when it was handled
    pending,    \* _clip_end_timers
    fired,      \* the end action whose thread has the lock, before its take (see Firings)
    seen, done, \* _clip_end_seen, _clip_end_done: an end grain (0: none)
    asleep,     \* the stinger takes that sleep until the player is free
    ends,       \* history: how often each end was acted on
    crossed,    \* history: something crossed an end action on its way (see Crosses)
    lastCall,   \* history: the grain of the operator's last call since the clip ended, or of a take
                \* that was decided before
    calls       \* calls left

engine == <<clip, aired, eng>>
buses == <<program, preview, mix>>
watcher == <<watch, heard, seen>>
vars == <<now, engine, running, buses, onEnd, until, playable, watcher, pending, fired, done,
          asleep, ends, crossed, lastCall, calls>>

\* The largest of two grains.
Later(a, b) == IF a > b THEN a ELSE b

-----------------------------------------------------------------------------
(* The engine                                                              *)

\* The grain of the clip's last frame, once a frame of this play was shown (0: none).
EndIndex == CASE clip.state = "ended" -> clip.end
              [] clip.state = "playing" -> now + clip.left
              [] OTHER -> 0

\* A player with media on its first frame.
Loaded == [state |-> "cued", left |-> Length, end |-> 0]

\* The clip in grain g, `air`: on Program in it.  Coming on air starts it with play_on_cut; a clip
\* that plays stays on its timeline over grains the engine skipped.
Advanced(g, air) ==
    LET c == IF ~(PlayOnCut /\ air /\ ~aired) \/ clip.state \in {"starting", "playing"} THEN clip
             ELSE IF clip.state = "ended" THEN [Loaded EXCEPT !.state = "starting"]
             ELSE [clip EXCEPT !.state = "starting"]
        shown == IF c.state = "playing" THEN g - now ELSE 1
        last == IF c.state = "playing" THEN now + c.left ELSE g
    IN IF c.state \notin {"starting", "playing"} THEN c
       ELSE IF shown >= c.left THEN [state |-> "ended", left |-> 0, end |-> last]
       ELSE [state |-> "playing", left |-> c.left - shown, end |-> 0]

\* The buses after the held take.
HeldMade(e) == IF e.held = None THEN e
               ELSE [program |-> e.held.target,
                     preview |-> IF e.held.preview = None THEN e.preview ELSE e.held.preview,
                     held |-> None]

\* (Bug: another command leaves a held take waiting.)
HeldKept(e) == e

\* What a command for the ME does first: it makes the held take.
Before(e) == HeldMade(e)

\* A take sent to the engine: at once, or held for grain `at` (a newer one replaces it), where it
\* is due in grain `goal` (0: late already; only the properties look at it).
Taken(e, target, other, at, goal) ==
    IF at = None
    THEN [Before(e) EXCEPT !.program = target,
                           !.preview = IF other = None THEN @ ELSE other]
    ELSE [e EXCEPT !.held = [at |-> at, target |-> target, preview |-> other, goal |-> goal]]

-----------------------------------------------------------------------------
(* The control plane                                                       *)

\* What the ME does at the end of the clip on its Program.
EndAction == IF program = Clip /\ preview # Clip THEN onEnd ELSE "off"

\* The grain the action starts in, for a clip whose last frame is in grain `end`.
EndStart(end) ==
    CASE EndAction = "auto" -> end - Rate + 1
      [] EndAction = "stinger" /\ playable -> end - CutFrame
      [] OTHER -> end + 1

\* Grains from now to grain `at`, by the last reply.
GrainsUntil(at) == IF at = None \/ heard = None THEN 0
                   ELSE Later(0, at - now + heard)

\* `at` for a take that should start in grain g: none when that is past.
HeldFor(g) == IF GrainsUntil(g) >= 1 THEN g ELSE None

\* Program to `src`, over `frames` (0: a cut), `flip`: the old Program goes to Preview.
Put(src, flip, frames, at, goal) ==
    LET swapped == flip /\ program # src
    IN /\ program' = src
       /\ preview' = IF swapped THEN program ELSE preview
       /\ mix' = IF frames = 0 THEN 0 ELSE now + GrainsUntil(at) + frames
       /\ eng' = IF running THEN Taken(eng, src, IF swapped THEN program ELSE None, at, goal)
                 ELSE eng
       /\ pending' = None

\* The stinger player is free.
Free == until <= now
\* It is free soon enough to wait for.
FreeSoon == until - now <= StingWait

\* The stinger on the free player.
PlayStinger(src, flip, at, goal) ==
    /\ until' = now + GrainsUntil(at) + StingFrames + Margin
    /\ Put(src, flip, StingFrames, at, goal)

\* The stinger take sleeps until the player is free; `end`: of an end action, else None.
Sleep(src, flip, at, end) ==
    /\ asleep' = asleep \cup {[source |-> src, flip |-> flip, at |-> at, end |-> end]}
    /\ UNCHANGED <<buses, eng, pending, until>>

\* The end action of this end is sent.
Sent(end) == ends' = [ends EXCEPT ![end] = @ + 1]

-----------------------------------------------------------------------------
(* Time                                                                    *)

\* The take of an end action sleeps.
EndSleeps == \E w \in asleep : w.end # None

\* The thread of an end action has the lock.
Acting == fired # None \/ EndSleeps

\* No thread is later than Lag in grain g (a timer's thread waits for one that sleeps, _lock).
InTime(g) ==
    /\ watch.reply # None => g <= watch.read + Lag
    /\ running => g <= watch.read + Poll + Lag
    /\ pending # None => g <= pending.due + Lag \/ EndSleeps
    /\ fired # None => g <= fired.due + Lag
    /\ asleep # {} => g <= until + Lag

\* The next grain is planned (`skip`: the engine missed one), a take held for it just before.
Grain(skip) ==
    LET g == now + 1 + skip
        due == eng.held # None /\ eng.held.at <= g
    IN /\ InTime(g) /\ g <= MaxGrain
       /\ now' = g
       /\ eng' = IF due THEN HeldMade(eng) ELSE eng
       /\ clip' = IF running THEN Advanced(g, eng'.program = Clip) ELSE clip
       /\ aired' = (running /\ eng'.program = Clip)
       /\ crossed' = (crossed \/ /\ clip.state = "ended" /\ clip' # clip
                                 /\ watch.reply # None \/ pending # None \/ Acting)
       /\ UNCHANGED <<running, buses, onEnd, until, playable, watcher, pending, fired, done,
                      asleep, ends, lastCall, calls>>

-----------------------------------------------------------------------------
(* The watcher and the timer                                               *)

\* The watcher's round: with nothing to watch for it sleeps on, else it asks the engine for its
\* players.
Read ==
    /\ running /\ watch.reply = None /\ now > watch.read
    /\ watch' = [reply |-> IF EndAction = "off" THEN None
                           ELSE [index |-> now, state |-> clip.state, end |-> EndIndex],
                 read |-> now]
    /\ UNCHANGED <<now, engine, running, buses, onEnd, until, playable, heard, pending, fired,
                   seen, done, asleep, ends, crossed, lastCall, calls>>

\* (Bug: an end counts only while the clip still plays.)
WantedPlaying(reply) ==
    EndAction # "off" /\ reply.end # 0 /\ done # reply.end /\ reply.state = "playing"

\* The reply's end is one to act on.
Wanted(reply) ==
    /\ EndAction # "off" /\ reply.end # 0
    /\ reply.end >= reply.index - Late
    /\ done # reply.end
    /\ reply.state = "playing" \/ seen = reply.end

\* (Bug: the take is sent in its grain, not Lead grains before.)
TimerNoLead(reply, start) ==
    [start |-> start, end |-> reply.end, due |-> Later(now, now + start - reply.index),
     timely |-> start - Lead >= reply.index]

\* The timer for an action that starts in grain `start`: Lead grains before, by the reply.
Timer(reply, start) ==
    [start |-> start, end |-> reply.end, due |-> Later(now, now + start - Lead - reply.index),
     timely |-> start - Lead >= reply.index]

\* The reply is worked out: a timer for an action within the horizon, in the place of one for
\* another grain.
Judge ==
    LET reply == watch.reply
        start == EndStart(reply.end)
        within == start - reply.index <= Horizon
        same == pending # None /\ pending.start = start
    IN /\ reply # None
       /\ watch' = [watch EXCEPT !.reply = None]
       /\ heard' = now - reply.index
       /\ seen' = IF Wanted(reply) /\ reply.state = "playing" THEN reply.end ELSE seen
       /\ pending' = IF Wanted(reply) /\ within /\ ~same THEN Timer(reply, start) ELSE pending
       /\ UNCHANGED <<now, engine, running, buses, onEnd, until, playable, fired, done, asleep,
                      ends, crossed, lastCall, calls>>

\* A timer runs off and has the lock.
Due == pending # None /\ now >= pending.due /\ ~Acting

\* A timer that runs off and has nothing to do: Program stopped, the clip off Program, Preview
\* the same, or a transition runs (the next read arms it again).
FireNothing ==
    /\ Due
    /\ ~running \/ EndAction = "off" \/ mix > now
    /\ pending' = None
    /\ UNCHANGED <<now, engine, running, buses, onEnd, until, playable, watcher, fired, done,
                   asleep, ends, crossed, lastCall, calls>>

\* This end was acted on.
Noted(end) == done' = end

\* Else the action is decided.
Fire ==
    /\ Due /\ running /\ EndAction # "off" /\ mix <= now
    /\ pending' = None /\ Noted(pending.end)
    /\ fired' = [action |-> EndAction, start |-> pending.start, end |-> pending.end,
                 due |-> pending.due,
                 timely |-> pending.timely /\ pending.start = EndStart(pending.end),
                 incoming |-> None, at |-> None]
    /\ UNCHANGED <<now, engine, running, buses, onEnd, until, playable, watcher, asleep, ends,
                   crossed, lastCall, calls>>

\* What it takes, and for which grain: by now another source may be on Preview.
Aim ==
    /\ fired # None /\ fired.incoming = None
    /\ fired' = [fired EXCEPT !.incoming = preview, !.at = HeldFor(fired.start)]
    /\ UNCHANGED <<now, engine, running, buses, onEnd, until, playable, watcher, pending, done,
                   asleep, ends, crossed, lastCall, calls>>

\* The stinger of an end action is a cut: not converted, or its player not free in time.
StingCuts == ~playable \/ (~Free /\ ~FreeSoon)

\* A take that was decided before is made now.
MadeLate == lastCall' = IF clip.state = "ended" THEN now ELSE lastCall

\* The grain a cut is due in after this end, and the one a stinger is due in for its cut point.
CutGoal(f) == IF f.timely THEN f.end + 1 ELSE 0
StingGoal(f) == IF f.timely /\ f.start = f.end - CutFrame THEN f.start ELSE 0

\* The take, through the paths of a Cut, an Auto and a stinger; it looks at nothing again.
Act ==
    /\ fired # None /\ fired.incoming # None
    /\ fired' = None
    /\ \/ /\ fired.action = "cut" \/ (fired.action = "stinger" /\ StingCuts)
          /\ Put(fired.incoming, TRUE, 0, HeldFor(fired.end + 1), CutGoal(fired))
          /\ Sent(fired.end) /\ MadeLate
          /\ UNCHANGED <<until, asleep>>
       \/ /\ fired.action = "auto"
          /\ Put(fired.incoming, TRUE, Rate, fired.at, IF fired.timely THEN fired.start ELSE 0)
          /\ Sent(fired.end) /\ MadeLate
          /\ UNCHANGED <<until, asleep>>
       \/ /\ fired.action = "stinger" /\ ~StingCuts /\ Free
          /\ PlayStinger(fired.incoming, TRUE, fired.at, StingGoal(fired))
          /\ Sent(fired.end) /\ MadeLate
          /\ UNCHANGED asleep
       \/ /\ fired.action = "stinger" /\ ~StingCuts /\ ~Free
          /\ Sleep(fired.incoming, TRUE, fired.at, fired.end)
          /\ UNCHANGED <<ends, lastCall>>
    /\ UNCHANGED <<now, clip, aired, running, onEnd, playable, watcher, done, crossed, calls>>

\* A sleeping stinger take goes on: it looks at nothing again but the player, and cuts when
\* another one took that.
Wake(w) ==
    LET at == IF w.end = None THEN None ELSE HeldFor(w.end + 1)
    IN /\ now >= until \/ ~FreeSoon
       /\ asleep' = asleep \ {w}
       /\ IF Free THEN PlayStinger(w.source, w.flip, w.at, 0)
          ELSE Put(w.source, w.flip, 0, at, 0) /\ UNCHANGED until
       /\ IF w.end = None THEN UNCHANGED ends ELSE Sent(w.end)
       /\ crossed' = (crossed \/ (w.end = None /\ Acting))
       /\ MadeLate
       /\ UNCHANGED <<now, clip, aired, running, onEnd, playable, watcher, fired, done, calls>>

-----------------------------------------------------------------------------
(* The operator                                                            *)

\* What a call crosses: a reply the watcher works on, an end action that was decided or sleeps, a
\* timer it does not cancel.
Crosses(cancels) ==
    watch.reply # None \/ Acting \/ (pending # None /\ ~cancels)

Called(cancels) == /\ calls > 0 /\ calls' = calls - 1
                   /\ lastCall' = IF clip.state = "ended" THEN now ELSE 0
                   /\ crossed' = (crossed \/ Crosses(cancels))

\* A take (a source, a cut) or a Cut (Preview, swapping).
Take(src, flip) ==
    /\ running /\ Called(TRUE)
    /\ flip => src = preview
    /\ Put(src, flip, 0, None, 0)
    /\ UNCHANGED <<now, clip, aired, running, onEnd, until, playable, watcher, fired, done, asleep,
                   ends>>

\* An Auto: the ME's transition to Preview.
Mix ==
    /\ running /\ Called(TRUE)
    /\ Put(preview, TRUE, Rate, None, 0)
    /\ UNCHANGED <<now, clip, aired, running, onEnd, until, playable, watcher, fired, done, asleep,
                   ends>>

\* A stinger take; one that cannot play is a cut.
Stinger(src) ==
    /\ running /\ Called(TRUE)
    /\ \/ playable /\ Free /\ PlayStinger(src, FALSE, None, 0) /\ UNCHANGED asleep
       \/ /\ playable /\ ~Free /\ FreeSoon
          /\ Sleep(src, FALSE, None, None)
       \/ StingCuts /\ Put(src, FALSE, 0, None, 0) /\ UNCHANGED <<asleep, until>>
    /\ UNCHANGED <<now, clip, aired, running, onEnd, playable, watcher, fired, done, ends>>

\* A source on Preview.
SetPreview(src) ==
    /\ running /\ Called(TRUE)
    /\ preview' = src
    /\ eng' = [Before(eng) EXCEPT !.preview = src]
    /\ UNCHANGED <<now, clip, aired, running, program, mix, onEnd, until, playable, watcher,
                   pending, fired, done, asleep, ends>>

\* Play, pause and stop of the clip player.
Commanded(command) ==
    CASE command = "stop" -> Loaded
      [] command = "pause" /\ clip.state \in {"starting", "playing"} ->
            [clip EXCEPT !.state = "paused"]
      [] command = "play" /\ clip.state = "ended" -> [Loaded EXCEPT !.state = "starting"]
      [] command = "play" /\ clip.state \in {"cued", "paused"} ->
            [clip EXCEPT !.state = "starting"]
      [] OTHER -> clip

\* The clip player's transport: it cancels an end action not sent yet.
Transport(command) ==
    /\ running /\ Called(TRUE)
    /\ pending' = None
    /\ clip' = Commanded(command)
    /\ UNCHANGED <<now, aired, eng, running, buses, onEnd, until, playable, watcher, fired, done,
                   asleep, ends>>

\* Another clip onto the player (its media changes, or its item was converted again).
Load ==
    /\ running /\ Called(FALSE)
    /\ clip' = Loaded
    /\ UNCHANGED <<now, aired, eng, running, buses, onEnd, until, playable, watcher, pending,
                   fired, done, asleep, ends>>

\* The clip player's on_end.
SetOnEnd(action) ==
    /\ action # onEnd /\ Called(TRUE)
    /\ onEnd' = action
    /\ UNCHANGED <<now, engine, running, buses, until, playable, watcher, pending, fired, done,
                   asleep, ends>>

\* The stinger's mezzanine is made, or made again.
Convert ==
    /\ Called(TRUE)
    /\ playable' = ~playable
    /\ UNCHANGED <<now, engine, running, buses, onEnd, until, watcher, pending, fired, done,
                   asleep, ends>>

\* Program stops.
StopProgram ==
    /\ running /\ Called(TRUE)
    /\ running' = FALSE
    /\ pending' = None /\ heard' = None /\ mix' = 0
    /\ eng' = [eng EXCEPT !.held = None]
    /\ UNCHANGED <<now, clip, aired, program, preview, onEnd, until, playable, watch, seen, fired,
                   done, asleep, ends>>

\* Program starts, under the lock: a new engine with the saved buses.
StartProgram ==
    /\ ~running /\ watch.reply = None /\ ~Acting /\ Called(TRUE)
    /\ running' = TRUE
    /\ clip' = Loaded /\ aired' = FALSE
    /\ eng' = [program |-> program, preview |-> preview, held |-> None]
    /\ until' = 0
    /\ watch' = [watch EXCEPT !.read = now]
    /\ UNCHANGED <<now, buses, onEnd, playable, heard, pending, fired, seen, done, asleep, ends>>

-----------------------------------------------------------------------------
Init ==
    /\ now = 1 /\ clip = Loaded /\ aired = FALSE
    /\ program \in Sources /\ preview = Cam /\ mix = 0
    /\ eng = [program |-> program, preview |-> preview, held |-> None]
    /\ running = TRUE
    /\ onEnd \in Actions /\ until = 0 /\ playable \in BOOLEAN
    /\ watch = [reply |-> None, read |-> 1] /\ heard = None
    /\ pending = None /\ fired = None /\ seen = 0 /\ done = 0 /\ asleep = {}
    /\ ends = [g \in Ends |-> 0]
    /\ crossed = FALSE /\ lastCall = 0 /\ calls = MaxCalls

Next ==
    \/ \E skip \in 0..1 : Grain(skip)
    \/ Read \/ Judge \/ FireNothing \/ Fire \/ Aim \/ Act
    \/ \E src \in Sources, flip \in BOOLEAN : Take(src, flip)
    \/ \E src \in Sources : Stinger(src) \/ SetPreview(src)
    \/ Mix
    \/ \E command \in {"play", "pause", "stop"} : Transport(command)
    \/ \E action \in Actions : SetOnEnd(action)
    \/ (\E w \in asleep : Wake(w)) \/ Load \/ Convert \/ StopProgram \/ StartProgram

Spec == Init /\ [][Next]_vars

-----------------------------------------------------------------------------
\* Every value is of its kind, and the control plane's buses and the engine's hold sources.
TypeOK ==
    /\ now \in 1..MaxGrain
    /\ clip.state \in States /\ clip.left \in 0..Length
    /\ {program, preview, eng.program, eng.preview} \subseteq Sources
    /\ eng.held \in Held \cup {None}
    /\ watch.reply \in Replies \cup {None} /\ pending \in Timers \cup {None}
    /\ fired \in Firings \cup {None}
    /\ seen \in Nat /\ done \in Nat /\ until \in Nat /\ mix \in Nat

\* An end action whose timer was armed in time is made by the engine in its grain, however late
\* (by Lag) the watcher and the timer ran and whatever calls come between its check and its take:
\* a cut on the grain after the clip's last one, an auto so that it ends with it, a stinger so that
\* its cut point is there (_clip_end_start).  Program may have stopped by then.
OnItsGrain ==
    [][/\ now' = now + 1 /\ eng.held # None /\ eng'.held = None => eng.held.goal \in {0, now'}
       /\ ends' # ends /\ asleep' = asleep /\ running /\ fired # None /\ fired.timely
            => eng'.held # None]_vars

\* One end of the clip takes Program once, also when the clip is put back on Program.
OncePerEnd == \A g \in DOMAIN ends : ends[g] <= 1

\* An end action is sent only while the clip is on Program and plays to that end (or ended there),
\* unless a call crossed it: one the watcher's reply was read before, one between the action's
\* check and its take or during the wait for a stinger player, or a new clip on the player, which
\* cancels nothing.
OnlyAtItsEnd ==
    [][\A g \in DOMAIN ends :
          ends'[g] # ends[g] /\ ~crossed => program = Clip /\ EndIndex = g]_vars

\* The engine's buses are the control plane's once no take is held for a grain: commands reach
\* the engine in their order around held takes.
EngineFollows ==
    running /\ eng.held = None => eng.program = program /\ eng.preview = preview

\* How long after its cause an end action comes at most.
Grace == Poll + 3 * Lag

\* A clip that was seen playing on Program and ended there is acted on, also when a transition ran
\* over its end: with Program still on it and Preview on another source the end does not pass.
NoEndMissed ==
    LET b == Later(clip.end, Later(mix, lastCall))
    IN running /\ clip.state = "ended" /\ seen = clip.end /\ EndAction # "off"
       /\ fired = None /\ asleep = {}
       /\ b + Grace <= clip.end + Late /\ now > b + Grace
       => done = clip.end

\* The manual promises more (docs/clip-end.md): every manual take, stop, pause, cue or play before
\* the action is sent cancels it.
NoEndAfterAll ==
    [][\A g \in DOMAIN ends : ends'[g] # ends[g] => program = Clip /\ EndIndex = g]_vars

\* Each end acts once, and the engine does what the control plane says.
EndsInv == TypeOK /\ OncePerEnd /\ EngineFollows

\* An action is made for its own end, and on that end's grain.
TakesAreDue == OnItsGrain /\ OnlyAtItsEnd
=============================================================================
