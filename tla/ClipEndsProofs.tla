--------------------------- MODULE ClipEndsProofs ---------------------------
(***************************************************************************)
(* Theorems about the ends of clips (ClipEnds), for any length of the clip *)
(* and the stinger, any rate, any times of the watcher and its timers that *)
(* GrainAssumption allows, and any number of grains and calls: each end is *)
(* acted on once, in its grain, and none is missed.                        *)
(*                                                                         *)
(* The grain the clip ends in at the earliest (Bound) never falls, so the  *)
(* ends that are read, timed and acted on come in their order (Counted).   *)
(* A timer that was armed in time runs off before its action's grain,      *)
(* since the read and the timer are each late by Lag at most and Lead is   *)
(* more (Timed).  What the clip does between a read and its action is one  *)
(* noted (Crossed).  An end that waits for its action is still to   *)
(* be read, is being judged, or has a timer (Awaited).                     *)
(***************************************************************************)
EXTENDS ClipEnds, TLAPS

Clips == [state : States, left : 0..Length, end : Nat]
Buses == [program : Sources, preview : Sources, held : Held \cup {None}]
Sleepers == [source : Sources, flip : BOOLEAN, at : Nat \cup {None}, end : Ends \cup {None}]

FlagsTyped == running \in BOOLEAN /\ aired \in BOOLEAN /\ playable \in BOOLEAN /\ onEnd \in Actions
BusTyped == eng \in Buses /\ program \in Sources /\ preview \in Sources
GrainsTyped ==
    /\ now \in 1..MaxGrain /\ mix \in Nat /\ until \in Nat
    /\ seen \in Nat /\ done \in Nat /\ lastCall \in Nat
LoopTyped ==
    /\ watch \in [reply : Replies \cup {None}, read : Nat] /\ heard \in Nat \cup {None}
    /\ pending \in Timers \cup {None} /\ fired \in Firings \cup {None}
EndsTyped == ends \in [Ends -> Nat] /\ asleep \subseteq Sleepers

\* A clip that has not ended has a frame to show; one that has, had its last one.
ClipTyped ==
    /\ clip \in Clips
    /\ clip.state # "ended" => clip.left >= 1
    /\ clip.state = "ended" => clip.end >= 1 /\ clip.end <= now

Typed == FlagsTyped /\ BusTyped /\ GrainsTyped /\ LoopTyped /\ EndsTyped /\ ClipTyped

\* The watcher is in time.
Watching ==
    /\ 1 <= watch.read /\ watch.read <= now
    /\ watch.reply # None => watch.reply.index = watch.read /\ now <= watch.read + Lag
    /\ heard # None => heard < now
    /\ running => now <= watch.read + Poll + Lag

\* The grain the clip's last frame is in, or the earliest that it may be in.
Bound == IF clip.state = "ended" THEN clip.end ELSE now + clip.left

\* Ends are read, timed and acted on in their order.
Counted ==
    /\ \A g \in Ends : ends[g] <= 1 /\ (g > done => ends[g] = 0)
    /\ done <= Bound
    /\ pending # None => done < pending.end /\ pending.end <= Bound
    /\ fired # None => fired.end <= done /\ ends[fired.end] = 0 /\ ~EndSleeps
    /\ watch.reply # None /\ watch.reply.end # 0 =>
         /\ done <= watch.reply.end /\ watch.reply.end <= Bound
         /\ pending # None => pending.end <= watch.reply.end
    /\ \A w \in asleep : w.end # None => w.end <= done /\ ends[w.end] = 0
    /\ \A v, w \in asleep : v.end # None /\ w.end # None => v = w

\* The engine's buses with the held take made are the control plane's; while the engine holds a
\* take and another one is decided, the clip is on Program and the take is of another source.
Follows ==
    /\ running => HeldMade(eng).program = program /\ HeldMade(eng).preview = preview
    /\ running /\ eng.held # None /\ Acting =>
         /\ program = Clip /\ preview # Clip
         /\ fired # None => fired.incoming # Clip
         /\ \A w \in asleep : w.end # None => w.source # Clip
    /\ \A w \in asleep : /\ w.end = None => w.at = None
                         /\ w.end # None => w.flip

\* A timer, the thread it started and a held take are in time.
Timed ==
    /\ pending # None =>
         /\ heard # None
         /\ pending.timely => pending.due + Lag < pending.start
         /\ ~EndSleeps => now <= pending.due + Lag
         /\ pending.due <= now \/ pending.due <= pending.start - Lead + Lag
    /\ fired # None =>
         /\ now <= fired.due + Lag
         /\ fired.timely => fired.due + Lag < fired.start /\ fired.start <= fired.end + 1
         /\ running => heard # None
         /\ running /\ fired.timely /\ fired.incoming # None => fired.at = fired.start
    /\ eng.held # None /\ eng.held.goal # 0 => eng.held.goal = eng.held.at /\ eng.held.at > now

\* Unless something crossed it, what was read, is timed, was decided or sleeps is the end of the
\* clip.
Crossed ==
    ~crossed =>
        /\ watch.reply # None /\ watch.reply.end # 0 => running /\ EndIndex = watch.reply.end
        /\ pending # None => running /\ EndIndex = pending.end
        /\ fired # None => running /\ program = Clip /\ EndIndex = fired.end
        /\ \A w \in asleep : w.end # None => running /\ program = Clip /\ EndIndex = w.end

\* A reply tells the clip's end, before it and after.
ReplyTells ==
    watch.reply # None =>
        /\ watch.reply.state = "playing" => watch.reply.end > watch.reply.index
        /\ clip.state = "ended" /\ watch.reply.index >= clip.end =>
             watch.reply.end = clip.end /\ watch.reply.state = "ended"

\* The clip ended on Program and nothing was done about it yet.
Waiting == /\ running /\ clip.state = "ended" /\ seen = clip.end /\ EndAction # "off"
           /\ fired = None /\ asleep = {} /\ done # clip.end

\* The grain from which its action can be made.
Since == Later(clip.end, Later(mix, lastCall))

Awaited ==
    Waiting /\ Since + Grace <= clip.end + Late =>
        \/ watch.read <= Since
        \/ watch.reply # None /\ watch.read <= Since + Poll + Lag
        \/ /\ pending # None /\ pending.start = EndStart(clip.end)
           /\ pending.due <= Since + Poll + 2 * Lag

IInv == /\ Typed /\ Watching /\ Counted /\ Follows /\ Timed /\ Crossed /\ ReplyTells /\ Awaited

-----------------------------------------------------------------------------
LEMMA Consts ==
    /\ Length \in Nat \ {0} /\ Rate \in Nat \ {0} /\ StingFrames \in Nat \ {0} /\ Poll \in Nat \ {0}
    /\ Lead \in Nat \ {0} /\ MaxGrain \in Nat \ {0}
    /\ CutFrame \in Nat /\ Margin \in Nat /\ StingWait \in Nat /\ Horizon \in Nat /\ Late \in Nat
    /\ Lag \in Nat /\ Lead > 2 * Lag /\ Horizon >= Lead + Poll + 2 * Lag
BY GrainAssumption

LEMMA NoneIsNothing ==
    Clip # Cam /\ None \notin Sources /\ None \notin Int /\ None \notin Held /\ None \notin Replies
      /\ None \notin Timers /\ None \notin Firings
BY GrainAssumption DEF Sources

LEMMA LaterIs ==
    ASSUME NEW a \in Int, NEW b \in Int
    PROVE  /\ Later(a, b) \in {a, b} /\ a <= Later(a, b) /\ b <= Later(a, b)
           /\ (a >= b => Later(a, b) = a) /\ (b >= a => Later(a, b) = b)
BY DEF Later

\* At first nothing is read, timed or held.
LEMMA InitHolds == Init => IInv
<1> SUFFICES ASSUME Init PROVE IInv
  OBVIOUS
<1> USE DEF Init
<1>1. FlagsTyped /\ BusTyped
  BY DEF FlagsTyped, BusTyped, Buses, Sources
<1>2. GrainsTyped
  BY Consts DEF GrainsTyped
<1>3. LoopTyped
  BY DEF LoopTyped
<1>4. EndsTyped
  BY DEF EndsTyped
<1>5. ClipTyped
  BY Consts DEF ClipTyped, Clips, Loaded, States
<1>6. Watching
  BY Consts DEF Watching
<1>7. Counted
  BY Consts DEF Counted, Bound, Loaded
<1>8. Follows
  BY DEF Follows, HeldMade, Acting
<1>9. Timed /\ Crossed /\ ReplyTells
  BY DEF Timed, Crossed, ReplyTells
<1>10. Awaited
  BY DEF Awaited, Waiting, Loaded
<1> QED BY <1>1, <1>2, <1>3, <1>4, <1>5, <1>6, <1>7, <1>8, <1>9, <1>10 DEF IInv, Typed

-----------------------------------------------------------------------------
\* The grain a take is held for: the one it should start in, when that is still to come.
LEMMA HeldForIs ==
    ASSUME Typed, Watching, NEW g \in Int
    PROVE  /\ HeldFor(g) \in Nat \cup {None} /\ HeldFor(g) \in {g, None}
           /\ heard # None /\ g > now => HeldFor(g) = g
           /\ GrainsUntil(HeldFor(g)) \in Nat
<1>1. now \in Nat /\ now >= 1 /\ g # None /\ (heard # None => heard \in Nat /\ heard < now)
  BY NoneIsNothing DEF Typed, GrainsTyped, LoopTyped, Watching
<1>2. CASE heard = None
  BY <1>2 DEF HeldFor, GrainsUntil
<1>3. CASE heard # None
  <2>1. g - now + heard \in Int /\ GrainsUntil(g) = Later(0, g - now + heard)
    BY <1>1, <1>3 DEF GrainsUntil
  <2>2. GrainsUntil(g) \in Nat /\ (GrainsUntil(g) >= 1 <=> g - now + heard >= 1)
    BY <2>1, LaterIs
  <2>3. GrainsUntil(None) = 0
    BY DEF GrainsUntil
  <2> QED BY <1>1, <1>3, <2>2, <2>3 DEF HeldFor
<1> QED BY <1>2, <1>3

LEMMA GrainsUntilIs ==
    ASSUME Typed, NEW at \in Nat \cup {None}
    PROVE  GrainsUntil(at) \in Nat
<1>1. CASE at = None \/ heard = None
  BY <1>1 DEF GrainsUntil
<1>2. CASE at # None /\ heard # None
  <2>1. at - now + heard \in Int /\ GrainsUntil(at) = Later(0, at - now + heard)
    BY <1>2 DEF GrainsUntil, Typed, GrainsTyped, LoopTyped
  <2> QED BY <2>1, LaterIs
<1> QED BY <1>1, <1>2

\* An action starts on the grain after the clip's last one, or before.
LEMMA EndStartIs ==
    ASSUME NEW end \in Nat
    PROVE  EndStart(end) \in Int /\ EndStart(end) <= end + 1
<1>1. CASE EndAction = "auto"
  BY <1>1, Consts DEF EndStart
<1>2. CASE EndAction # "auto" /\ EndAction = "stinger" /\ playable
  BY <1>2, Consts DEF EndStart
<1>3. CASE EndAction # "auto" /\ ~(EndAction = "stinger" /\ playable)
  BY <1>3, Consts DEF EndStart
<1> QED BY <1>1, <1>2, <1>3

\* The held take made, and a take sent.
LEMMA MadeIs ==
    ASSUME NEW e \in Buses
    PROVE  /\ HeldMade(e) \in Buses /\ HeldMade(e).held = None
           /\ HeldMade(HeldMade(e)) = HeldMade(e)
           /\ e.held = None => HeldMade(e) = e
BY NoneIsNothing DEF HeldMade, Buses, Held

LEMMA TakenIs ==
    ASSUME NEW e \in Buses, NEW target \in Sources, NEW other \in Sources \cup {None},
           NEW at \in Nat \cup {None}, NEW goal \in Nat
    PROVE  LET new == Taken(e, target, other, at, goal)
           IN  /\ new \in Buses
               /\ HeldMade(new).program = target
               /\ other # None => HeldMade(new).preview = other
               /\ other = None /\ (at = None \/ e.held = None)
                    => HeldMade(new).preview = HeldMade(e).preview
               /\ at = None => new.held = None
               /\ at # None => new.held # None /\ new.held.goal = goal /\ new.held.at = at
<1> DEFINE new == Taken(e, target, other, at, goal)
           take == [at |-> at, target |-> target, preview |-> other, goal |-> goal]
<1>1. CASE at = None
  <2>1. new = [HeldMade(e) EXCEPT !.program = target,
                                  !.preview = IF other = None THEN @ ELSE other]
    BY <1>1 DEF Taken, Before
  <2>2. /\ new \in Buses /\ new.held = None /\ new.program = target
        /\ new.preview = IF other = None THEN HeldMade(e).preview ELSE other
    BY <2>1, MadeIs DEF Buses
  <2>3. HeldMade(new) = new
    BY <2>2, MadeIs
  <2> QED BY <1>1, <2>2, <2>3
<1>2. CASE at # None
  <2>1. take \in Held /\ new = [e EXCEPT !.held = take]
    BY <1>2 DEF Taken, Held
  <2>2. new \in Buses /\ new.held = take /\ new.program = e.program /\ new.preview = e.preview
    BY <2>1 DEF Buses
  <2>3. take # None
    BY <2>1, NoneIsNothing
  <2>4. HeldMade(new).program = target
        /\ HeldMade(new).preview = IF other = None THEN e.preview ELSE other
    BY <2>2, <2>3 DEF HeldMade
  <2>5. e.held = None => HeldMade(e).preview = e.preview
    BY DEF HeldMade
  <2> QED BY <1>2, <2>2, <2>3, <2>4, <2>5
<1> QED BY <1>1, <1>2

-----------------------------------------------------------------------------
\* The clip in the next grain: it ends no sooner than it would have, and when it ends, it ends now;
\* one that plays ends when it would have.
LEMMA AdvancedIs ==
    ASSUME Typed, NEW g \in {now + 1, now + 2}, NEW air \in BOOLEAN
    PROVE  LET new == Advanced(g, air)
           IN  /\ new \in Clips
               /\ new.state # "ended" => new.left >= 1 /\ Bound <= g + new.left
               /\ new.state = "ended" => /\ new = clip \/ new.end > now
                                         /\ 1 <= new.end /\ new.end <= g /\ Bound <= new.end
               /\ clip.state = "playing" =>
                    \/ new.state = "playing" /\ g + new.left = now + clip.left
                    \/ new.state = "ended" /\ new.end = now + clip.left
<1> DEFINE c == IF ~(PlayOnCut /\ air /\ ~aired) \/ clip.state \in {"starting", "playing"} THEN clip
                ELSE IF clip.state = "ended" THEN [Loaded EXCEPT !.state = "starting"]
                ELSE [clip EXCEPT !.state = "starting"]
           shown == IF c.state = "playing" THEN g - now ELSE 1
           last == IF c.state = "playing" THEN now + c.left ELSE g
           new == Advanced(g, air)
<1>1. /\ now \in Nat /\ now >= 1 /\ clip \in Clips /\ clip.state \in States
      /\ clip.left \in Nat /\ clip.left <= Length /\ clip.end \in Nat
      /\ clip.state # "ended" => clip.left >= 1
      /\ clip.state = "ended" => clip.end >= 1 /\ clip.end <= now
  BY Consts DEF Typed, ClipTyped, GrainsTyped, Clips
<1>2. /\ c \in Clips /\ (c.state # "ended" => c.left >= 1)
      /\ c = clip \/ (c.state = "starting" /\ clip.state # "playing" /\ c.end \in Nat
                      /\ (clip.state # "ended" => c.left = clip.left))
  <2>1. CASE ~(PlayOnCut /\ air /\ ~aired) \/ clip.state \in {"starting", "playing"}
    BY <1>1, <2>1
  <2>2. CASE /\ ~(~(PlayOnCut /\ air /\ ~aired) \/ clip.state \in {"starting", "playing"})
            /\ clip.state = "ended"
    <3>1. c = [Loaded EXCEPT !.state = "starting"]
      BY <2>2
    <3>2. [Loaded EXCEPT !.state = "starting"]
            = [state |-> "starting", left |-> Length, end |-> 0]
      BY DEF Loaded
    <3> QED BY <2>2, <3>1, <3>2, Consts DEF Clips, States
  <2>3. CASE /\ ~(~(PlayOnCut /\ air /\ ~aired) \/ clip.state \in {"starting", "playing"})
            /\ clip.state # "ended"
    <3>1. c = [clip EXCEPT !.state = "starting"]
      BY <2>3
    <3> QED BY <1>1, <2>3, <3>1 DEF Clips, States
  <2> QED BY <2>1, <2>2, <2>3
<1>3. new = IF c.state \notin {"starting", "playing"} THEN c
            ELSE IF shown >= c.left THEN [state |-> "ended", left |-> 0, end |-> last]
            ELSE [state |-> "playing", left |-> c.left - shown, end |-> 0]
  BY DEF Advanced
<1>4. c.left \in Nat /\ c.left <= Length /\ shown \in 1..2 /\ last \in Nat /\ g > now /\ g \in Nat
  BY <1>1, <1>2, Consts DEF Clips
<1>5. CASE c.state \notin {"starting", "playing"}
  <2>1. new = c
    <3> HIDE DEF c, shown, last, new
    <3> QED BY <1>3, <1>5
  <2>2. c = clip
    BY <1>2, <1>5
  <2>3. clip.state = "ended" => Bound = clip.end
    BY DEF Bound
  <2>4. clip.state # "ended" => Bound = now + clip.left
    BY DEF Bound
  <2> HIDE DEF c, shown, last, new
  <2> SUFFICES /\ new \in Clips
               /\ new.state # "ended" => new.left >= 1 /\ Bound <= g + new.left
               /\ new.state = "ended" => /\ new = clip \/ new.end > now
                                         /\ 1 <= new.end /\ new.end <= g /\ Bound <= new.end
               /\ clip.state # "playing"
    BY DEF new
  <2> QED BY <1>1, <1>2, <1>4, <1>5, <2>1, <2>2, <2>3, <2>4
<1>6. CASE c.state \in {"starting", "playing"}
  <2>1. Bound \in Nat /\ (Bound <= now + c.left \/ (clip.state = "ended" /\ Bound <= now))
    BY <1>1, <1>2, <1>4 DEF Bound
  <2>2. CASE shown >= c.left
    <3>1. new = [state |-> "ended", left |-> 0, end |-> last]
      BY <1>3, <1>6, <2>2
    <3>2. last > now /\ last <= g /\ Bound <= last
      <4>1. CASE c.state = "playing"
        <5>1. shown = g - now /\ last = now + c.left /\ c = clip
          BY <1>2, <4>1
        <5> HIDE DEF c, shown, last
        <5> QED BY <1>1, <1>2, <1>4, <2>1, <2>2, <4>1, <5>1
      <4>2. CASE c.state = "starting"
        <5>1. shown = 1 /\ last = g
          BY <4>2
        <5>2. c.left <= 1
          BY <2>2, <5>1
        <5> HIDE DEF c, shown, last
        <5> QED BY <1>1, <1>4, <2>1, <5>1, <5>2
      <4> QED BY <1>6, <4>1, <4>2
    <3>3. clip.state = "playing" => last = now + clip.left
      BY <1>2
    <3> HIDE DEF c, shown, last, new
    <3>4. new \in Clips /\ new.state = "ended" /\ new.end = last
      BY <1>4, <3>1, Consts DEF Clips, States
    <3> QED BY <1>1, <1>4, <3>2, <3>3, <3>4 DEF new
  <2>3. CASE ~(shown >= c.left)
    <3>1. new = [state |-> "playing", left |-> c.left - shown, end |-> 0]
      BY <1>3, <1>6, <2>3
    <3>2. now + c.left <= g + (c.left - shown)
      <4>1. CASE c.state = "playing"
        BY <1>1, <1>4, <4>1
      <4>2. CASE c.state = "starting"
        <5>1. shown = 1
          BY <4>2
        <5> HIDE DEF c, shown
        <5> QED BY <1>1, <1>4, <5>1
      <4> QED BY <1>6, <4>1, <4>2
    <3>3. clip.state = "playing" => g + (c.left - shown) = now + clip.left
      <4> SUFFICES ASSUME clip.state = "playing" PROVE g + (c.left - shown) = now + clip.left
        OBVIOUS
      <4>1. c = clip /\ shown = g - now
        BY <1>2
      <4> HIDE DEF c, shown
      <4> QED BY <1>1, <1>4, <4>1
    <3> HIDE DEF c, shown, last, new
    <3>4. new \in Clips /\ new.state = "playing" /\ new.left = c.left - shown /\ new.left >= 1
      BY <1>4, <2>3, <3>1, Consts DEF Clips, States
    <3> QED BY <1>1, <1>4, <2>1, <3>2, <3>3, <3>4 DEF new
  <2> QED BY <2>2, <2>3
<1> QED BY <1>5, <1>6

\* A transport command: no clip ends by one, and none ends sooner.
LEMMA CommandedIs ==
    ASSUME Typed, NEW command \in {"play", "pause", "stop"}
    PROVE  LET new == Commanded(command)
           IN  /\ new \in Clips
               /\ new = clip \/ (new.state # "ended" /\ new.left >= 1 /\ Bound <= now + new.left)
<1>1. /\ now \in Nat /\ clip \in Clips /\ clip.left \in Nat /\ clip.left <= Length
      /\ clip.end \in Nat
      /\ clip.state # "ended" => clip.left >= 1
      /\ clip.state = "ended" => clip.end <= now
  BY Consts DEF Typed, ClipTyped, GrainsTyped, Clips
<1>2. Loaded \in Clips /\ Loaded.state = "cued" /\ Loaded.left = Length /\ Bound <= now + Length
  BY <1>1, Consts DEF Loaded, Clips, States, Bound
<1>3. CASE command = "stop"
  BY <1>2, <1>3, Consts DEF Commanded
<1>4. CASE command = "pause" /\ clip.state \in {"starting", "playing"}
  <2>1. Commanded(command) = [clip EXCEPT !.state = "paused"]
    BY <1>4 DEF Commanded
  <2> QED BY <1>1, <1>4, <2>1 DEF Clips, States, Bound
<1>5. CASE command = "play" /\ clip.state = "ended"
  <2>1. Commanded(command) = [Loaded EXCEPT !.state = "starting"]
    BY <1>5 DEF Commanded
  <2> QED BY <1>2, <2>1, Consts DEF Clips, States
<1>6. CASE command = "play" /\ clip.state \in {"cued", "paused"}
  <2>1. Commanded(command) = [clip EXCEPT !.state = "starting"]
    BY <1>6 DEF Commanded
  <2> QED BY <1>1, <1>6, <2>1 DEF Clips, States, Bound
<1>7. CASE /\ command # "stop" /\ ~(command = "pause" /\ clip.state \in {"starting", "playing"})
           /\ ~(command = "play" /\ clip.state = "ended")
           /\ ~(command = "play" /\ clip.state \in {"cued", "paused"})
  <2>1. Commanded(command) = clip
    BY <1>7 DEF Commanded
  <2> QED BY <1>1, <2>1
<1> QED BY <1>3, <1>4, <1>5, <1>6, <1>7

-----------------------------------------------------------------------------
(* The operator                                                            *)

\* What every call leaves as it is, and what it may change.
ACall ==
    /\ now' = now /\ seen' = seen /\ done' = done /\ ends' = ends /\ fired' = fired
    /\ watch'.reply = watch.reply
    /\ watch'.read = watch.read \/ (watch.reply = None /\ watch'.read = now)
    /\ running' => running \/ (watch'.read = now /\ ~Acting)
    /\ heard' = heard \/ (heard' = None /\ pending' = None /\ ~running')
    /\ pending' \in {pending, None}
    /\ asleep \subseteq asleep' /\ (\A w \in asleep' \ asleep : w.end = None)
    /\ clip' = clip \/ (clip'.state # "ended" /\ Bound <= now + clip'.left)
    /\ eng'.held \in {eng.held, None}
    /\ lastCall' = IF clip.state = "ended" THEN now ELSE 0
    /\ ~crossed' => /\ ~crossed /\ watch.reply = None /\ ~Acting
                    /\ pending' # None => clip' = clip /\ running' = running

LEMMA BoundIs ==
    ASSUME Typed
    PROVE  /\ Bound \in Nat /\ now \in Nat /\ now >= 1
           /\ clip.state = "ended" => Bound = clip.end /\ clip.end \in Nat
           /\ clip.state # "ended" => Bound = now + clip.left /\ clip.left \in Nat /\ clip.left >= 1
BY Consts DEF Typed, ClipTyped, GrainsTyped, Clips, Bound

\* No call falsifies what the threads rely on.
LEMMA CallKeeps ==
    ASSUME IInv, Typed', ACall
    PROVE  Watching' /\ Counted' /\ Timed' /\ Crossed' /\ ReplyTells' /\ Awaited'
<1> USE DEF IInv
<1>1. /\ now' = now /\ now \in Nat /\ now >= 1 /\ done' = done /\ ends' = ends /\ seen' = seen
      /\ watch'.reply = watch.reply /\ pending' \in {pending, None}
  BY BoundIs DEF ACall
<1>2. (EndSleeps' <=> EndSleeps) /\ fired' = fired /\ (Acting' <=> Acting)
  BY DEF ACall, EndSleeps, Acting
<1>3. Bound' \in Nat /\ Bound \in Nat /\ Bound <= Bound'
  <2>1. CASE clip' = clip
    BY <1>1, <2>1, BoundIs DEF Bound
  <2>2. CASE clip'.state # "ended" /\ Bound <= now + clip'.left
    <3>1. Bound' = now + clip'.left /\ clip'.left \in Nat
      BY <1>1, <2>2, Consts DEF Bound, Typed, ClipTyped, Clips
    <3> QED BY <1>1, <2>2, <3>1, BoundIs
  <2> QED BY <2>1, <2>2 DEF ACall
<1>4. watch.read \in Nat /\ watch'.read \in Nat
  BY DEF Typed, LoopTyped
<1>5. Watching'
  <2>1. 1 <= watch'.read /\ watch'.read <= now
    BY <1>1, <1>4 DEF Watching, ACall
  <2>2. watch'.reply # None => watch'.reply.index = watch'.read /\ now <= watch'.read + Lag
    BY <1>1, <1>4 DEF Watching, ACall
  <2>3. heard' # None => heard' < now
    BY <1>1 DEF Watching, ACall
  <2>4. running' => now <= watch'.read + Poll + Lag
    BY <1>1, <1>4, Consts DEF Watching, ACall
  <2> QED BY <1>1, <2>1, <2>2, <2>3, <2>4 DEF Watching
<1>6. Counted'
  <2>1. done' <= Bound'
    BY <1>1, <1>3 DEF Counted, Typed, GrainsTyped
  <2>2. pending' # None => done' < pending'.end /\ pending'.end <= Bound'
    <3>1. pending' # None => pending' = pending /\ pending \in Timers
      BY <1>1 DEF Typed, LoopTyped
    <3>2. pending' # None => pending.end \in Nat
      BY <3>1, Consts DEF Timers, Ends
    <3> QED BY <1>1, <1>3, <3>1, <3>2 DEF Counted
  <2>3. watch'.reply # None /\ watch'.reply.end # 0 =>
          /\ done' <= watch'.reply.end /\ watch'.reply.end <= Bound'
          /\ pending' # None => pending'.end <= watch'.reply.end
    <3>1. watch.reply # None => watch.reply.end \in Nat
      BY Consts DEF Typed, LoopTyped, Replies, Ends
    <3> QED BY <1>1, <1>3, <3>1 DEF Counted
  <2>4. \A w \in asleep' : w.end # None => w \in asleep
    BY DEF ACall
  <2> QED BY <1>1, <1>2, <2>1, <2>2, <2>3, <2>4 DEF Counted
<1>7. Timed'
  <2>1. pending' # None => pending' = pending /\ heard' = heard
    BY <1>1 DEF ACall
  <2>2. eng'.held # None => eng'.held = eng.held
    BY DEF ACall
  <2>3. fired' # None /\ running' => running /\ heard' = heard
    BY <1>2 DEF ACall, Acting
  <2> QED BY <1>1, <1>2, <2>1, <2>2, <2>3 DEF Timed
<1>8. Crossed'
  <2>1. SUFFICES ASSUME ~crossed' PROVE Crossed'
    BY DEF Crossed
  <2>2. ~crossed /\ watch'.reply = None /\ ~Acting'
    BY <1>1, <1>2, <2>1 DEF ACall
  <2>3. fired' = None /\ \A w \in asleep' : w.end = None
    BY <2>2 DEF Acting, EndSleeps
  <2>4. pending' # None => running' /\ EndIndex' = pending'.end
    <3>1. pending' # None => pending' = pending /\ clip' = clip /\ running' = running
      BY <1>1, <2>1 DEF ACall
    <3> QED BY <1>1, <2>2, <3>1 DEF Crossed, EndIndex
  <2> QED BY <2>2, <2>3, <2>4 DEF Crossed
<1>9. ReplyTells'
  BY <1>1 DEF ReplyTells, ACall
<1>10. Awaited'
  <2>1. SUFFICES ASSUME clip'.state = "ended" PROVE Awaited'
    BY DEF Awaited, Waiting
  <2>2. lastCall' = now
    BY <2>1 DEF ACall
  <2>3. clip'.end \in Nat /\ mix' \in Nat
    BY DEF Typed, ClipTyped, Clips, GrainsTyped
  <2>4. now <= Later(mix', now) /\ Later(mix', now) \in {mix', now}
    BY <1>1, <2>3, LaterIs
  <2>5. Later(mix', now) <= Later(clip'.end, Later(mix', now)) /\ Later(mix', now) \in Nat
        /\ Later(clip'.end, Later(mix', now)) \in Nat
    BY <1>1, <2>3, <2>4, LaterIs
  <2>6. Since' = Later(clip'.end, Later(mix', now))
    BY <2>2 DEF Since, Later
  <2>7. watch'.read <= Since'
    BY <1>1, <1>4, <1>5, <2>4, <2>5, <2>6 DEF Watching
  <2> QED BY <2>7 DEF Awaited
<1> QED BY <1>5, <1>6, <1>7, <1>8, <1>9, <1>10

LEMMA CallIs ==
    ASSUME IInv, ACall, FlagsTyped', BusTyped', Follows', mix' \in Nat, until' \in Nat,
           watch' \in [reply : Replies \cup {None}, read : Nat], asleep' \subseteq Sleepers,
           clip' \in Clips, clip'.state # "ended" => clip'.left >= 1
    PROVE  IInv'
<1>1. Typed
  BY DEF IInv
<1>2. GrainsTyped'
  BY <1>1 DEF Typed, GrainsTyped, ACall
<1>3. LoopTyped'
  BY <1>1 DEF Typed, LoopTyped, ACall
<1>4. EndsTyped'
  BY <1>1 DEF Typed, EndsTyped, ACall
<1>5. ClipTyped'
  <2>1. clip' = clip \/ clip'.state # "ended"
    BY DEF ACall
  <2>2. now' = now
    BY DEF ACall
  <2> QED BY <1>1, <2>1, <2>2 DEF Typed, ClipTyped
<1>6. Typed'
  BY <1>2, <1>3, <1>4, <1>5 DEF Typed
<1> QED BY <1>6, CallKeeps DEF IInv

\* What a call records of the way it crossed.
LEMMA CalledIs ==
    ASSUME Called(TRUE)
    PROVE  /\ lastCall' = IF clip.state = "ended" THEN now ELSE 0
           /\ ~crossed' => ~crossed /\ watch.reply = None /\ ~Acting
BY DEF Called, Crosses

LEMMA LoadedIs ==
    ASSUME Typed
    PROVE  Loaded \in Clips /\ Loaded.state # "ended" /\ Loaded.left >= 1
           /\ Bound <= now + Loaded.left
<1>1. clip.state # "ended" => clip.left <= Length
  BY Consts DEF Typed, ClipTyped, Clips
<1>2. clip.state = "ended" => clip.end <= now
  BY DEF Typed, ClipTyped
<1>3. Loaded.left = Length /\ Loaded.state = "cued" /\ Loaded \in Clips
  BY Consts DEF Loaded, Clips, States
<1>4. Length \in Nat /\ Length >= 1
  BY Consts
<1>5. CASE clip.state = "ended"
  <2>1. Bound <= now + Length /\ Loaded.left >= 1 /\ Loaded.state # "ended"
    BY <1>2, <1>3, <1>4, <1>5, BoundIs
  <2> QED BY <1>3, <2>1
<1>6. CASE clip.state # "ended"
  <2>1. Bound <= now + Length /\ Loaded.left >= 1 /\ Loaded.state # "ended"
    BY <1>1, <1>3, <1>4, <1>6, BoundIs
  <2> QED BY <1>3, <2>1
<1> QED BY <1>5, <1>6

\* A take changes the control plane's buses and the engine's alike.
LEMMA PutIs ==
    ASSUME Typed, Follows, NEW src \in Sources, NEW flip \in BOOLEAN, NEW frames \in Nat,
           NEW at \in Nat \cup {None}, NEW goal \in Nat, Put(src, flip, frames, at, goal),
           running /\ at # None => eng.held = None \/ (flip /\ program # src)
    PROVE  /\ BusTyped' /\ program' = src /\ preview' \in {preview, program}
           /\ pending' = None
           /\ mix' \in Nat /\ (mix' = 0 \/ mix' >= now)
           /\ running => HeldMade(eng').program = program' /\ HeldMade(eng').preview = preview'
           /\ running /\ at = None => eng'.held = None
           /\ running /\ at # None =>
                eng'.held # None /\ eng'.held.goal = goal /\ eng'.held.at = at
           /\ ~running => eng' = eng
<1> DEFINE swapped == flip /\ program # src
           other == IF swapped THEN program ELSE None
<1>1. eng \in Buses /\ program \in Sources /\ preview \in Sources /\ now \in Nat
  BY BoundIs DEF Typed, BusTyped
<1>2. /\ program' = src /\ preview' = IF swapped THEN program ELSE preview
      /\ eng' = IF running THEN Taken(eng, src, other, at, goal) ELSE eng
      /\ mix' = IF frames = 0 THEN 0 ELSE now + GrainsUntil(at) + frames
      /\ pending' = None
  BY DEF Put
<1>3. other \in Sources \cup {None} /\ (other = None <=> ~swapped)
  BY <1>1, NoneIsNothing
<1>4. GrainsUntil(at) \in Nat
  BY GrainsUntilIs
<1>5. mix' \in Nat /\ (mix' = 0 \/ mix' >= now)
  BY <1>1, <1>2, <1>4
<1>6. swapped => other = program
  OBVIOUS
<1>7. running => at = None \/ eng.held = None \/ swapped
  OBVIOUS
<1> HIDE DEF swapped, other
<1>8. CASE running
  <2>1. eng' = Taken(eng, src, other, at, goal)
    BY <1>2, <1>8
  <2>2. /\ eng' \in Buses
        /\ HeldMade(eng').program = src
        /\ other # None => HeldMade(eng').preview = other
        /\ other = None /\ (at = None \/ eng.held = None)
             => HeldMade(eng').preview = HeldMade(eng).preview
        /\ at = None => eng'.held = None
        /\ at # None => eng'.held # None /\ eng'.held.goal = goal /\ eng'.held.at = at
    <3> DEFINE new == Taken(eng, src, other, at, goal)
    <3>1. /\ new \in Buses
          /\ HeldMade(new).program = src
          /\ other # None => HeldMade(new).preview = other
          /\ other = None /\ (at = None \/ eng.held = None)
               => HeldMade(new).preview = HeldMade(eng).preview
          /\ at = None => new.held = None
          /\ at # None => new.held # None /\ new.held.goal = goal /\ new.held.at = at
      BY <1>1, <1>3, TakenIs
    <3>2. eng' = new
      BY <2>1
    <3> HIDE DEF new
    <3> QED BY <3>1, <3>2
  <2>3. HeldMade(eng).preview = preview
    BY <1>8 DEF Follows
  <2>4. HeldMade(eng').preview = preview'
    BY <1>2, <1>3, <1>6, <1>7, <2>2, <2>3
  <2>5. preview' \in {preview, program}
    BY <1>2
  <2> QED BY <1>1, <1>2, <1>5, <1>8, <2>2, <2>4, <2>5 DEF BusTyped
<1>9. CASE ~running
  <2>1. preview' \in {preview, program}
    BY <1>2
  <2> QED BY <1>1, <1>2, <1>5, <1>9, <2>1 DEF BusTyped
<1> QED BY <1>8, <1>9

\* A take at once.
LEMMA PutNow ==
    ASSUME IInv, running, NEW src \in Sources, NEW flip \in BOOLEAN, NEW frames \in Nat,
           Put(src, flip, frames, None, 0)
    PROVE  /\ BusTyped' /\ pending' = None /\ mix' \in Nat
           /\ HeldMade(eng').program = program' /\ HeldMade(eng').preview = preview'
           /\ eng'.held = None
<1> DEFINE at == None
           goal == 0
<1>1. at \in Nat \cup {None} /\ goal \in Nat /\ Put(src, flip, frames, at, goal) /\ at = None
  OBVIOUS
<1> HIDE DEF at, goal
<1>2. at # None => eng.held = None \/ (flip /\ program # src)
  BY <1>1
<1> QED BY <1>1, <1>2, PutIs DEF IInv

\* A call that puts a source on Program at once.
PutCall(src, flip, frames) ==
    /\ running /\ Called(TRUE)
    /\ Put(src, flip, frames, None, 0)
    /\ until' \in Nat
    /\ UNCHANGED <<now, clip, aired, running, onEnd, playable, watcher, fired, done, asleep, ends>>

LEMMA PutCallKeeps ==
    ASSUME IInv, NEW src \in Sources, NEW flip \in BOOLEAN, NEW frames \in Nat,
           PutCall(src, flip, frames)
    PROVE  IInv'
<1> USE DEF PutCall
<1>1. /\ now' = now /\ clip' = clip /\ aired' = aired /\ running' = running /\ onEnd' = onEnd
      /\ playable' = playable /\ watch' = watch /\ heard' = heard /\ seen' = seen
      /\ fired' = fired /\ done' = done /\ asleep' = asleep /\ ends' = ends
  BY DEF watcher
<1>2. /\ BusTyped' /\ pending' = None /\ mix' \in Nat
      /\ HeldMade(eng').program = program' /\ HeldMade(eng').preview = preview'
      /\ eng'.held = None
  BY PutNow
<1>3. /\ lastCall' = IF clip.state = "ended" THEN now ELSE 0
      /\ ~crossed' => ~crossed /\ watch.reply = None /\ ~Acting
  BY CalledIs
<1>4. ACall
  BY <1>1, <1>2, <1>3 DEF ACall
<1>5. FlagsTyped'
  BY <1>1 DEF IInv, Typed, FlagsTyped
<1>6. Follows'
  BY <1>1, <1>2 DEF IInv, Follows
<1>7. /\ watch' \in [reply : Replies \cup {None}, read : Nat] /\ asleep' \subseteq Sleepers
      /\ clip' \in Clips /\ (clip'.state # "ended" => clip'.left >= 1)
  BY <1>1 DEF IInv, Typed, LoopTyped, EndsTyped, ClipTyped
<1> QED BY <1>2, <1>4, <1>5, <1>6, <1>7, CallIs

LEMMA TakeKeeps ==
    ASSUME IInv, NEW src \in Sources, NEW flip \in BOOLEAN, Take(src, flip) PROVE IInv'
<1> DEFINE frames == 0
<1>1. PutCall(src, flip, frames)
  BY DEF Take, PutCall, IInv, Typed, GrainsTyped
<1>2. frames \in Nat
  OBVIOUS
<1> HIDE DEF frames
<1> QED BY <1>1, <1>2, PutCallKeeps

LEMMA MixKeeps == IInv /\ Mix => IInv'
<1> SUFFICES ASSUME IInv, Mix PROVE IInv'
  OBVIOUS
<1> DEFINE flip == TRUE
           src == preview
<1>1. PutCall(src, flip, Rate)
  BY DEF Mix, PutCall, IInv, Typed, GrainsTyped
<1>2. flip \in BOOLEAN /\ src \in Sources /\ Rate \in Nat
  BY Consts DEF IInv, Typed, BusTyped
<1> HIDE DEF flip, src
<1> QED BY <1>1, <1>2, PutCallKeeps

LEMMA StingerKeeps == ASSUME IInv, NEW src \in Sources, Stinger(src) PROVE IInv'
<1> DEFINE flip == FALSE
           none == 0
<1>1. flip \in BOOLEAN /\ none \in Nat /\ StingFrames \in Nat /\ Margin \in Nat /\ now \in Nat
  BY Consts DEF IInv, Typed, GrainsTyped
<1>2. until \in Nat
  BY DEF IInv, Typed, GrainsTyped
<1>3. GrainsUntil(None) = 0
  BY DEF GrainsUntil
<1>4. CASE PlayStinger(src, FALSE, None, 0) /\ UNCHANGED asleep
  <2>1. until' \in Nat
    BY <1>1, <1>3, <1>4 DEF PlayStinger
  <2>2. PutCall(src, flip, StingFrames)
    BY <1>4, <2>1 DEF Stinger, PutCall, PlayStinger
  <2> HIDE DEF flip, none
  <2> QED BY <1>1, <2>2, PutCallKeeps
<1>5. CASE Put(src, FALSE, 0, None, 0) /\ UNCHANGED <<asleep, until>>
  <2>1. PutCall(src, flip, none)
    BY <1>2, <1>5 DEF Stinger, PutCall
  <2> HIDE DEF flip, none
  <2> QED BY <1>1, <2>1, PutCallKeeps
<1>6. CASE Sleep(src, FALSE, None, None)
  <2> DEFINE w0 == [source |-> src, flip |-> FALSE, at |-> None, end |-> None]
  <2>1. /\ now' = now /\ clip' = clip /\ aired' = aired /\ running' = running /\ onEnd' = onEnd
        /\ playable' = playable /\ watch' = watch /\ heard' = heard /\ seen' = seen
        /\ fired' = fired /\ done' = done /\ ends' = ends
        /\ program' = program /\ preview' = preview
        /\ mix' = mix /\ eng' = eng /\ pending' = pending /\ until' = until
        /\ asleep' = asleep \cup {w0}
    BY <1>6 DEF Stinger, Sleep, watcher, buses
  <2>2. Called(TRUE)
    BY DEF Stinger
  <2>3. /\ lastCall' = IF clip.state = "ended" THEN now ELSE 0
        /\ ~crossed' => ~crossed /\ watch.reply = None /\ ~Acting
    BY <2>2, CalledIs
  <2>4. w0 \in Sleepers /\ w0.end = None /\ w0.at = None
    BY DEF Sleepers
  <2> HIDE DEF w0
  <2>5. ACall
    BY <2>1, <2>3, <2>4 DEF ACall
  <2>6. FlagsTyped' /\ BusTyped'
    BY <2>1 DEF IInv, Typed, FlagsTyped, BusTyped
  <2>7. Follows'
    BY <2>1, <2>4 DEF IInv, Follows, Acting, EndSleeps
  <2>8. /\ watch' \in [reply : Replies \cup {None}, read : Nat] /\ asleep' \subseteq Sleepers
        /\ clip' \in Clips /\ (clip'.state # "ended" => clip'.left >= 1)
        /\ mix' \in Nat /\ until' \in Nat
    BY <2>1, <2>4 DEF IInv, Typed, LoopTyped, EndsTyped, ClipTyped, GrainsTyped
  <2> QED BY <2>5, <2>6, <2>7, <2>8, CallIs
<1> QED BY <1>4, <1>5, <1>6 DEF Stinger

LEMMA SetPreviewKeeps == ASSUME IInv, NEW src \in Sources, SetPreview(src) PROVE IInv'
<1>1. /\ now' = now /\ clip' = clip /\ aired' = aired /\ running' = running /\ onEnd' = onEnd
      /\ playable' = playable /\ watch' = watch /\ heard' = heard /\ seen' = seen
      /\ fired' = fired /\ done' = done /\ ends' = ends /\ program' = program /\ preview' = src
      /\ mix' = mix /\ pending' = pending /\ until' = until /\ asleep' = asleep
      /\ eng' = [HeldMade(eng) EXCEPT !.preview = src]
  BY DEF SetPreview, watcher, Before
<1>2. Called(TRUE) /\ running
  BY DEF SetPreview
<1>3. /\ lastCall' = IF clip.state = "ended" THEN now ELSE 0
      /\ ~crossed' => ~crossed /\ watch.reply = None /\ ~Acting
  BY <1>2, CalledIs
<1>4. eng \in Buses /\ program \in Sources
  BY DEF IInv, Typed, BusTyped
<1>5. HeldMade(eng) \in Buses /\ HeldMade(eng).held = None /\ HeldMade(eng).program = program
  BY <1>2, <1>4, MadeIs DEF IInv, Follows
<1>6. eng' \in Buses /\ eng'.held = None /\ eng'.program = program /\ eng'.preview = src
  BY <1>1, <1>5 DEF Buses
<1>7. HeldMade(eng') = eng'
  BY <1>6, MadeIs
<1>8. ACall
  BY <1>1, <1>3, <1>6 DEF ACall
<1>9. FlagsTyped' /\ BusTyped'
  BY <1>1, <1>4, <1>6 DEF IInv, Typed, FlagsTyped, BusTyped
<1>10. Follows'
  BY <1>1, <1>6, <1>7 DEF IInv, Follows
<1>11. /\ watch' \in [reply : Replies \cup {None}, read : Nat] /\ asleep' \subseteq Sleepers
       /\ clip' \in Clips /\ (clip'.state # "ended" => clip'.left >= 1)
       /\ mix' \in Nat /\ until' \in Nat
  BY <1>1 DEF IInv, Typed, LoopTyped, EndsTyped, ClipTyped, GrainsTyped
<1> QED BY <1>8, <1>9, <1>10, <1>11, CallIs

LEMMA TransportKeeps ==
    ASSUME IInv, NEW command \in {"play", "pause", "stop"}, Transport(command) PROVE IInv'
<1>1. /\ now' = now /\ aired' = aired /\ running' = running /\ onEnd' = onEnd
      /\ playable' = playable /\ watch' = watch /\ heard' = heard /\ seen' = seen
      /\ fired' = fired /\ done' = done /\ ends' = ends /\ program' = program /\ preview' = preview
      /\ mix' = mix /\ pending' = None /\ until' = until /\ asleep' = asleep
      /\ eng' = eng /\ clip' = Commanded(command)
  BY DEF Transport, watcher, buses
<1>2. Called(TRUE)
  BY DEF Transport
<1>3. /\ lastCall' = IF clip.state = "ended" THEN now ELSE 0
      /\ ~crossed' => ~crossed /\ watch.reply = None /\ ~Acting
  BY <1>2, CalledIs
<1>4. /\ clip' \in Clips
      /\ clip' = clip \/ (clip'.state # "ended" /\ clip'.left >= 1 /\ Bound <= now + clip'.left)
  BY <1>1, CommandedIs DEF IInv
<1>5. ACall
  BY <1>1, <1>3, <1>4 DEF ACall
<1>6. FlagsTyped' /\ BusTyped'
  BY <1>1 DEF IInv, Typed, FlagsTyped, BusTyped
<1>7. Follows'
  BY <1>1 DEF IInv, Follows, Acting, EndSleeps
<1>8. /\ watch' \in [reply : Replies \cup {None}, read : Nat] /\ asleep' \subseteq Sleepers
      /\ mix' \in Nat /\ until' \in Nat
  BY <1>1 DEF IInv, Typed, LoopTyped, EndsTyped, GrainsTyped
<1>9. clip'.state # "ended" => clip'.left >= 1
  BY <1>4 DEF IInv, Typed, ClipTyped
<1> QED BY <1>4, <1>5, <1>6, <1>7, <1>8, <1>9, CallIs

\* A clip put on the player leaves the timer of the one before: a slip.
LEMMA LoadKeeps == IInv /\ Load => IInv'
<1> SUFFICES ASSUME IInv, Load PROVE IInv'
  OBVIOUS
<1>1. /\ now' = now /\ aired' = aired /\ running' = running /\ onEnd' = onEnd
      /\ playable' = playable /\ watch' = watch /\ heard' = heard /\ seen' = seen
      /\ fired' = fired /\ done' = done /\ ends' = ends /\ program' = program /\ preview' = preview
      /\ mix' = mix /\ pending' = pending /\ until' = until /\ asleep' = asleep
      /\ eng' = eng /\ clip' = Loaded
  BY DEF Load, watcher, buses
<1>2. Called(FALSE)
  BY DEF Load
<1>3. /\ lastCall' = IF clip.state = "ended" THEN now ELSE 0
      /\ ~crossed' => ~crossed /\ watch.reply = None /\ ~Acting /\ pending = None
  BY <1>2 DEF Called, Crosses
<1>4. clip' \in Clips /\ clip'.state # "ended" /\ clip'.left >= 1 /\ Bound <= now + clip'.left
  BY <1>1, LoadedIs DEF IInv
<1>5. ACall
  BY <1>1, <1>3, <1>4 DEF ACall
<1>6. FlagsTyped' /\ BusTyped'
  BY <1>1 DEF IInv, Typed, FlagsTyped, BusTyped
<1>7. Follows'
  BY <1>1 DEF IInv, Follows, Acting, EndSleeps
<1>8. /\ watch' \in [reply : Replies \cup {None}, read : Nat] /\ asleep' \subseteq Sleepers
      /\ mix' \in Nat /\ until' \in Nat
  BY <1>1 DEF IInv, Typed, LoopTyped, EndsTyped, GrainsTyped
<1> QED BY <1>4, <1>5, <1>6, <1>7, <1>8, CallIs

\* The clip player's on_end and the stinger's file: settings the threads read when they act.
LEMMA SettingKeeps ==
    ASSUME IInv, Called(TRUE), onEnd' \in Actions, playable' \in BOOLEAN,
           UNCHANGED <<now, engine, running, buses, until, watcher, pending, fired, done, asleep,
                     ends>>
    PROVE  IInv'
<1>1. /\ now' = now /\ aired' = aired /\ running' = running
      /\ watch' = watch /\ heard' = heard /\ seen' = seen
      /\ fired' = fired /\ done' = done /\ ends' = ends /\ program' = program /\ preview' = preview
      /\ mix' = mix /\ pending' = pending /\ until' = until /\ asleep' = asleep
      /\ eng' = eng /\ clip' = clip
  BY DEF watcher, buses, engine
<1>2. /\ lastCall' = IF clip.state = "ended" THEN now ELSE 0
      /\ ~crossed' => ~crossed /\ watch.reply = None /\ ~Acting
  BY CalledIs
<1>3. ACall
  BY <1>1, <1>2 DEF ACall
<1>4. FlagsTyped' /\ BusTyped'
  BY <1>1 DEF IInv, Typed, FlagsTyped, BusTyped
<1>5. Follows'
  BY <1>1 DEF IInv, Follows, Acting, EndSleeps
<1>6. /\ watch' \in [reply : Replies \cup {None}, read : Nat] /\ asleep' \subseteq Sleepers
      /\ clip' \in Clips /\ (clip'.state # "ended" => clip'.left >= 1)
      /\ mix' \in Nat /\ until' \in Nat
  BY <1>1 DEF IInv, Typed, LoopTyped, EndsTyped, ClipTyped, GrainsTyped
<1> QED BY <1>3, <1>4, <1>5, <1>6, CallIs

LEMMA SetOnEndKeeps == ASSUME IInv, NEW action \in Actions, SetOnEnd(action) PROVE IInv'
<1>1. onEnd' = action /\ playable' = playable /\ playable \in BOOLEAN
  BY DEF SetOnEnd, IInv, Typed, FlagsTyped
<1>2. Called(TRUE)
      /\ UNCHANGED <<now, engine, running, buses, until, watcher, pending, fired, done, asleep,
                     ends>>
  BY DEF SetOnEnd
<1> QED BY <1>1, <1>2, SettingKeeps

LEMMA ConvertKeeps == IInv /\ Convert => IInv'
<1> SUFFICES ASSUME IInv, Convert PROVE IInv'
  OBVIOUS
<1>1. onEnd' = onEnd /\ onEnd \in Actions /\ playable' \in BOOLEAN
  BY DEF Convert, IInv, Typed, FlagsTyped
<1>2. Called(TRUE)
      /\ UNCHANGED <<now, engine, running, buses, until, watcher, pending, fired, done, asleep,
                     ends>>
  BY DEF Convert
<1> QED BY <1>1, <1>2, SettingKeeps

LEMMA StopProgramKeeps == IInv /\ StopProgram => IInv'
<1> SUFFICES ASSUME IInv, StopProgram PROVE IInv'
  OBVIOUS
<1>1. /\ now' = now /\ aired' = aired /\ running' = FALSE /\ onEnd' = onEnd
      /\ playable' = playable /\ watch' = watch /\ heard' = None /\ seen' = seen
      /\ fired' = fired /\ done' = done /\ ends' = ends /\ program' = program /\ preview' = preview
      /\ mix' = 0 /\ pending' = None /\ until' = until /\ asleep' = asleep
      /\ eng' = [eng EXCEPT !.held = None] /\ clip' = clip
  BY DEF StopProgram
<1>2. Called(TRUE)
  BY DEF StopProgram
<1>3. /\ lastCall' = IF clip.state = "ended" THEN now ELSE 0
      /\ ~crossed' => ~crossed /\ watch.reply = None /\ ~Acting
  BY <1>2, CalledIs
<1>4. eng' \in Buses /\ eng'.held = None
  BY <1>1 DEF IInv, Typed, BusTyped, Buses
<1>5. ACall
  BY <1>1, <1>3, <1>4 DEF ACall
<1>6. FlagsTyped' /\ BusTyped'
  BY <1>1, <1>4 DEF IInv, Typed, FlagsTyped, BusTyped
<1>7. Follows'
  BY <1>1 DEF IInv, Follows
<1>8. /\ watch' \in [reply : Replies \cup {None}, read : Nat] /\ asleep' \subseteq Sleepers
      /\ clip' \in Clips /\ (clip'.state # "ended" => clip'.left >= 1)
      /\ mix' \in Nat /\ until' \in Nat
  BY <1>1 DEF IInv, Typed, LoopTyped, EndsTyped, ClipTyped, GrainsTyped
<1> QED BY <1>4, <1>5, <1>6, <1>7, <1>8, CallIs

\* A timer is left over Program's stop only by a reply the stop crossed: a slip.
LEMMA StartProgramKeeps == IInv /\ StartProgram => IInv'
<1> SUFFICES ASSUME IInv, StartProgram PROVE IInv'
  OBVIOUS
<1>1. /\ now' = now /\ aired' = FALSE /\ running' = TRUE /\ onEnd' = onEnd
      /\ playable' = playable /\ heard' = heard /\ seen' = seen
      /\ fired' = fired /\ done' = done /\ ends' = ends /\ program' = program /\ preview' = preview
      /\ mix' = mix /\ pending' = pending /\ until' = 0 /\ asleep' = asleep
      /\ eng' = [program |-> program, preview |-> preview, held |-> None] /\ clip' = Loaded
      /\ watch' = [watch EXCEPT !.read = now] /\ watch.reply = None /\ ~running /\ ~Acting
  BY DEF StartProgram, buses
<1>2. Called(TRUE)
  BY DEF StartProgram
<1>3. /\ lastCall' = IF clip.state = "ended" THEN now ELSE 0
      /\ ~crossed' => ~crossed /\ watch.reply = None /\ ~Acting
  BY <1>2, CalledIs
<1>4. ~crossed => pending = None
  BY <1>1 DEF IInv, Crossed
<1>5. now \in Nat /\ watch \in [reply : Replies \cup {None}, read : Nat]
  BY BoundIs DEF IInv, Typed, LoopTyped
<1>6. /\ watch' \in [reply : Replies \cup {None}, read : Nat]
      /\ watch'.reply = watch.reply /\ watch'.read = now
  BY <1>1, <1>5
<1>7. clip' \in Clips /\ clip'.state # "ended" /\ clip'.left >= 1 /\ Bound <= now + clip'.left
  BY <1>1, LoadedIs DEF IInv
<1>8. eng' \in Buses /\ eng'.held = None /\ eng'.program = program /\ eng'.preview = preview
  BY <1>1 DEF IInv, Typed, BusTyped, Buses
<1>9. ACall
  BY <1>1, <1>3, <1>4, <1>6, <1>7, <1>8 DEF ACall
<1>10. FlagsTyped' /\ BusTyped'
  BY <1>1, <1>8 DEF IInv, Typed, FlagsTyped, BusTyped
<1>11. HeldMade(eng') = eng'
  BY <1>8, MadeIs
<1>12. Follows'
  BY <1>1, <1>8, <1>11 DEF IInv, Follows
<1>13. asleep' \subseteq Sleepers /\ mix' \in Nat /\ until' \in Nat
  BY <1>1 DEF IInv, Typed, EndsTyped, GrainsTyped
<1> QED BY <1>6, <1>7, <1>9, <1>10, <1>12, <1>13, CallIs

-----------------------------------------------------------------------------
(* Time, and the threads                                                   *)

LEMMA EndIndexIs ==
    ASSUME Typed
    PROVE  /\ EndIndex \in {0} \cup Ends
           /\ EndIndex # 0 => EndIndex = Bound /\ clip.state \in {"ended", "playing"}
           /\ clip.state = "ended" => EndIndex = clip.end
           /\ clip.state = "playing" => EndIndex = now + clip.left /\ EndIndex > now
<1>1. /\ now \in Nat /\ now >= 1 /\ now <= MaxGrain /\ MaxGrain \in Nat /\ Length \in Nat
      /\ clip.left \in Nat /\ clip.left <= Length
  BY BoundIs, Consts DEF Typed, GrainsTyped, ClipTyped, Clips
<1>2. CASE clip.state = "ended"
  <2>1. EndIndex = clip.end /\ Bound = clip.end
    BY <1>2 DEF EndIndex, Bound
  <2>2. clip.end \in Nat /\ clip.end >= 1 /\ clip.end <= now
    BY <1>2 DEF Typed, ClipTyped, Clips
  <2> QED BY <1>1, <1>2, <2>1, <2>2 DEF Ends
<1>3. CASE clip.state = "playing"
  <2>1. EndIndex = now + clip.left /\ Bound = now + clip.left /\ clip.left >= 1
    BY <1>3, BoundIs DEF EndIndex, Bound
  <2> QED BY <1>1, <1>3, <2>1 DEF Ends
<1>4. CASE clip.state \notin {"ended", "playing"}
  BY <1>4 DEF EndIndex
<1> QED BY <1>2, <1>3, <1>4

\* A grain: what was read, timed and held stays in time, and an end that counts stays the clip's.
LEMMA GrainKeeps == ASSUME IInv, NEW skip \in 0..1, Grain(skip) PROVE IInv'
<1> DEFINE g == now + 1 + skip
           air == eng'.program = Clip
           due == eng.held # None /\ eng.held.at <= g
<1>1. Typed /\ now \in Nat /\ now >= 1 /\ g \in {now + 1, now + 2} /\ air \in BOOLEAN
  BY BoundIs DEF IInv
<1>2. /\ InTime(g) /\ g <= MaxGrain /\ now' = g
      /\ eng' = IF due THEN HeldMade(eng) ELSE eng
      /\ clip' = IF running THEN Advanced(g, air) ELSE clip
      /\ aired' = (running /\ air)
      /\ crossed' = (crossed \/ /\ clip.state = "ended" /\ clip' # clip
                                /\ watch.reply # None \/ pending # None \/ Acting)
  BY DEF Grain
<1>3. /\ running' = running /\ onEnd' = onEnd
      /\ playable' = playable /\ watch' = watch /\ heard' = heard /\ seen' = seen
      /\ fired' = fired /\ done' = done /\ ends' = ends /\ program' = program /\ preview' = preview
      /\ mix' = mix /\ pending' = pending /\ until' = until /\ asleep' = asleep
      /\ lastCall' = lastCall
  BY DEF Grain, watcher, buses
<1>4. eng \in Buses /\ (eng.held # None => eng.held.at \in Nat)
  BY <1>1 DEF Typed, BusTyped, Buses, Held
<1>5. /\ eng' \in Buses /\ HeldMade(eng') = HeldMade(eng)
      /\ eng'.held # None => eng'.held = eng.held /\ eng.held.at > g
  <2>1. CASE due
    BY <1>2, <1>4, <2>1, MadeIs
  <2>2. CASE ~due
    <3>1. eng' = eng
      BY <1>2, <2>2
    <3> QED BY <1>1, <1>4, <2>2, <3>1
  <2> QED BY <2>1, <2>2
<1>6. ~crossed' => /\ ~crossed
                   /\ clip.state = "ended" /\ (watch.reply # None \/ pending # None \/ Acting)
                        => clip' = clip
  BY <1>2
<1> HIDE DEF air, due
\* The clip in this grain.
<1>7. /\ clip' \in Clips
      /\ clip'.state # "ended" => clip'.left >= 1 /\ Bound <= g + clip'.left
      /\ clip'.state = "ended" => /\ clip' = clip \/ (running /\ clip'.end > now)
                                  /\ 1 <= clip'.end /\ clip'.end <= g /\ Bound <= clip'.end
      /\ running /\ clip.state = "playing" =>
           \/ clip'.state = "playing" /\ g + clip'.left = now + clip.left
           \/ clip'.state = "ended" /\ clip'.end = now + clip.left
  <2>1. CASE running
    <3> DEFINE new == Advanced(g, air)
    <3> HIDE DEF g
    <3>1. /\ new \in Clips
          /\ new.state # "ended" => new.left >= 1 /\ Bound <= g + new.left
          /\ new.state = "ended" => /\ new = clip \/ new.end > now
                                    /\ 1 <= new.end /\ new.end <= g /\ Bound <= new.end
          /\ clip.state = "playing" =>
               \/ new.state = "playing" /\ g + new.left = now + clip.left
               \/ new.state = "ended" /\ new.end = now + clip.left
      BY <1>1, AdvancedIs
    <3>2. clip' = new
      BY <1>2, <2>1
    <3> HIDE DEF new
    <3> QED BY <2>1, <3>1, <3>2
  <2>2. CASE ~running
    <3>1. clip' = clip
      BY <1>2, <2>2
    <3>2. clip \in Clips /\ (clip.state = "ended" => clip.end >= 1 /\ clip.end <= now)
      BY <1>1 DEF Typed, ClipTyped
    <3> QED BY <1>1, <2>2, <3>1, <3>2, BoundIs DEF Clips
  <2> QED BY <2>1, <2>2
<1>8. g \in Nat /\ g > now
  BY <1>1
<1> HIDE DEF g
<1>9. Typed'
  <2>1. FlagsTyped'
    BY <1>1, <1>2, <1>3 DEF Typed, FlagsTyped
  <2>2. BusTyped' /\ LoopTyped' /\ EndsTyped'
    BY <1>1, <1>3, <1>5 DEF Typed, BusTyped, LoopTyped, EndsTyped
  <2>3. GrainsTyped'
    BY <1>1, <1>2, <1>3, <1>8, Consts DEF Typed, GrainsTyped
  <2>4. ClipTyped'
    BY <1>2, <1>7 DEF ClipTyped
  <2> QED BY <2>1, <2>2, <2>3, <2>4 DEF Typed
<1>10. Bound \in Nat /\ Bound' \in Nat /\ Bound <= Bound'
  <2>1. Bound \in Nat
    BY <1>1, BoundIs
  <2>2. clip'.left \in Nat /\ clip'.end \in Nat
    BY <1>7, Consts DEF Clips
  <2>3. Bound' = IF clip'.state = "ended" THEN clip'.end ELSE g + clip'.left
    BY <1>2 DEF Bound
  <2> QED BY <1>7, <1>8, <2>1, <2>2, <2>3
<1>11. Watching'
  <2>1. watch.read \in Nat
    BY <1>1 DEF Typed, LoopTyped
  <2>2. /\ watch.reply # None => g <= watch.read + Lag
        /\ running => g <= watch.read + Poll + Lag
    BY <1>2 DEF InTime
  <2>3. heard # None => heard \in Nat
    BY <1>1 DEF Typed, LoopTyped
  <2> QED BY <1>1, <1>2, <1>3, <1>8, <2>1, <2>2, <2>3 DEF IInv, Watching
<1>12. Counted'
  <2>1. done \in Nat /\ (pending # None => pending.end \in Nat)
        /\ (watch.reply # None => watch.reply.end \in Nat)
    BY <1>1, Consts DEF Typed, GrainsTyped, LoopTyped, Timers, Replies, Ends
  <2>2. done' <= Bound'
    BY <1>3, <1>10, <2>1 DEF IInv, Counted
  <2>3. pending' # None => done' < pending'.end /\ pending'.end <= Bound'
    BY <1>3, <1>10, <2>1 DEF IInv, Counted
  <2>4. EndSleeps' <=> EndSleeps
    BY <1>3 DEF EndSleeps
  <2>5. watch'.reply # None /\ watch'.reply.end # 0 =>
          /\ done' <= watch'.reply.end /\ watch'.reply.end <= Bound'
          /\ pending' # None => pending'.end <= watch'.reply.end
    BY <1>3, <1>10, <2>1 DEF IInv, Counted
  <2> QED BY <1>3, <2>2, <2>3, <2>4, <2>5 DEF IInv, Counted
<1>13. Follows'
  BY <1>3, <1>5 DEF IInv, Follows, Acting, EndSleeps
<1>14. Timed'
  <2>1. pending' # None =>
          /\ heard' # None
          /\ pending'.timely => pending'.due + Lag < pending'.start
          /\ ~EndSleeps' => now' <= pending'.due + Lag
          /\ pending'.due <= now' \/ pending'.due <= pending'.start - Lead + Lag
    <3>1. pending # None => pending.due \in Nat
      BY <1>1 DEF Typed, LoopTyped, Timers
    <3>2. pending # None => g <= pending.due + Lag \/ EndSleeps
      BY <1>2 DEF InTime, EndSleeps
    <3>3. EndSleeps' <=> EndSleeps
      BY <1>3 DEF EndSleeps
    <3>4. pending # None => pending.due <= now \/ pending.due <= pending.start - Lead + Lag
      BY DEF IInv, Timed
    <3> QED BY <1>1, <1>2, <1>3, <1>8, <3>1, <3>2, <3>3, <3>4 DEF IInv, Timed
  <2>2. eng'.held # None /\ eng'.held.goal # 0 =>
          eng'.held.goal = eng'.held.at /\ eng'.held.at > now'
    BY <1>2, <1>5 DEF IInv, Timed
  <2>3. fired' # None => now' <= fired'.due + Lag
    BY <1>2, <1>3 DEF InTime
  <2> QED BY <1>3, <2>1, <2>2, <2>3 DEF IInv, Timed
<1>15. Crossed'
  <2>1. SUFFICES ASSUME ~crossed' PROVE Crossed'
    BY DEF Crossed
  <2>2. ASSUME watch.reply # None \/ pending # None \/ Acting, running, EndIndex # 0
        PROVE  EndIndex' = EndIndex
    <3>1. CASE clip.state = "ended"
      BY <1>6, <2>1, <2>2, <3>1 DEF EndIndex
    <3>2. CASE clip.state = "playing"
      BY <1>2, <1>7, <2>2, <3>2 DEF EndIndex
    <3> QED BY <1>1, <2>2, <3>1, <3>2, EndIndexIs
  <2>3. watch'.reply # None /\ watch'.reply.end # 0 => running' /\ EndIndex' = watch'.reply.end
    BY <1>3, <1>6, <2>1, <2>2 DEF IInv, Crossed
  <2>4. /\ pending # None => pending.end # 0
        /\ fired # None => fired.end # 0
        /\ \A w \in asleep : w.end # None => w.end # 0
    BY <1>1, Consts DEF Typed, LoopTyped, EndsTyped, Timers, Firings, Sleepers, Ends
  <2>5. pending' # None => running' /\ EndIndex' = pending'.end
    BY <1>3, <1>6, <2>1, <2>2, <2>4 DEF IInv, Crossed
  <2>6. fired' # None => running' /\ program' = Clip /\ EndIndex' = fired'.end
    BY <1>3, <1>6, <2>1, <2>2, <2>4 DEF IInv, Crossed, Acting
  <2>7. \A w \in asleep' : w.end # None => running' /\ program' = Clip /\ EndIndex' = w.end
    BY <1>3, <1>6, <2>1, <2>2, <2>4 DEF IInv, Crossed, Acting, EndSleeps
  <2> QED BY <2>3, <2>5, <2>6, <2>7 DEF Crossed
<1>16. ReplyTells'
  <2>1. SUFFICES ASSUME watch.reply # None PROVE ReplyTells'
    BY <1>3 DEF ReplyTells
  <2>2. watch.reply.index \in Nat /\ watch.reply.index <= now
    BY <1>1, <2>1 DEF IInv, Watching, Typed, LoopTyped, Replies
  <2>3. clip'.end \in Nat
    BY <1>7 DEF Clips
  <2>4. clip'.state = "ended" /\ watch.reply.index >= clip'.end => clip' = clip
    BY <1>1, <1>7, <2>2, <2>3
  <2> QED BY <1>3, <2>1, <2>4 DEF IInv, ReplyTells
<1>17. Awaited'
  <2>1. SUFFICES ASSUME clip'.state = "ended" PROVE Awaited'
    BY DEF Awaited, Waiting
  <2>2. CASE clip' = clip
    <3>1. Waiting' = Waiting
      BY <1>3, <2>2 DEF Waiting, EndAction
    <3>2. Since' = Since
      BY <1>3, <2>2 DEF Since, Later
    <3>3. EndStart(clip.end)' = EndStart(clip.end)
      BY <1>3, <2>2 DEF EndStart, EndAction
    <3> QED BY <1>3, <2>2, <3>1, <3>2, <3>3 DEF IInv, Awaited
  <2>3. CASE clip' # clip
    <3>1. clip'.end > now /\ clip'.end \in Nat
      BY <1>7, <2>1, <2>3 DEF Clips
    <3>2. mix' \in Nat /\ lastCall' \in Nat
      BY <1>9 DEF Typed, GrainsTyped
    <3>3. Later(mix', lastCall') \in Nat
      BY <3>2, LaterIs
    <3>4. Since' \in Nat /\ clip'.end <= Since'
      BY <3>1, <3>3, LaterIs DEF Since, Later
    <3>5. watch'.read \in Nat /\ watch'.read <= now
      BY <1>1, <1>3 DEF IInv, Watching, Typed, LoopTyped
    <3>6. watch'.read <= Since'
      BY <1>1, <3>1, <3>4, <3>5
    <3> QED BY <3>6 DEF Awaited
  <2> QED BY <2>2, <2>3
<1> QED BY <1>9, <1>11, <1>12, <1>13, <1>14, <1>15, <1>16, <1>17 DEF IInv

LEMMA SinceIs ==
    ASSUME Typed
    PROVE  Since \in Nat /\ clip.end <= Since /\ mix <= Since /\ lastCall <= Since
<1>1. clip.end \in Nat /\ mix \in Nat /\ lastCall \in Nat
  BY DEF Typed, ClipTyped, Clips, GrainsTyped
<1>2. Later(mix, lastCall) \in Nat /\ mix <= Later(mix, lastCall)
      /\ lastCall <= Later(mix, lastCall)
  BY <1>1, LaterIs
<1> DEFINE b == Later(mix, lastCall)
<1> HIDE DEF b
<1>3. Later(clip.end, b) \in Nat /\ clip.end <= Later(clip.end, b) /\ b <= Later(clip.end, b)
  BY <1>1, <1>2, LaterIs DEF b
<1> QED BY <1>1, <1>2, <1>3 DEF Since, b

\* A read: what it tells is the clip's end, and it is not late.
LEMMA ReadKeeps == IInv /\ Read => IInv'
<1> SUFFICES ASSUME IInv, Read PROVE IInv'
  OBVIOUS
<1> DEFINE new == [index |-> now, state |-> clip.state, end |-> EndIndex]
<1>1. /\ now' = now /\ clip' = clip /\ aired' = aired /\ eng' = eng /\ running' = running
      /\ program' = program /\ preview' = preview /\ mix' = mix /\ onEnd' = onEnd
      /\ until' = until /\ playable' = playable /\ heard' = heard /\ pending' = pending
      /\ seen' = seen /\ fired' = fired /\ done' = done /\ asleep' = asleep
      /\ ends' = ends /\ crossed' = crossed
      /\ lastCall' = lastCall
  BY DEF Read, engine, buses
<1>2. /\ running /\ watch.reply = None /\ now > watch.read
      /\ watch' = [reply |-> IF EndAction = "off" THEN None ELSE new, read |-> now]
  BY DEF Read
<1>3. Typed /\ now \in Nat /\ now >= 1 /\ watch.read \in Nat
  BY BoundIs DEF IInv, Typed, LoopTyped
<1>4. new \in Replies /\ new # None
  <2>1. new \in Replies
    BY <1>3, EndIndexIs DEF Typed, ClipTyped, Clips, Replies
  <2> QED BY <2>1, NoneIsNothing
<1>5. /\ watch'.read = now /\ watch'.reply \in {None, new}
      /\ EndAction # "off" => watch'.reply = new
      /\ watch' \in [reply : Replies \cup {None}, read : Nat]
  BY <1>2, <1>3, <1>4
<1>6. new.index = now /\ new.state = clip.state /\ new.end = EndIndex
  OBVIOUS
<1> HIDE DEF new
<1>7. EndIndex' = EndIndex /\ Bound' = Bound /\ (EndSleeps' <=> EndSleeps)
      /\ (Acting' <=> Acting)
  BY <1>1 DEF EndIndex, Bound, EndSleeps, Acting
<1>8. Typed'
  <2>1. FlagsTyped' /\ BusTyped' /\ GrainsTyped'
    BY <1>1, <1>3 DEF Typed, FlagsTyped, BusTyped, GrainsTyped
  <2>2. LoopTyped' /\ EndsTyped' /\ ClipTyped'
    BY <1>1, <1>3, <1>5 DEF Typed, LoopTyped, EndsTyped, ClipTyped
  <2> QED BY <2>1, <2>2 DEF Typed
<1>9. Watching'
  <2>1. heard' # None => heard' < now'
    BY <1>1 DEF IInv, Watching
  <2>2. now <= now + Lag /\ now <= now + Poll + Lag
    BY <1>3, Consts
  <2> QED BY <1>1, <1>3, <1>5, <1>6, <2>1, <2>2 DEF Watching
<1>10. Counted'
  <2>1. watch'.reply # None /\ watch'.reply.end # 0 =>
          /\ done' <= watch'.reply.end /\ watch'.reply.end <= Bound'
          /\ pending' # None => pending'.end <= watch'.reply.end
    <3>1. SUFFICES ASSUME EndIndex # 0
                   PROVE  /\ done <= EndIndex /\ EndIndex <= Bound
                          /\ pending # None => pending.end <= EndIndex
      BY <1>1, <1>5, <1>6, <1>7
    <3>2. EndIndex = Bound /\ Bound \in Nat
      BY <1>3, <3>1, EndIndexIs, BoundIs
    <3> QED BY <3>2 DEF IInv, Counted
  <2> QED BY <1>1, <1>7, <2>1 DEF IInv, Counted
<1>11. Follows'
  BY <1>1, <1>7 DEF IInv, Follows
<1>12. Timed'
  BY <1>1, <1>7 DEF IInv, Timed
<1>13. Crossed'
  BY <1>1, <1>2, <1>5, <1>6, <1>7 DEF IInv, Crossed
<1>14. ReplyTells'
  <2>1. clip.state = "playing" => EndIndex > now
    BY <1>3, EndIndexIs
  <2>2. clip.state = "ended" => EndIndex = clip.end
    BY <1>3, EndIndexIs
  <2> QED BY <1>1, <1>5, <1>6, <2>1, <2>2 DEF ReplyTells
<1>15. Awaited'
  <2>1. Waiting' = Waiting
    BY <1>1 DEF Waiting, EndAction
  <2>2. Since' = Since
    BY <1>1 DEF Since, Later
  <2>3. EndStart(clip.end)' = EndStart(clip.end)
    BY <1>1 DEF EndStart, EndAction
  <2>4. SUFFICES ASSUME Waiting, Since + Grace <= clip.end + Late
                 PROVE  \/ watch'.reply # None /\ watch'.read <= Since + Poll + Lag
                        \/ /\ pending # None /\ pending.start = EndStart(clip.end)
                           /\ pending.due <= Since + Poll + 2 * Lag
    BY <1>1, <2>1, <2>2, <2>3 DEF Awaited, Grace
  <2>5. watch'.reply = new
    BY <1>5, <2>4 DEF Waiting
  <2>6. CASE watch.read <= Since
    <3>1. now <= watch.read + Poll + Lag
      BY <1>2 DEF IInv, Watching
    <3>2. now <= Since + Poll + Lag
      BY <1>3, <2>6, <3>1, SinceIs, Consts
    <3> QED BY <1>4, <1>5, <2>5, <3>2
  <2>7. CASE ~(watch.read <= Since)
    BY <1>2, <2>4, <2>7 DEF IInv, Awaited
  <2> QED BY <2>6, <2>7
<1> QED BY <1>8, <1>9, <1>10, <1>11, <1>12, <1>13, <1>14, <1>15 DEF IInv

\* A timer with nothing to do: the next read arms it again.
LEMMA FireNothingKeeps == IInv /\ FireNothing => IInv'
<1> SUFFICES ASSUME IInv, FireNothing PROVE IInv'
  OBVIOUS
<1>1. /\ now' = now /\ clip' = clip /\ aired' = aired /\ eng' = eng /\ running' = running
      /\ program' = program /\ preview' = preview /\ mix' = mix /\ onEnd' = onEnd
      /\ until' = until /\ playable' = playable /\ heard' = heard /\ pending' = None
      /\ seen' = seen /\ fired' = fired /\ done' = done /\ asleep' = asleep
      /\ ends' = ends /\ crossed' = crossed
      /\ lastCall' = lastCall /\ watch' = watch
  BY DEF FireNothing, engine, buses, watcher
<1>2. Typed /\ now \in Nat /\ watch.read \in Nat
  BY BoundIs DEF IInv, Typed, LoopTyped
<1>3. /\ EndIndex' = EndIndex /\ Bound' = Bound /\ (EndSleeps' <=> EndSleeps) /\ ~EndSleeps
      /\ (Acting' <=> Acting)
  BY <1>1 DEF EndIndex, Bound, EndSleeps, FireNothing, Due, Acting
<1>4. Typed'
  <2>1. FlagsTyped' /\ BusTyped' /\ GrainsTyped'
    BY <1>1, <1>2 DEF Typed, FlagsTyped, BusTyped, GrainsTyped
  <2>2. LoopTyped' /\ EndsTyped' /\ ClipTyped'
    BY <1>1, <1>2 DEF Typed, LoopTyped, EndsTyped, ClipTyped
  <2> QED BY <2>1, <2>2 DEF Typed
<1>5. Watching' /\ Follows' /\ ReplyTells'
  <2>1. Watching'
    BY <1>1 DEF IInv, Watching
  <2>2. Follows'
    BY <1>1, <1>3 DEF IInv, Follows
  <2>3. ReplyTells'
    BY <1>1 DEF IInv, ReplyTells
  <2> QED BY <2>1, <2>2, <2>3
<1>6. Counted' /\ Timed'
  <2>1. Counted'
    BY <1>1, <1>3 DEF IInv, Counted
  <2>2. Timed'
    BY <1>1 DEF IInv, Timed
  <2> QED BY <2>1, <2>2
<1>7. Crossed'
  BY <1>1, <1>3 DEF IInv, Crossed, EndSleeps
<1>8. Awaited'
  <2>1. Waiting' = Waiting
    BY <1>1 DEF Waiting, EndAction
  <2>2. Since' = Since
    BY <1>1 DEF Since, Later
  <2>3. SUFFICES ASSUME Waiting PROVE watch.read <= Since
    BY <1>1, <2>1, <2>2 DEF Awaited
  <2>4. mix > now
    BY <2>3 DEF FireNothing, Waiting
  <2>5. watch.read <= now /\ mix \in Nat
    BY <1>2 DEF IInv, Watching, Typed, GrainsTyped
  <2> QED BY <1>2, <2>4, <2>5, SinceIs
<1> QED BY <1>4, <1>5, <1>6, <1>7, <1>8 DEF IInv

\* A timer is set for the end of a reply that is not older than Lag: it is armed Lead before its
\* action by the grain of the reply, and no later than now.
LEMMA TimerIs ==
    ASSUME Typed, Watching, NEW reply \in Replies, watch.reply = reply, NEW start \in Int,
           reply.end \in Ends
    PROVE  LET new == Timer(reply, start)
           IN  /\ new \in Timers /\ new.start = start /\ new.end = reply.end
               /\ new.timely => new.due + Lag < new.start
               /\ now <= new.due + Lag
               /\ new.due <= now \/ new.due <= new.start - Lead + Lag
               /\ start - Lead <= reply.index => new.due = now
<1> DEFINE new == Timer(reply, start)
           i == reply.index
           x == now + start - Lead - i
<1>1. /\ now \in Nat /\ i \in Nat /\ i = watch.read /\ i <= now /\ now <= i + Lag
      /\ Lead \in Nat /\ Lag \in Nat /\ Lead > 2 * Lag
  <2>1. reply # None
    BY NoneIsNothing
  <2> QED BY <2>1, BoundIs, Consts DEF Watching, Replies
<1>2. new = [start |-> start, end |-> reply.end, due |-> Later(now, x),
             timely |-> start - Lead >= i]
  BY DEF Timer
<1> HIDE DEF i, new
<1>3. x \in Int /\ Later(now, x) \in {now, x} /\ now <= Later(now, x)
      /\ (x >= now => Later(now, x) = x) /\ (now >= x => Later(now, x) = now)
  BY <1>1, LaterIs
<1> DEFINE due == Later(now, x)
           timely == start - Lead >= i
<1>4. due \in Nat /\ now <= due + Lag
  BY <1>1, <1>3
<1>5. due <= now \/ due <= start - Lead + Lag
  BY <1>1, <1>3
<1>6. timely => due + Lag < start
  BY <1>1, <1>3
<1>7. start - Lead <= i => due = now
  BY <1>1, <1>3
<1>8. timely \in BOOLEAN
  OBVIOUS
<1> HIDE DEF due, timely, x
<1>9. /\ new \in Timers /\ new.start = start /\ new.end = reply.end /\ new.due = due
      /\ new.timely = timely
  BY <1>2, <1>4, <1>8 DEF Timers, due, timely
<1> QED BY <1>4, <1>5, <1>6, <1>7, <1>9 DEF new, i

\* The reply is worked out: an end to act on that is due has its timer, in time.
LEMMA JudgeKeeps == IInv /\ Judge => IInv'
<1> SUFFICES ASSUME IInv, Judge PROVE IInv'
  OBVIOUS
<1> DEFINE reply == watch.reply
           start == EndStart(reply.end)
           within == start - reply.index <= Horizon
           same == pending # None /\ pending.start = start
           set == Wanted(reply) /\ within /\ ~same
           new == Timer(reply, start)
<1>1. /\ now' = now /\ clip' = clip /\ aired' = aired /\ eng' = eng /\ running' = running
      /\ program' = program /\ preview' = preview /\ mix' = mix /\ onEnd' = onEnd
      /\ until' = until /\ playable' = playable
      /\ fired' = fired /\ done' = done /\ asleep' = asleep /\ ends' = ends /\ crossed' = crossed
      /\ lastCall' = lastCall
  BY DEF Judge, engine, buses
<1>2. /\ reply # None
      /\ watch' = [watch EXCEPT !.reply = None]
      /\ heard' = now - reply.index
      /\ seen' = IF Wanted(reply) /\ reply.state = "playing" THEN reply.end ELSE seen
      /\ pending' = IF set THEN new ELSE pending
  BY DEF Judge
<1>3. /\ Typed /\ Watching /\ now \in Nat /\ now >= 1 /\ watch.read \in Nat /\ reply \in Replies
      /\ watch \in [reply : Replies \cup {None}, read : Nat]
  BY <1>2, BoundIs DEF IInv, Typed, LoopTyped
<1>4. /\ reply.index = watch.read /\ watch.read <= now /\ now <= watch.read + Lag
      /\ watch.read >= 1
  BY <1>2, <1>3 DEF Watching
<1>5. reply.end \in Nat /\ (reply.end # 0 => reply.end \in Ends)
  BY <1>3, Consts DEF Replies, Ends
<1>6. start \in Int /\ start <= reply.end + 1
  BY <1>5, EndStartIs
<1>7. watch'.reply = None /\ watch'.read = watch.read
      /\ watch' \in [reply : Replies \cup {None}, read : Nat]
  BY <1>2, <1>3
<1>8. set => reply.end # 0 /\ done # reply.end
  BY DEF Wanted
<1>9. set => /\ new \in Timers /\ new # None /\ new.start = start /\ new.end = reply.end
             /\ new.timely => new.due + Lag < new.start
             /\ now <= new.due + Lag
             /\ new.due <= now \/ new.due <= new.start - Lead + Lag
             /\ start - Lead <= reply.index => new.due = now
  <2>1. SUFFICES ASSUME set
                 PROVE  /\ new \in Timers /\ new # None /\ new.start = start
                        /\ new.end = reply.end
                        /\ new.timely => new.due + Lag < new.start
                        /\ now <= new.due + Lag
                        /\ new.due <= now \/ new.due <= new.start - Lead + Lag
                        /\ start - Lead <= reply.index => new.due = now
    OBVIOUS
  <2>2. reply.end \in Ends /\ watch.reply = reply
    BY <1>5, <1>8, <2>1
  <2> HIDE DEF reply, start, set
  <2> QED BY <1>3, <1>6, <2>2, TimerIs, NoneIsNothing
<1>10. EndIndex' = EndIndex /\ Bound' = Bound /\ (EndSleeps' <=> EndSleeps)
       /\ (Acting' <=> Acting)
  BY <1>1 DEF EndIndex, Bound, EndSleeps, Acting
<1>11. heard' \in Nat /\ heard' < now /\ heard' # None
  BY <1>2, <1>3, <1>4, NoneIsNothing
<1>12. pending' = pending \/ (set /\ pending' = new)
  BY <1>2
<1>13. Typed'
  <2>1. seen' \in Nat
    BY <1>2, <1>3, <1>5 DEF Typed, GrainsTyped
  <2>2. FlagsTyped' /\ BusTyped' /\ GrainsTyped'
    BY <1>1, <1>3, <2>1 DEF Typed, FlagsTyped, BusTyped, GrainsTyped
  <2>3. pending' \in Timers \cup {None}
    BY <1>3, <1>9, <1>12 DEF Typed, LoopTyped
  <2>4. LoopTyped' /\ EndsTyped' /\ ClipTyped'
    BY <1>1, <1>3, <1>7, <1>11, <2>3 DEF Typed, LoopTyped, EndsTyped, ClipTyped
  <2> QED BY <2>2, <2>4 DEF Typed
<1>14. Watching'
  BY <1>1, <1>3, <1>7, <1>11 DEF Watching
<1>15. Counted'
  <2>1. set => /\ done <= new.end /\ new.end <= Bound /\ done < new.end
    <3>1. set => /\ done <= reply.end /\ reply.end <= Bound
      BY <1>2, <1>8 DEF IInv, Counted
    <3>2. done \in Nat
      BY <1>3 DEF Typed, GrainsTyped
    <3> QED BY <1>5, <1>8, <1>9, <3>1, <3>2
  <2>2. pending' # None => done' < pending'.end /\ pending'.end <= Bound'
    <3>1. CASE pending' = pending
      BY <1>1, <1>10, <3>1 DEF IInv, Counted
    <3>2. CASE set /\ pending' = new
      BY <1>1, <1>10, <2>1, <3>2
    <3> QED BY <1>12, <3>1, <3>2
  <2> QED BY <1>1, <1>7, <1>10, <2>2 DEF IInv, Counted
<1>16. Follows'
  BY <1>1, <1>10 DEF IInv, Follows
<1>17. Timed'
  <2>1. pending' # None =>
          /\ pending'.timely => pending'.due + Lag < pending'.start
          /\ ~EndSleeps' => now' <= pending'.due + Lag
          /\ pending'.due <= now' \/ pending'.due <= pending'.start - Lead + Lag
    <3>1. CASE pending' = pending
      BY <1>1, <1>10, <3>1 DEF IInv, Timed
    <3>2. CASE set /\ pending' = new
      BY <1>1, <1>9, <3>2
    <3> QED BY <1>12, <3>1, <3>2
  <2>2. eng'.held # None /\ eng'.held.goal # 0 =>
          eng'.held.goal = eng'.held.at /\ eng'.held.at > now'
    BY <1>1 DEF IInv, Timed
  <2> QED BY <1>1, <1>11, <2>1, <2>2 DEF IInv, Timed
<1>18. Crossed'
  <2>1. SUFFICES ASSUME ~crossed PROVE Crossed'
    BY <1>1 DEF Crossed
  <2>2. pending' # None => running' /\ EndIndex' = pending'.end
    <3>1. CASE pending' = pending
      BY <1>1, <1>10, <2>1, <3>1 DEF IInv, Crossed
    <3>2. CASE set /\ pending' = new
      BY <1>1, <1>2, <1>8, <1>9, <1>10, <2>1, <3>2 DEF IInv, Crossed
    <3> QED BY <1>12, <3>1, <3>2
  <2>3. fired' # None => running' /\ program' = Clip /\ EndIndex' = fired'.end
    BY <1>1, <1>10, <2>1 DEF IInv, Crossed
  <2>4. \A w \in asleep' : w.end # None => running' /\ program' = Clip /\ EndIndex' = w.end
    BY <1>1, <1>10, <2>1 DEF IInv, Crossed
  <2> QED BY <1>7, <2>2, <2>3, <2>4 DEF Crossed
<1>19. ReplyTells'
  BY <1>7 DEF ReplyTells
<1>20. Awaited'
  <2>1. Since' = Since
    BY <1>1 DEF Since, Later
  <2>2. EndStart(clip.end)' = EndStart(clip.end)
    BY <1>1 DEF EndStart, EndAction
  <2>3. SUFFICES ASSUME Waiting', Since + Grace <= clip.end + Late, ~(watch.read <= Since)
                 PROVE  /\ pending' # None /\ pending'.start = EndStart(clip.end)
                        /\ pending'.due <= Since + Poll + 2 * Lag
    BY <1>1, <1>7, <2>1, <2>2 DEF Awaited, Grace
  <2>4. /\ running /\ clip.state = "ended" /\ seen' = clip.end /\ EndAction # "off"
        /\ fired = None /\ asleep = {} /\ done # clip.end
    BY <1>1, <2>3 DEF Waiting, EndAction
  <2>5. Since \in Nat /\ clip.end <= Since /\ clip.end \in Nat /\ clip.end >= 1
    BY <1>3, <2>4, SinceIs DEF Typed, ClipTyped, Clips
  <2>6. reply.end = clip.end /\ reply.state = "ended"
    <3>1. reply.index >= clip.end
      BY <1>3, <1>4, <2>3, <2>5
    <3> QED BY <1>2, <2>4, <3>1 DEF IInv, ReplyTells
  <2>7. seen = clip.end
    BY <1>2, <2>4, <2>6
  <2>8. Waiting
    BY <2>4, <2>7 DEF Waiting
  <2>9. CASE watch.read <= Since + Poll + Lag
    <3>1. clip.end + 1 - reply.index <= 0 /\ start <= clip.end + 1
      BY <1>3, <1>4, <1>6, <2>3, <2>5, <2>6
    <3>2. within
      BY <1>3, <1>4, <1>6, <2>5, <3>1, Consts
    <3>3. reply.end >= reply.index - Late
      <4>1. reply.index <= clip.end + Late
        BY <1>3, <1>4, <2>3, <2>5, <2>9, Consts DEF Grace
      <4> QED BY <1>3, <1>4, <2>5, <2>6, <4>1, Consts
    <3>4. Wanted(reply)
      BY <2>4, <2>5, <2>6, <2>7, <3>3 DEF Wanted
    <3>5. start = EndStart(clip.end)
      BY <2>6
    <3>6. now <= Since + Poll + 2 * Lag
      BY <1>3, <1>4, <2>5, <2>9, Consts
    <3>7. CASE same
      <4>1. pending' = pending /\ pending # None /\ pending.start = start
        BY <1>2, <3>7
      <4>2. pending.due \in Nat
        BY <1>3, <4>1 DEF Typed, LoopTyped, Timers
      <4>3. pending.due <= now \/ pending.due <= start - Lead + Lag
        BY <4>1 DEF IInv, Timed
      <4> HIDE DEF start
      <4>4. pending.due <= Since + Poll + 2 * Lag
        <5>1. CASE pending.due <= now
          BY <1>3, <2>5, <3>6, <4>2, <5>1, Consts
        <5>2. CASE pending.due <= start - Lead + Lag
          <6>1. start <= Since + 1
            BY <1>6, <2>5, <3>1
          <6>2. start - Lead + Lag <= Since
            BY <1>6, <2>5, <6>1, Consts
          <6> QED BY <1>6, <2>5, <4>2, <5>2, <6>2, Consts
        <5> QED BY <4>3, <5>1, <5>2
      <4> QED BY <3>5, <4>1, <4>4
    <3>8. CASE ~same
      <4>1. set
        BY <3>2, <3>4, <3>8
      <4>2. pending' = new
        BY <1>2, <4>1
      <4>3. start - Lead <= reply.index
        BY <1>3, <1>4, <1>6, <2>5, <3>1, Consts
      <4>4. new.due = now
        BY <1>9, <4>1, <4>3
      <4> QED BY <1>9, <3>5, <3>6, <4>1, <4>2, <4>4
    <3> QED BY <3>7, <3>8
  <2>10. CASE ~(watch.read <= Since + Poll + Lag)
    <3>1. /\ pending # None /\ pending.start = EndStart(clip.end)
          /\ pending.due <= Since + Poll + 2 * Lag
      BY <2>3, <2>8, <2>10 DEF IInv, Awaited
    <3>2. pending' = pending
      BY <1>2, <2>6, <3>1
    <3> QED BY <3>1, <3>2
  <2> QED BY <2>9, <2>10
<1> QED BY <1>13, <1>14, <1>15, <1>16, <1>17, <1>18, <1>19, <1>20 DEF IInv

\* An action that is decided: what a timer that runs off finds.
LEMMA DueIs ==
    ASSUME IInv, Due, running, EndAction # "off"
    PROVE  /\ pending # None /\ pending \in Timers /\ pending.end \in Nat /\ pending.end >= 1
           /\ ~Acting /\ fired = None /\ ~EndSleeps
           /\ program = Clip /\ preview \in Sources /\ preview # Clip
           /\ done < pending.end /\ pending.end <= Bound
           /\ ends[pending.end] = 0 /\ pending.end \in Ends
           /\ now <= pending.due + Lag
           /\ heard # None
<1>1. Typed /\ now \in Nat /\ done \in Nat
  BY BoundIs DEF IInv, Typed, GrainsTyped
<1>2. pending # None /\ ~Acting /\ fired = None /\ ~EndSleeps
  BY DEF Due, Acting
<1>3. pending \in Timers /\ pending.end \in Ends
  BY <1>1, <1>2 DEF Typed, LoopTyped, Timers
<1>4. pending.end \in Nat /\ pending.end >= 1
  BY <1>3, Consts DEF Ends
<1>5. program = Clip /\ preview # Clip /\ preview \in Sources
  BY <1>1 DEF EndAction, Typed, BusTyped
<1>6. done < pending.end /\ pending.end <= Bound
  BY <1>2 DEF IInv, Counted
<1>7. ends[pending.end] = 0
  BY <1>3, <1>6 DEF IInv, Counted
<1>8. now <= pending.due + Lag /\ heard # None
  BY <1>2 DEF IInv, Timed
<1> QED BY <1>2, <1>3, <1>4, <1>5, <1>6, <1>7, <1>8

\* The action is decided for an end that was not acted on, in time for its take.
LEMMA FireKeeps == IInv /\ Fire => IInv'
<1> SUFFICES ASSUME IInv, Fire PROVE IInv'
  OBVIOUS
<1> DEFINE timely == pending.timely /\ pending.start = EndStart(pending.end)
           e == pending.end
           new == [action |-> EndAction, start |-> pending.start, end |-> e, due |-> pending.due,
                   timely |-> timely, incoming |-> None, at |-> None]
<1>1. /\ now' = now /\ clip' = clip /\ aired' = aired /\ eng' = eng /\ running' = running
      /\ program' = program /\ preview' = preview /\ mix' = mix /\ onEnd' = onEnd
      /\ until' = until /\ playable' = playable /\ heard' = heard /\ pending' = None
      /\ seen' = seen /\ asleep' = asleep /\ ends' = ends /\ crossed' = crossed
      /\ lastCall' = lastCall /\ watch' = watch /\ done' = e /\ fired' = new
      /\ running /\ Due /\ EndAction # "off"
  BY DEF Fire, engine, buses, watcher, Noted
<1>2. Typed /\ now \in Nat /\ done \in Nat
  BY BoundIs DEF IInv, Typed, GrainsTyped
<1>3. /\ pending # None /\ pending \in Timers /\ e \in Nat /\ ~Acting /\ ~EndSleeps
      /\ program = Clip /\ preview \in Sources /\ preview # Clip
      /\ done < e /\ e <= Bound /\ ends[e] = 0 /\ e \in Ends
      /\ now <= pending.due + Lag /\ heard # None
  BY <1>1, DueIs
<1>4. EndAction \in Actions /\ EndStart(e) <= e + 1
  <2>1. EndAction \in Actions
    BY <1>2 DEF EndAction, Actions, Typed, FlagsTyped
  <2> QED BY <1>3, <2>1, EndStartIs
<1>5. new \in Firings /\ new # None
  <2>1. timely \in BOOLEAN
    OBVIOUS
  <2>2. new \in Firings
    BY <1>3, <1>4, <2>1 DEF Firings, Timers
  <2> QED BY <2>2, NoneIsNothing
<1>6. /\ new.end = e /\ new.due = pending.due /\ new.start = pending.start
      /\ new.incoming = None
      /\ new.timely => pending.timely /\ pending.start = EndStart(e)
  OBVIOUS
<1>7. new.timely => new.due + Lag < new.start /\ new.start <= new.end + 1
  BY <1>3, <1>4, <1>6 DEF IInv, Timed
<1>8. ~crossed => EndIndex = e
  BY <1>3 DEF IInv, Crossed
<1>9. watch.reply # None /\ watch.reply.end # 0 =>
        e <= watch.reply.end /\ watch.reply.end <= Bound
  BY <1>3 DEF IInv, Counted
<1> HIDE DEF new, e, timely
<1>10. EndIndex' = EndIndex /\ Bound' = Bound /\ (EndSleeps' <=> EndSleeps)
  BY <1>1 DEF EndIndex, Bound, EndSleeps
<1>11. Typed'
  <2>1. FlagsTyped' /\ BusTyped' /\ GrainsTyped'
    BY <1>1, <1>2, <1>3 DEF Typed, FlagsTyped, BusTyped, GrainsTyped
  <2>2. LoopTyped' /\ EndsTyped' /\ ClipTyped'
    BY <1>1, <1>2, <1>5 DEF Typed, LoopTyped, EndsTyped, ClipTyped
  <2> QED BY <2>1, <2>2 DEF Typed
<1>12. Watching' /\ ReplyTells'
  <2>1. Watching'
    BY <1>1 DEF IInv, Watching
  <2>2. ReplyTells'
    BY <1>1 DEF IInv, ReplyTells
  <2> QED BY <2>1, <2>2
<1>13. Counted'
  <2>1. \A g \in Ends : ends'[g] <= 1 /\ (g > done' => ends'[g] = 0)
    <3> SUFFICES ASSUME NEW g \in Ends PROVE ends'[g] <= 1 /\ (g > done' => ends'[g] = 0)
      OBVIOUS
    <3>1. g \in Nat /\ ends[g] <= 1 /\ (g > done => ends[g] = 0)
      BY Consts DEF IInv, Counted, Ends
    <3>2. g > e => g > done
      BY <1>2, <1>3, <3>1
    <3> QED BY <1>1, <3>1, <3>2
  <2>2. \A w \in asleep' : w.end = None
    BY <1>1, <1>3 DEF EndSleeps
  <2>3. fired'.end <= done' /\ ends'[fired'.end] = 0 /\ ~EndSleeps'
    BY <1>1, <1>3, <1>6, <1>10
  <2> QED BY <1>1, <1>3, <1>9, <1>10, <2>1, <2>2, <2>3 DEF Counted
<1>14. Follows'
  <2>1. fired'.incoming # Clip
    BY <1>1, <1>6, NoneIsNothing DEF Sources
  <2>2. \A w \in asleep' : w.end = None
    BY <1>1, <1>3 DEF EndSleeps
  <2> QED BY <1>1, <1>3, <2>1, <2>2 DEF IInv, Follows
<1>15. Timed'
  BY <1>1, <1>3, <1>6, <1>7 DEF IInv, Timed
<1>16. Crossed'
  BY <1>1, <1>3, <1>6, <1>8, <1>10 DEF IInv, Crossed, EndSleeps
<1>17. Awaited'
  BY <1>1, <1>5 DEF Awaited, Waiting
<1> QED BY <1>11, <1>12, <1>13, <1>14, <1>15, <1>16, <1>17 DEF IInv

\* What an action works on, once it was decided.
LEMMA FiredIs ==
    ASSUME IInv, fired # None
    PROVE  /\ fired \in Firings /\ fired.end \in Ends /\ fired.end \in Nat /\ fired.end >= 1
           /\ fired.start \in Int /\ fired.due \in Nat /\ fired.timely \in BOOLEAN
           /\ fired.at \in Nat \cup {None} /\ fired.incoming \in Sources \cup {None}
           /\ fired.end <= done /\ ends[fired.end] = 0 /\ ~EndSleeps /\ Acting
           /\ fired.timely => now < fired.start /\ fired.start <= fired.end + 1
<1>1. fired \in Firings /\ now \in Nat
  BY BoundIs DEF IInv, Typed, LoopTyped
<1>2. /\ fired.end \in Ends /\ fired.start \in Int /\ fired.due \in Nat
      /\ fired.timely \in BOOLEAN /\ fired.at \in Nat \cup {None}
      /\ fired.incoming \in Sources \cup {None}
  BY <1>1 DEF Firings
<1>3. fired.end \in Nat /\ fired.end >= 1
  BY <1>2, Consts DEF Ends
<1>4. fired.end <= done /\ ends[fired.end] = 0 /\ ~EndSleeps /\ Acting
  BY DEF IInv, Counted, Acting
<1>5. /\ now <= fired.due + Lag
      /\ fired.timely => fired.due + Lag < fired.start /\ fired.start <= fired.end + 1
  BY DEF IInv, Timed
<1>6. fired.timely => now < fired.start
  BY <1>1, <1>2, <1>5, Consts
<1> QED BY <1>1, <1>2, <1>3, <1>4, <1>5, <1>6

\* What to take is read: in time, its grain is the one it starts in.
LEMMA AimKeeps == IInv /\ Aim => IInv'
<1> SUFFICES ASSUME IInv, Aim PROVE IInv'
  OBVIOUS
<1> DEFINE at == HeldFor(fired.start)
           new == [fired EXCEPT !.incoming = preview, !.at = at]
<1>1. /\ now' = now /\ clip' = clip /\ aired' = aired /\ eng' = eng /\ running' = running
      /\ program' = program /\ preview' = preview /\ mix' = mix /\ onEnd' = onEnd
      /\ until' = until /\ playable' = playable /\ heard' = heard /\ pending' = pending
      /\ seen' = seen /\ asleep' = asleep /\ ends' = ends /\ crossed' = crossed
      /\ lastCall' = lastCall /\ watch' = watch /\ done' = done /\ fired' = new
      /\ fired # None
  BY DEF Aim, engine, buses, watcher
<1>2. Typed /\ Watching /\ now \in Nat /\ preview \in Sources
  BY BoundIs DEF IInv, Typed, BusTyped
<1>3. /\ fired \in Firings /\ fired.start \in Int
      /\ fired.timely => now < fired.start
  BY <1>1, FiredIs
<1>4. at \in Nat \cup {None} /\ (heard # None /\ fired.start > now => at = fired.start)
  <2> DEFINE g == fired.start
  <2>1. g \in Int
    BY <1>3
  <2> HIDE DEF g
  <2>2. HeldFor(g) \in Nat \cup {None} /\ (heard # None /\ g > now => HeldFor(g) = g)
    BY <1>2, <2>1, HeldForIs
  <2> QED BY <2>2 DEF g
<1> HIDE DEF at
<1>5. /\ new \in Firings /\ new.incoming = preview /\ new.at = at
      /\ new.end = fired.end /\ new.start = fired.start /\ new.due = fired.due
      /\ new.timely = fired.timely
  BY <1>2, <1>3, <1>4 DEF Firings
<1>6. new # None
  BY <1>5, NoneIsNothing
<1> HIDE DEF new
<1>7. /\ EndIndex' = EndIndex /\ Bound' = Bound /\ (EndSleeps' <=> EndSleeps)
      /\ Acting /\ Acting'
  BY <1>1, <1>6 DEF EndIndex, Bound, EndSleeps, Acting
<1>8. Typed'
  <2>1. FlagsTyped' /\ BusTyped' /\ GrainsTyped'
    BY <1>1, <1>2 DEF Typed, FlagsTyped, BusTyped, GrainsTyped
  <2>2. LoopTyped' /\ EndsTyped' /\ ClipTyped'
    BY <1>1, <1>2, <1>5 DEF Typed, LoopTyped, EndsTyped, ClipTyped
  <2> QED BY <2>1, <2>2 DEF Typed
<1>9. Watching' /\ ReplyTells'
  <2>1. Watching'
    BY <1>1 DEF IInv, Watching
  <2>2. ReplyTells'
    BY <1>1 DEF IInv, ReplyTells
  <2> QED BY <2>1, <2>2
<1>10. Counted'
  BY <1>1, <1>5, <1>7 DEF IInv, Counted
<1>11. Follows'
  BY <1>1, <1>5, <1>7 DEF IInv, Follows
<1>12. Timed'
  <2>1. running /\ fired.timely => at = fired.start
    BY <1>1, <1>3, <1>4 DEF IInv, Timed
  <2> QED BY <1>1, <1>5, <1>7, <2>1 DEF IInv, Timed
<1>13. Crossed'
  BY <1>1, <1>5, <1>7 DEF IInv, Crossed
<1>14. Awaited'
  BY <1>1, <1>6 DEF Awaited, Waiting
<1> QED BY <1>8, <1>9, <1>10, <1>11, <1>12, <1>13, <1>14 DEF IInv

\* A take that was decided before leaves nothing to wait for.
LEMMA LateKeeps ==
    ASSUME IInv, Typed', now' = now, clip' = clip, watch' = watch, MadeLate
    PROVE  Awaited'
<1>1. SUFFICES ASSUME clip.state = "ended" PROVE watch'.read <= Since'
  BY DEF Awaited, Waiting
<1>2. lastCall' = now /\ now \in Nat
  BY <1>1, BoundIs DEF MadeLate, IInv
<1>3. clip'.end \in Nat /\ mix' \in Nat
  BY DEF Typed, ClipTyped, Clips, GrainsTyped
<1>4. Later(mix', now) \in Nat /\ now <= Later(mix', now)
  BY <1>2, <1>3, LaterIs
<1>5. Later(clip'.end, Later(mix', now)) \in Nat
      /\ Later(mix', now) <= Later(clip'.end, Later(mix', now))
  BY <1>3, <1>4, LaterIs
<1>6. Since' = Later(clip'.end, Later(mix', now))
  BY <1>2 DEF Since, Later
<1>7. watch.read \in Nat /\ watch.read <= now
  BY DEF IInv, Watching, Typed, LoopTyped
<1> QED BY <1>2, <1>4, <1>5, <1>6, <1>7

\* A take of an end action: for end `e`, by the thread that decided it (f) or that slept.
EndTake(e, src, flip, frames, at, goal) ==
    /\ Put(src, flip, frames, at, goal) /\ Sent(e) /\ MadeLate
    /\ fired' = None /\ asleep' \subseteq asleep /\ (\A w \in asleep' : w.end = None)
    /\ until' \in Nat /\ (crossed' <=> crossed)
    /\ UNCHANGED <<now, clip, aired, running, onEnd, playable, watcher, done>>

\* The take is made, and the lock is free.
LEMMA EndTakeKeeps ==
    ASSUME IInv, NEW e \in Ends, NEW src \in Sources, NEW flip \in BOOLEAN, NEW frames \in Nat,
           NEW at \in Nat \cup {None}, NEW goal \in Nat, EndTake(e, src, flip, frames, at, goal),
           ends[e] = 0, e <= done,
           running => eng.held = None \/ (flip /\ program # src),
           running /\ at # None /\ goal # 0 => goal = at /\ at > now
    PROVE  IInv' /\ (running /\ at # None => eng'.held # None)
<1>1. /\ now' = now /\ clip' = clip /\ aired' = aired /\ running' = running
      /\ onEnd' = onEnd /\ playable' = playable /\ heard' = heard /\ watch' = watch
      /\ seen' = seen /\ (crossed' <=> crossed) /\ done' = done /\ fired' = None
      /\ (\A w \in asleep' : w \in asleep /\ w.end = None)
      /\ ends' = [ends EXCEPT ![e] = @ + 1] /\ until' \in Nat /\ MadeLate
  BY DEF EndTake, watcher, Sent
<1>2. Typed /\ now \in Nat /\ done \in Nat /\ ends \in [Ends -> Nat] /\ Follows
  BY BoundIs DEF IInv, Typed, GrainsTyped, EndsTyped
<1>3. Put(src, flip, frames, at, goal)
  BY DEF EndTake
<1>4. running /\ at # None => eng.held = None \/ (flip /\ program # src)
  OBVIOUS
<1>5. e # None /\ e \in Nat
  BY NoneIsNothing, Consts DEF Ends
<1>6. /\ BusTyped' /\ program' = src /\ pending' = None /\ mix' \in Nat
      /\ running => HeldMade(eng').program = program' /\ HeldMade(eng').preview = preview'
      /\ running /\ at = None => eng'.held = None
      /\ running /\ at # None =>
           eng'.held # None /\ eng'.held.goal = goal /\ eng'.held.at = at
      /\ ~running => eng' = eng
  BY <1>2, <1>3, <1>4, PutIs
<1>7. \A g \in Ends : ends'[g] = IF g = e THEN 1 ELSE ends[g]
  BY <1>1, <1>2
<1>8. ends' \in [Ends -> Nat]
  BY <1>1, <1>2
<1>9. EndIndex' = EndIndex /\ Bound' = Bound /\ ~EndSleeps' /\ ~Acting'
  BY <1>1 DEF EndIndex, Bound, EndSleeps, Acting
<1>10. Typed'
  <2>1. lastCall' \in Nat
    BY <1>1, <1>2 DEF MadeLate, Typed, GrainsTyped
  <2>2. FlagsTyped' /\ GrainsTyped'
    BY <1>1, <1>2, <1>6, <2>1 DEF Typed, FlagsTyped, GrainsTyped
  <2>3. LoopTyped' /\ EndsTyped' /\ ClipTyped'
    BY <1>1, <1>2, <1>6, <1>8 DEF Typed, LoopTyped, EndsTyped, ClipTyped
  <2> QED BY <1>6, <2>2, <2>3 DEF Typed
<1>11. Watching' /\ ReplyTells'
  <2>1. Watching'
    BY <1>1 DEF IInv, Watching
  <2>2. ReplyTells'
    BY <1>1 DEF IInv, ReplyTells
  <2> QED BY <2>1, <2>2
<1>12. Counted'
  <2>1. \A g \in Ends : ends'[g] <= 1 /\ (g > done' => ends'[g] = 0)
    <3> SUFFICES ASSUME NEW g \in Ends PROVE ends'[g] <= 1 /\ (g > done' => ends'[g] = 0)
      OBVIOUS
    <3>1. g \in Nat /\ ends[g] <= 1 /\ (g > done => ends[g] = 0)
      BY Consts DEF IInv, Counted, Ends
    <3>2. g = e => ~(g > done)
      BY <1>2, <1>5, <3>1
    <3> QED BY <1>1, <1>7, <3>1, <3>2
  <2>2. watch'.reply # None /\ watch'.reply.end # 0 =>
          done' <= watch'.reply.end /\ watch'.reply.end <= Bound'
    BY <1>1, <1>9 DEF IInv, Counted
  <2>3. done' <= Bound'
    BY <1>1, <1>9 DEF IInv, Counted
  <2> QED BY <1>1, <1>6, <2>1, <2>2, <2>3 DEF Counted
<1>13. Follows'
  BY <1>1, <1>2, <1>6, <1>9 DEF Follows
<1>14. Timed'
  <2>1. eng'.held # None /\ eng'.held.goal # 0 =>
          eng'.held.goal = eng'.held.at /\ eng'.held.at > now'
    BY <1>1, <1>6 DEF IInv, Timed
  <2> QED BY <1>1, <1>6, <2>1 DEF Timed
<1>15. Crossed'
  BY <1>1, <1>6, <1>9 DEF IInv, Crossed
<1>16. Awaited'
  BY <1>1, <1>10, LateKeeps
<1> QED BY <1>6, <1>10, <1>11, <1>12, <1>13, <1>14, <1>15, <1>16 DEF IInv

\* The end action's stinger waits for its player, with the lock.
ActSleep ==
    /\ fired # None /\ fired.incoming # None /\ fired' = None
    /\ Sleep(fired.incoming, TRUE, fired.at, fired.end)
    /\ UNCHANGED <<now, clip, aired, running, onEnd, playable, watcher, done, crossed, lastCall,
                   ends>>

LEMMA ActSleepKeeps == IInv /\ ActSleep => IInv'
<1> SUFFICES ASSUME IInv, ActSleep PROVE IInv'
  OBVIOUS
<1> DEFINE e == fired.end
           src == fired.incoming
           at == fired.at
           w0 == [source |-> src, flip |-> TRUE, at |-> at, end |-> e]
<1>1. /\ now' = now /\ clip' = clip /\ aired' = aired /\ running' = running
      /\ onEnd' = onEnd /\ playable' = playable /\ heard' = heard /\ watch' = watch
      /\ seen' = seen /\ crossed' = crossed /\ lastCall' = lastCall /\ ends' = ends
      /\ program' = program /\ preview' = preview /\ mix' = mix /\ eng' = eng
      /\ pending' = pending /\ until' = until /\ done' = done
      /\ fired' = None /\ fired # None /\ src # None /\ asleep' = asleep \cup {w0}
  BY DEF ActSleep, Sleep, watcher, buses
<1>2. Typed /\ now \in Nat /\ done \in Nat
  BY BoundIs DEF IInv, Typed, GrainsTyped
<1>3. /\ e \in Ends /\ e <= done /\ ends[e] = 0 /\ ~EndSleeps /\ Acting
      /\ src \in Sources /\ at \in Nat \cup {None}
  BY <1>1, FiredIs
<1>4. w0 \in Sleepers /\ w0.end = e /\ w0.source = src /\ w0.flip
  BY <1>3 DEF Sleepers
<1>5. e # None
  BY <1>3, NoneIsNothing DEF Ends
<1>6. running /\ eng.held # None => program = Clip /\ preview # Clip /\ src # Clip
  BY <1>1, <1>3 DEF IInv, Follows
<1>7. ~crossed => running /\ program = Clip /\ EndIndex = e
  BY <1>1 DEF IInv, Crossed
<1> HIDE DEF e, src, at, w0
<1>8. EndIndex' = EndIndex /\ Bound' = Bound /\ EndSleeps' /\ Acting'
  BY <1>1, <1>4, <1>5 DEF EndIndex, Bound, EndSleeps, Acting
<1>9. \A w \in asleep' : w.end # None => w = w0
  BY <1>1, <1>3 DEF EndSleeps
<1>10. Typed'
  <2>1. FlagsTyped' /\ BusTyped' /\ GrainsTyped'
    BY <1>1, <1>2 DEF Typed, FlagsTyped, BusTyped, GrainsTyped
  <2>2. LoopTyped' /\ EndsTyped' /\ ClipTyped'
    BY <1>1, <1>2, <1>4 DEF Typed, LoopTyped, EndsTyped, ClipTyped
  <2> QED BY <2>1, <2>2 DEF Typed
<1>11. Watching' /\ ReplyTells'
  <2>1. Watching'
    BY <1>1 DEF IInv, Watching
  <2>2. ReplyTells'
    BY <1>1 DEF IInv, ReplyTells
  <2> QED BY <2>1, <2>2
<1>12. Counted'
  <2>1. \A w \in asleep' : w.end # None => w.end <= done' /\ ends'[w.end] = 0
    BY <1>1, <1>3, <1>4, <1>9
  <2>2. \A v, w \in asleep' : v.end # None /\ w.end # None => v = w
    BY <1>9
  <2> QED BY <1>1, <1>8, <2>1, <2>2 DEF IInv, Counted
<1>13. Follows'
  <2>1. \A w \in asleep' : /\ w.end = None => w.at = None
                           /\ w.end # None => w.flip
    BY <1>1, <1>4, <1>5, <1>9 DEF IInv, Follows
  <2>2. running' /\ eng'.held # None /\ Acting' =>
          /\ program' = Clip /\ preview' # Clip
          /\ \A w \in asleep' : w.end # None => w.source # Clip
    BY <1>1, <1>4, <1>6, <1>9
  <2> QED BY <1>1, <2>1, <2>2 DEF IInv, Follows
<1>14. Timed'
  BY <1>1, <1>8 DEF IInv, Timed
<1>15. Crossed'
  BY <1>1, <1>4, <1>7, <1>8, <1>9 DEF IInv, Crossed
<1>16. Awaited'
  BY <1>1, <1>4 DEF Awaited, Waiting
<1> QED BY <1>10, <1>11, <1>12, <1>13, <1>14, <1>15, <1>16 DEF IInv

\* The thread of an end action takes: nothing it relies on was falsified by a call before it, and
\* with Program still running what was in time is held.
LEMMA ActKeeps ==
    IInv /\ Act => /\ IInv'
                   /\ asleep' = asleep /\ ends' # ends /\ running /\ fired.timely
                        => eng'.held # None
<1> SUFFICES ASSUME IInv, Act
             PROVE  /\ IInv'
                    /\ asleep' = asleep /\ ends' # ends /\ running /\ fired.timely
                         => eng'.held # None
  OBVIOUS
<1> DEFINE e == fired.end
           src == fired.incoming
           over == e + 1
           timely == fired.timely
           start == fired.start
           goal == IF timely THEN start ELSE 0
           stingGoal == StingGoal(fired)
           cutGoal == CutGoal(fired)
           at == fired.at
           cutAt == HeldFor(over)
           none == 0
           flip == TRUE
<1>1. /\ Typed /\ Watching /\ now \in Nat /\ fired # None /\ src # None /\ fired' = None
      /\ UNCHANGED <<now, clip, aired, running, onEnd, playable, watcher, done, crossed>>
  BY BoundIs DEF IInv, Act
<1>2. /\ e \in Ends /\ e \in Nat /\ e <= done /\ ends[e] = 0 /\ ~EndSleeps /\ Acting
      /\ src \in Sources /\ at \in Nat \cup {None} /\ start \in Int
      /\ timely \in BOOLEAN
      /\ timely => now < start /\ start <= over
  BY <1>1, FiredIs
<1>3. none \in Nat /\ StingFrames \in Nat /\ Rate \in Nat /\ Margin \in Nat /\ until \in Nat
  BY <1>1, Consts DEF Typed, GrainsTyped
<1>4. running => eng.held = None \/ (flip /\ program # src)
  BY <1>1, <1>2 DEF IInv, Follows
<1>5. /\ running => heard # None
      /\ running /\ timely => at = start
  BY <1>1 DEF IInv, Timed
<1>6. cutGoal = IF timely THEN over ELSE 0
  BY DEF CutGoal
<1>7. stingGoal \in {0, goal} /\ stingGoal \in Nat
  BY <1>1, <1>2 DEF StingGoal
<1>8. \/ /\ Put(src, flip, none, cutAt, cutGoal)
         /\ Sent(e) /\ MadeLate /\ UNCHANGED <<until, asleep>>
      \/ /\ Put(src, flip, Rate, at, goal)
         /\ Sent(e) /\ MadeLate /\ UNCHANGED <<until, asleep>>
      \/ /\ PlayStinger(src, flip, at, stingGoal)
         /\ Sent(e) /\ MadeLate /\ UNCHANGED asleep
      \/ /\ Sleep(src, TRUE, at, e) /\ UNCHANGED <<ends, lastCall>>
  BY DEF Act
<1>9. over \in Nat /\ over \in Int /\ flip \in BOOLEAN
  BY <1>2
<1>10. CASE Sleep(src, TRUE, at, e) /\ UNCHANGED <<ends, lastCall>>
  <2>1. ActSleep
    BY <1>1, <1>10 DEF ActSleep
  <2>2. ends' = ends
    BY <1>10
  <2> QED BY <2>1, <2>2, ActSleepKeeps
<1> HIDE DEF over, timely, start
<1>11. goal \in Nat /\ cutGoal \in Nat
  BY <1>1, <1>2, <1>6, <1>9
<1>12. /\ cutAt \in Nat \cup {None} /\ cutAt \in {over, None} /\ GrainsUntil(at) \in Nat
       /\ heard # None /\ over > now => cutAt = over
  BY <1>1, <1>2, <1>9, HeldForIs, GrainsUntilIs
<1>13. running /\ timely => at # None /\ cutAt # None /\ cutAt = over /\ over > now
  BY <1>1, <1>2, <1>5, <1>9, <1>12, NoneIsNothing
<1>14. \A w \in asleep : w.end = None
  BY <1>2 DEF EndSleeps
<1> HIDE DEF goal, cutGoal, stingGoal, at, cutAt, none, e, src, flip
<1>15. running /\ at # None /\ goal # 0 => goal = at /\ at > now
  BY <1>1, <1>2, <1>5 DEF goal
<1>16. running /\ cutAt # None /\ cutGoal # 0 => cutGoal = cutAt /\ cutAt > now
  BY <1>1, <1>6, <1>13
<1>17. CASE /\ Put(src, flip, none, cutAt, cutGoal)
            /\ Sent(e) /\ MadeLate /\ UNCHANGED <<until, asleep>>
  <2>1. EndTake(e, src, flip, none, cutAt, cutGoal)
    BY <1>1, <1>3, <1>14, <1>17 DEF EndTake
  <2> QED BY <1>2, <1>3, <1>4, <1>9, <1>11, <1>12, <1>13, <1>16, <2>1, EndTakeKeeps DEF timely
<1>18. CASE /\ Put(src, flip, Rate, at, goal)
            /\ Sent(e) /\ MadeLate /\ UNCHANGED <<until, asleep>>
  <2>1. EndTake(e, src, flip, Rate, at, goal)
    BY <1>1, <1>3, <1>14, <1>18 DEF EndTake
  <2> QED BY <1>2, <1>3, <1>4, <1>9, <1>11, <1>13, <1>15, <2>1, EndTakeKeeps DEF timely
<1>19. CASE /\ PlayStinger(src, flip, at, stingGoal)
            /\ Sent(e) /\ MadeLate /\ UNCHANGED asleep
  <2>1. until' \in Nat
    BY <1>1, <1>3, <1>12, <1>19 DEF PlayStinger
  <2>2. EndTake(e, src, flip, StingFrames, at, stingGoal)
    BY <1>1, <1>14, <1>19, <2>1 DEF EndTake, PlayStinger
  <2>3. running /\ at # None /\ stingGoal # 0 => stingGoal = at /\ at > now
    BY <1>7, <1>15
  <2> QED BY <1>2, <1>3, <1>4, <1>7, <1>9, <1>13, <2>2, <2>3, EndTakeKeeps DEF timely
<1> QED BY <1>8, <1>10, <1>17, <1>18, <1>19

\* A take that slept is made.
WakePut(w, frames, at) ==
    /\ asleep' = asleep \ {w}
    /\ Put(w.source, w.flip, frames, at, 0)
    /\ until' \in Nat
    /\ IF w.end = None THEN UNCHANGED ends ELSE Sent(w.end)
    /\ crossed' = (crossed \/ (w.end = None /\ Acting)) /\ MadeLate
    /\ UNCHANGED <<now, clip, aired, running, onEnd, playable, watcher, fired, done>>

\* The stinger of an end action.
LEMMA WakeEndKeeps ==
    ASSUME IInv, NEW w \in asleep, NEW frames \in Nat, NEW at \in Nat \cup {None},
           w.end # None, WakePut(w, frames, at)
    PROVE  IInv'
<1> DEFINE e == w.end
           src == w.source
           flip == w.flip
           goal == 0
<1>1. w \in Sleepers /\ EndSleeps /\ Acting
  BY DEF IInv, Typed, EndsTyped, EndSleeps, Acting
<1>2. e \in Ends /\ src \in Sources /\ goal \in Nat
  BY <1>1 DEF Sleepers
<1>3. e <= done /\ ends[e] = 0 /\ fired = None /\ w.flip
  BY <1>1 DEF IInv, Counted, Follows
<1>4. flip \in BOOLEAN /\ flip
  BY <1>1, <1>3 DEF Sleepers
<1>5. running => eng.held = None \/ (flip /\ program # src)
  BY <1>1, <1>4 DEF IInv, Follows
<1>6. \A v \in asleep' : v.end = None
  <2> SUFFICES ASSUME NEW v \in asleep' PROVE v.end = None
    OBVIOUS
  <2>1. v \in asleep /\ v # w
    BY DEF WakePut
  <2> QED BY <2>1 DEF IInv, Counted
<1>7. EndTake(e, src, flip, frames, at, goal)
  BY <1>3, <1>6 DEF EndTake, WakePut
<1>8. goal = 0
  OBVIOUS
<1> HIDE DEF e, src, flip, goal
<1> QED BY <1>2, <1>3, <1>4, <1>5, <1>7, <1>8, EndTakeKeeps

\* The stinger of the operator: it may cross an end action.
LEMMA WakeCallKeeps ==
    ASSUME IInv, NEW w \in asleep, NEW frames \in Nat,
           w.end = None, WakePut(w, frames, None)
    PROVE  IInv'
<1> DEFINE src == w.source
           flip == w.flip
           goal == 0
           at == None
<1>1. /\ now' = now /\ clip' = clip /\ aired' = aired /\ running' = running
      /\ onEnd' = onEnd /\ playable' = playable /\ heard' = heard /\ watch' = watch
      /\ seen' = seen /\ fired' = fired /\ done' = done /\ asleep' = asleep \ {w}
      /\ until' \in Nat /\ ends' = ends /\ MadeLate
      /\ crossed' = (crossed \/ Acting)
  BY DEF WakePut, watcher
<1>2. Typed /\ now \in Nat /\ done \in Nat /\ Follows
  BY BoundIs DEF IInv, Typed, GrainsTyped
<1>3. w \in Sleepers
  BY <1>2 DEF Typed, EndsTyped
<1>4. src \in Sources /\ flip \in BOOLEAN /\ goal \in Nat /\ at \in Nat \cup {None} /\ at = None
  BY <1>3 DEF Sleepers
<1>5. Put(src, flip, frames, at, goal)
  BY DEF WakePut
<1>6. \A v \in asleep' : v \in asleep
  BY <1>1
<1>7. (EndSleeps' <=> EndSleeps) /\ (Acting' <=> Acting)
  BY <1>1 DEF EndSleeps, Acting
<1> HIDE DEF src, flip, goal, at
<1>8. /\ BusTyped' /\ program' = src /\ pending' = None /\ mix' \in Nat
      /\ running => HeldMade(eng').program = program' /\ HeldMade(eng').preview = preview'
      /\ running => eng'.held = None
      /\ ~running => eng' = eng
  <2>1. running /\ at # None => eng.held = None \/ (flip /\ program # src)
    BY <1>4
  <2> QED BY <1>2, <1>4, <1>5, <2>1, PutIs
<1>9. EndIndex' = EndIndex /\ Bound' = Bound
  BY <1>1 DEF EndIndex, Bound
<1>10. Typed'
  <2>1. lastCall' \in Nat
    BY <1>1, <1>2 DEF MadeLate, Typed, GrainsTyped
  <2>2. FlagsTyped' /\ GrainsTyped'
    BY <1>1, <1>2, <1>8, <2>1 DEF Typed, FlagsTyped, GrainsTyped
  <2>3. LoopTyped' /\ EndsTyped' /\ ClipTyped'
    BY <1>1, <1>2, <1>8 DEF Typed, LoopTyped, EndsTyped, ClipTyped
  <2> QED BY <1>8, <2>2, <2>3 DEF Typed
<1>11. Watching' /\ ReplyTells'
  <2>1. Watching'
    BY <1>1 DEF IInv, Watching
  <2>2. ReplyTells'
    BY <1>1 DEF IInv, ReplyTells
  <2> QED BY <2>1, <2>2
<1>12. Counted'
  BY <1>1, <1>6, <1>7, <1>8, <1>9 DEF IInv, Counted
<1>13. Follows'
  BY <1>1, <1>6, <1>8 DEF IInv, Follows
<1>14. Timed'
  BY <1>1, <1>8 DEF IInv, Timed
<1>15. Crossed'
  <2>1. SUFFICES ASSUME ~crossed' PROVE Crossed'
    BY DEF Crossed
  <2>2. ~crossed /\ fired' = None /\ \A v \in asleep' : v.end = None
    BY <1>1, <2>1 DEF Acting, EndSleeps
  <2> QED BY <1>1, <1>8, <1>9, <2>2 DEF IInv, Crossed
<1>16. Awaited'
  BY <1>1, <1>10, LateKeeps
<1> QED BY <1>10, <1>11, <1>12, <1>13, <1>14, <1>15, <1>16 DEF IInv

LEMMA WakePutKeeps ==
    ASSUME IInv, NEW w \in asleep, NEW frames \in Nat, NEW at \in Nat \cup {None},
           w.end = None => at = None, WakePut(w, frames, at)
    PROVE  IInv'
<1>1. CASE w.end # None
  BY <1>1, WakeEndKeeps
<1>2. CASE w.end = None
  <2>1. WakePut(w, frames, None)
    BY <1>2
  <2> QED BY <1>2, <2>1, WakeCallKeeps
<1> QED BY <1>1, <1>2

LEMMA WakeKeeps == ASSUME IInv, NEW w \in asleep, Wake(w) PROVE IInv'
<1> DEFINE over == w.end + 1
           at == IF w.end = None THEN None ELSE HeldFor(over)
           held == w.at
           none == 0
<1>1. Typed /\ Watching /\ w \in Sleepers /\ now \in Nat /\ until \in Nat
  BY BoundIs DEF IInv, Typed, EndsTyped, GrainsTyped
<1>2. held \in Nat \cup {None} /\ w.end \in Ends \cup {None}
  BY <1>1 DEF Sleepers
<1>3. w.end = None => held = None
  BY DEF IInv, Follows
<1>4. at \in Nat \cup {None} /\ (w.end = None => at = None)
  <2>1. CASE w.end = None
    BY <2>1
  <2>2. CASE w.end # None
    <3>1. over \in Int
      BY <1>2, <2>2, Consts DEF Ends
    <3> HIDE DEF over
    <3> QED BY <1>1, <2>2, <3>1, HeldForIs
  <2> QED BY <2>1, <2>2
<1>5. none \in Nat /\ StingFrames \in Nat /\ Margin \in Nat /\ GrainsUntil(held) \in Nat
  BY <1>1, <1>2, GrainsUntilIs, Consts
<1>6. /\ asleep' = asleep \ {w}
      /\ IF Free THEN PlayStinger(w.source, w.flip, held, 0)
         ELSE Put(w.source, w.flip, none, at, 0) /\ UNCHANGED until
      /\ IF w.end = None THEN UNCHANGED ends ELSE Sent(w.end)
      /\ crossed' = (crossed \/ (w.end = None /\ Acting)) /\ MadeLate
      /\ UNCHANGED <<now, clip, aired, running, onEnd, playable, watcher, fired, done>>
  BY DEF Wake
<1> HIDE DEF at, held, none
<1>7. CASE Free
  <2>1. until' \in Nat
    BY <1>1, <1>5, <1>6, <1>7 DEF PlayStinger
  <2>2. WakePut(w, StingFrames, held)
    BY <1>6, <1>7, <2>1 DEF WakePut, PlayStinger
  <2> QED BY <1>2, <1>3, <1>5, <2>2, WakePutKeeps
<1>8. CASE ~Free
  <2>1. WakePut(w, none, at)
    BY <1>1, <1>6, <1>8 DEF WakePut
  <2> QED BY <1>4, <1>5, <2>1, WakePutKeeps
<1> QED BY <1>7, <1>8

-----------------------------------------------------------------------------
LEMMA StepHolds == IInv /\ [Next]_vars => IInv'
<1> SUFFICES ASSUME IInv, [Next]_vars PROVE IInv'
  OBVIOUS
<1>1. ASSUME NEW skip \in 0..1, Grain(skip) PROVE IInv'
  BY <1>1, GrainKeeps
<1>2. CASE Read \/ Judge \/ FireNothing \/ Fire \/ Aim \/ Act
  BY <1>2, ReadKeeps, JudgeKeeps, FireNothingKeeps, FireKeeps, AimKeeps, ActKeeps
<1>3. ASSUME NEW src \in Sources, NEW flip \in BOOLEAN, Take(src, flip) PROVE IInv'
  BY <1>3, TakeKeeps
<1>4. ASSUME NEW src \in Sources, Stinger(src) \/ SetPreview(src) PROVE IInv'
  BY <1>4, StingerKeeps, SetPreviewKeeps
<1>5. ASSUME NEW command \in {"play", "pause", "stop"}, Transport(command) PROVE IInv'
  BY <1>5, TransportKeeps
<1>6. ASSUME NEW action \in Actions, SetOnEnd(action) PROVE IInv'
  BY <1>6, SetOnEndKeeps
<1>7. ASSUME NEW w \in asleep, Wake(w) PROVE IInv'
  BY <1>7, WakeKeeps
<1>8. CASE Mix \/ Load \/ Convert \/ StopProgram \/ StartProgram
  BY <1>8, MixKeeps, LoadKeeps, ConvertKeeps, StopProgramKeeps, StartProgramKeeps
<1>9. CASE UNCHANGED vars
  <2>1. /\ now' = now /\ clip' = clip /\ aired' = aired /\ eng' = eng /\ running' = running
        /\ program' = program /\ preview' = preview /\ mix' = mix /\ onEnd' = onEnd
        /\ until' = until /\ playable' = playable /\ heard' = heard /\ pending' = pending
        /\ seen' = seen /\ fired' = fired /\ done' = done /\ asleep' = asleep
        /\ ends' = ends /\ crossed' = crossed
        /\ lastCall' = lastCall /\ watch' = watch
    BY <1>9 DEF vars, engine, buses, watcher
  <2>2. Typed'
    BY <2>1 DEF IInv, Typed, FlagsTyped, BusTyped, GrainsTyped, LoopTyped, EndsTyped, ClipTyped
  <2>3. Watching' /\ Counted' /\ Follows'
    BY <2>1 DEF IInv, Watching, Counted, Follows, Bound, EndSleeps, Acting
  <2>4. Timed' /\ Crossed' /\ ReplyTells'
    BY <2>1 DEF IInv, Timed, Crossed, ReplyTells, EndSleeps, EndIndex
  <2>5. Awaited'
    BY <2>1 DEF IInv, Awaited, Waiting, EndAction, Since, Later, EndStart
  <2> QED BY <2>2, <2>3, <2>4, <2>5 DEF IInv
<1> QED BY <1>1, <1>2, <1>3, <1>4, <1>5, <1>6, <1>7, <1>8, <1>9 DEF Next

LEMMA Invariance == Spec => []IInv
BY InitHolds, StepHolds, PTL DEF Spec

\* What the invariant says of the ends.
LEMMA EndsFollow == IInv => EndsInv
<1> SUFFICES ASSUME IInv PROVE EndsInv
  OBVIOUS
<1>1. TypeOK
  BY DEF IInv, Typed, FlagsTyped, BusTyped, GrainsTyped, LoopTyped, ClipTyped, Clips, Buses, TypeOK
<1>2. OncePerEnd
  BY DEF IInv, Typed, EndsTyped, Counted, OncePerEnd
<1>3. EngineFollows
  BY DEF IInv, Follows, HeldMade, EngineFollows
<1> QED BY <1>1, <1>2, <1>3 DEF EndsInv

LEMMA MissedFollows == IInv => NoEndMissed
<1> SUFFICES ASSUME IInv, Waiting, Since + Grace <= clip.end + Late PROVE ~(now > Since + Grace)
  BY DEF NoEndMissed, Since, Waiting
<1>1. Typed /\ now \in Nat /\ watch.read \in Nat /\ Since \in Nat
  BY BoundIs, SinceIs DEF IInv, Typed, LoopTyped
<1>2. now <= watch.read + Poll + Lag
  BY DEF IInv, Watching, Waiting
<1>3. ~EndSleeps
  BY DEF Waiting, EndSleeps
<1>4. CASE watch.read <= Since
  BY <1>1, <1>2, <1>4, Consts DEF Grace
<1>5. CASE watch.reply # None /\ watch.read <= Since + Poll + Lag
  <2>1. now <= watch.read + Lag
    BY <1>5 DEF IInv, Watching
  <2> QED BY <1>1, <1>5, <2>1, Consts DEF Grace
<1>6. CASE pending # None /\ pending.due <= Since + Poll + 2 * Lag
  <2>1. now <= pending.due + Lag
    BY <1>3, <1>6 DEF IInv, Timed
  <2>2. pending.due \in Nat
    BY <1>1, <1>6 DEF Typed, LoopTyped, Timers
  <2> QED BY <1>1, <1>6, <2>1, <2>2, Consts DEF Grace
<1> QED BY <1>4, <1>5, <1>6 DEF IInv, Awaited

\* Only a grain moves time, and only an end action that is sent counts an end.
LEMMA StepIs ==
    ASSUME [Next]_vars
    PROVE  \/ \E skip \in 0..1 : Grain(skip) /\ ends' = ends
           \/ Act /\ now' = now
           \/ \E w \in asleep : Wake(w) /\ now' = now
           \/ now' = now /\ ends' = ends
<1>1. ASSUME NEW skip \in 0..1, Grain(skip) PROVE ends' = ends
  BY <1>1 DEF Grain
<1>2. CASE Read \/ Judge \/ FireNothing \/ Fire \/ Aim
  BY <1>2 DEF Read, Judge, FireNothing, Fire, Aim
<1>3. Act => now' = now
  BY DEF Act
<1>4. ASSUME NEW src \in Sources, NEW flip \in BOOLEAN, Take(src, flip)
      PROVE  now' = now /\ ends' = ends
  BY <1>4 DEF Take
<1>5. ASSUME NEW src \in Sources, Stinger(src) \/ SetPreview(src)
      PROVE  now' = now /\ ends' = ends
  BY <1>5 DEF Stinger, SetPreview
<1>6. ASSUME NEW command \in {"play", "pause", "stop"}, Transport(command)
      PROVE  now' = now /\ ends' = ends
  BY <1>6 DEF Transport
<1>7. ASSUME NEW action \in Actions, SetOnEnd(action) PROVE now' = now /\ ends' = ends
  BY <1>7 DEF SetOnEnd
<1>8. ASSUME NEW w \in asleep, Wake(w) PROVE now' = now
  BY <1>8 DEF Wake
<1>9. CASE Mix \/ Load \/ Convert \/ StopProgram \/ StartProgram
  BY <1>9 DEF Mix, Load, Convert, StopProgram, StartProgram
<1>10. CASE UNCHANGED vars
  BY <1>10 DEF vars
<1> QED BY <1>1, <1>2, <1>3, <1>4, <1>5, <1>6, <1>7, <1>8, <1>9, <1>10 DEF Next

\* A held take is made in the grain it was held for; one in time is held.
GrainStep ==
    /\ now' = now + 1 /\ eng.held # None /\ eng'.held = None => eng.held.goal \in {0, now'}
    /\ ends' # ends /\ asleep' = asleep /\ running /\ fired # None /\ fired.timely
        => eng'.held # None

EndStep ==
    \A g \in DOMAIN ends : ends'[g] # ends[g] /\ ~crossed => program = Clip /\ EndIndex = g

\* The take of an end action in time is held.
LEMMA ActHolds ==
    ASSUME IInv, Act, asleep' = asleep, ends' # ends, running, fired.timely
    PROVE  eng'.held # None
BY ActKeeps

LEMMA GrainStepHolds == IInv /\ [Next]_vars => GrainStep
<1> SUFFICES ASSUME IInv, [Next]_vars PROVE GrainStep
  OBVIOUS
<1>1. now \in Nat
  BY BoundIs DEF IInv
<1>2. ASSUME NEW skip \in 0..1, Grain(skip), ends' = ends PROVE GrainStep
  <2>1. SUFFICES ASSUME now' = now + 1, eng.held # None, eng'.held = None, eng.held.goal # 0
                 PROVE  eng.held.goal = now'
    BY <1>2 DEF GrainStep
  <2>2. now' = now + 1 + skip
    BY <1>2 DEF Grain
  <2>3. skip = 0
    BY <1>1, <2>1, <2>2
  <2>4. eng.held.at <= now + 1
    BY <1>1, <1>2, <2>1, <2>3 DEF Grain
  <2>5. eng.held.goal = eng.held.at /\ eng.held.at > now
    BY <2>1 DEF IInv, Timed
  <2>6. eng.held.at \in Nat
    BY <2>1 DEF IInv, Typed, BusTyped, Buses, Held
  <2> QED BY <1>1, <2>1, <2>4, <2>5, <2>6
<1>3. CASE Act /\ now' = now
  BY <1>1, <1>3, ActHolds DEF GrainStep
<1>4. ASSUME NEW w \in asleep, Wake(w), now' = now PROVE GrainStep
  <2>1. asleep' # asleep
    BY <1>4 DEF Wake
  <2> QED BY <1>1, <1>4, <2>1 DEF GrainStep
<1>5. CASE now' = now /\ ends' = ends
  BY <1>1, <1>5 DEF GrainStep
<1> QED BY <1>2, <1>3, <1>4, <1>5, StepIs

LEMMA EndStepHolds == IInv /\ [Next]_vars => EndStep
<1> SUFFICES ASSUME IInv, [Next]_vars PROVE EndStep
  OBVIOUS
<1>1. ends \in [Ends -> Nat]
  BY DEF IInv, Typed, EndsTyped
<1>2. ASSUME ends' = ends PROVE EndStep
  BY <1>2 DEF EndStep
<1>3. CASE Act
  <2>1. fired # None /\ fired.end \in Ends
    BY <1>3 DEF Act, IInv, Typed, LoopTyped, Firings
  <2>2. ends' = ends \/ ends' = [ends EXCEPT ![fired.end] = @ + 1]
    BY <1>3 DEF Act, Sent
  <2>3. ~crossed => program = Clip /\ EndIndex = fired.end
    BY <2>1 DEF IInv, Crossed
  <2> QED BY <1>1, <2>1, <2>2, <2>3 DEF EndStep
<1>4. ASSUME NEW w \in asleep, Wake(w) PROVE EndStep
  <2>1. CASE w.end = None
    BY <1>2, <1>4, <2>1 DEF Wake
  <2>2. CASE w.end # None
    <3>1. ends' = [ends EXCEPT ![w.end] = @ + 1]
      BY <1>4, <2>2 DEF Wake, Sent
    <3>2. ~crossed => program = Clip /\ EndIndex = w.end
      BY <2>2 DEF IInv, Crossed
    <3> QED BY <1>1, <3>1, <3>2 DEF EndStep
  <2> QED BY <2>1, <2>2
<1> QED BY <1>2, <1>3, <1>4, StepIs

\* Each end of the clip takes Program once, whatever reads, timers, sleeping takes and calls come
\* between, and the engine's buses are the control plane's when it holds no take.
THEOREM EndsHold == Spec => []EndsInv
BY Invariance, EndsFollow, PTL

\* A clip that was seen playing on Program and ended there is acted on within Grace of its end,
\* its transition or the operator's last call, for every Poll, Lead, Horizon and Lag of
\* GrainAssumption.
THEOREM NoneMissed == Spec => []NoEndMissed
BY Invariance, MissedFollows, PTL

\* An end action in time is made in its grain, and only for the end the clip on Program comes to,
\* or a call crossed it.
THEOREM TakesHold == Spec => TakesAreDue
<1>1. IInv /\ [Next]_vars => [GrainStep]_vars /\ [EndStep]_vars
  BY GrainStepHolds, EndStepHolds
<1>2. Spec => [][GrainStep]_vars /\ [][EndStep]_vars
  BY <1>1, Invariance, PTL DEF Spec
<1>3. OnItsGrain <=> [][GrainStep]_vars
  BY DEF OnItsGrain, GrainStep
<1>4. OnlyAtItsEnd <=> [][EndStep]_vars
  BY DEF OnlyAtItsEnd, EndStep
<1> QED BY <1>2, <1>3, <1>4 DEF TakesAreDue

=============================================================================
