------------------------------- MODULE Panels -------------------------------
(* The control plane's side of one ME (engine/mixer.py): the buses, the      *)
(* T-bar and a tied keyer as FlowXer keeps them, the calls of the API and of *)
(* hardware levers that change them and then tell the engine, and the engine *)
(* as far as those commands move it.  Calls run in a pool of threads without *)
(* a lock: what a call does up to its command to the engine is one step, the *)
(* command and the rest another.  Mixer is the engine's side in detail.      *)
EXTENDS Naturals, Sequences, FiniteSets, SequencesExt

CONSTANTS
  Sources,     \* the sources of the buses
  Levers,      \* hardware levers, told apart by their source
  Calls,       \* threads of the API
  Full,        \* the T-bar's end; 0 and Full stand for what is within TBAR_DEADBAND
  TbarSources, \* TBAR_SOURCES
  Types,       \* the types of a transition: mix (also for a wipe) or stinger
  None,        \* a model value
  Uses,        \* sets of operations and levers, one of which is used (a bound)
  MaxEvents    \* bound on stops, starts, deaths of the engine and lost commands

ASSUME PanelsAssumption ==
  /\ Sources # {} /\ None \notin Sources \cup Levers
  /\ Full \in Nat \ {0} /\ TbarSources \in Nat \ {0}
  /\ Types \subseteq {"mix", "stinger"} /\ Types # {} /\ MaxEvents \in Nat

VARIABLES
  panel,    \* the ME as the control plane has it
  next,     \* its next transition: type, BKGD, the keyer tied
  running,  \* the mixer is on air
  engine,   \* the ME as the engine has it, None while it takes no commands
  call,     \* each API thread's call: its command to the engine and the rest
  apart,    \* (history) why the engine may differ since it was last pushed (Reasons)
  been,     \* (history) the one place a lever was at since the T-bar's end changed,
            \* None before it is seen, Full + 1 once it has moved
  events,   \* (bound)
  used      \* (bound)

vars == <<panel, next, running, engine, call, apart, been, events, used>>

ready == engine # None

At == 0 .. Full
Other(end) == IF end = "top" THEN "bottom" ELSE "top"

\* A lever at v, as progress from the end it rests at.
Progress(v, end) == IF end = "top" THEN v ELSE Full - v
RestsAt(end) == Progress(0, end)

-----------------------------------------------------------------------------
(* The control plane's ME: record to record, as the handlers call it *)

\* (Bug: a hardware lever counts without coming to the new end.)
FlipKeepsPicks(p) == [p EXCEPT !.end = Other(@)]

\* _flip_tbar(), with _arm_lever_pickup().
Flip(p) == [p EXCEPT !.end = Other(@), !.picked = << >>, !.last = [l \in Levers |-> None]]

\* _take_ties(): the tied keyer goes to its other state.
TakeTies(p, tied) == IF tied THEN [p EXCEPT !.key = ~@] ELSE p

EndHeldTies(p) == [TakeTies(p, p.heldTies) EXCEPT !.heldTies = FALSE]

\* The buses of _put_on_program(): `swap' puts the old Program on Preview.  (A
\* mix that ends by time is left out: its red sources are ClipEnds' matter.)
ToProgram(p, source, swap) ==
  [p EXCEPT !.program = source,
            !.preview = IF swap /\ p.program # source THEN p.program ELSE @,
            !.mix = {}]

\* A held T-bar transition that ends, as if it had run to its end.
Complete(p, in) == ToProgram(EndHeldTies(p), in, p.preview = in)

\* A held transition that ends.
Finished(p) == Complete(Flip([p EXCEPT !.held = None]), p.held.in)

\* _put_on_program(): a held transition ends first.
Put(p, source, swap) == ToProgram(IF p.held = None THEN p ELSE Finished(p), source, swap)

\* The sources the tally has red on this ME: Program, and both of a held mix.
Red(p) == {p.program} \cup p.mix

-----------------------------------------------------------------------------
(* The engine's ME, as far as the control plane's commands move it: what a   *)
(* command does is made by the next grain, which is part of it.              *)

\* How a running transition moves the tied keyer: its new state is set now (a
\* mix), at the stinger's cut point, or not at all.
Ties(type, tied) == IF ~tied THEN "no" ELSE IF type = "stinger" THEN "cut" ELSE "now"

\* A running transition ends; at the T-bar's 0 as if it had not begun.
Ended(e) ==
  IF e.mix = None THEN e
  ELSE [e EXCEPT !.program = e.mix.target,
                 !.preview = IF e.mix.after = None THEN @ ELSE e.mix.after,
                 !.key = IF e.mix.tie = "cut" THEN ~@ ELSE @, !.mix = None]
Back(e) ==
  IF e.mix = None THEN e ELSE [e EXCEPT !.key = IF e.mix.tie = "now" THEN ~@ ELSE @, !.mix = None]

Mixes(e, target, after, manual, tie) ==
  [e EXCEPT !.mix = [target |-> target, after |-> after, manual |-> manual, tie |-> tie],
            !.key = IF tie = "now" THEN ~@ ELSE @]

\* POST /me/n/take
Takes(e, source, after, kind, ties) ==
  LET f == Ended(e)
      tied == ties /\ f.next.tied
  IN IF kind = "cut"
     THEN [f EXCEPT !.program = source, !.preview = IF after = None THEN @ ELSE after,
                    !.key = IF tied THEN ~@ ELSE @]
     ELSE Mixes(f, source, after, FALSE, Ties(kind, tied))

\* The engine's own Auto: the rest of a held transition, else its next one (a
\* stinger without a player is a cut).
Autos(e) ==
  IF e.mix # None THEN [e EXCEPT !.mix.manual = FALSE]
  ELSE Takes(e, e.preview, e.program, IF e.next.type = "stinger" THEN "cut" ELSE e.next.type, TRUE)

\* POST /me/n/position and /auto: refused (409) while a transition runs by itself.
Refuses(e, c) == c.op \in {"position", "auto"} /\ e.mix # None /\ ~e.mix.manual

Positioned(e, t) ==
  LET on == IF e.mix # None THEN e
            ELSE Mixes(e, e.preview, e.program, TRUE, Ties("mix", e.next.tied))
  IN IF t = 0 THEN Back(e)
     ELSE IF e.mix = None /\ e.next.type = "stinger" THEN Autos(e)
     ELSE IF t = Full THEN Ended(on) ELSE on

\* POST /me/n/preview: the operator's choice wins over the swap of a running mix.
Previewed(e, s) ==
  [e EXCEPT !.preview = s, !.mix = IF @ = None THEN @ ELSE [@ EXCEPT !.after = None]]

\* A keyer's own command takes it out of its tie where it is.
Keyed(e, on) == [e EXCEPT !.key = on, !.mix = IF @ = None THEN @ ELSE [@ EXCEPT !.tie = "no"]]

Does(e, c) ==
  CASE Refuses(e, c)       -> e
    [] c.op = "take"       -> Takes(e, c.source, c.preview, c.kind, c.ties)
    [] c.op = "preview"    -> Previewed(e, c.source)
    [] c.op = "position" /\ ~Refuses(e, c) -> Positioned(e, c.t)
    [] c.op = "auto" /\ ~Refuses(e, c)     -> Autos(e)
    [] c.op = "transition" -> [e EXCEPT !.next = c.next]
    [] c.op = "key"        -> Keyed(e, c.on)
    [] c.op = "keyAuto"    -> Keyed(e, ~e.key)

\* Why what the control plane says and what the engine does part.  A keyer's own
\* command during a transition that ties it, and a Preview chosen while the T-bar
\* holds, are understood differently by the two.
Reasons == {"raced", "refused", "lost", "untied", "rechosen"}
Parts(e, c) ==
  (IF Refuses(e, c) THEN {"refused"} ELSE {})
  \cup (IF c.op \in {"key", "keyAuto"} /\ e.mix # None /\ e.mix.tie # "no" THEN {"untied"} ELSE {})
  \cup (IF c.op = "preview" /\ e.mix # None /\ e.mix.manual /\ c.source = e.mix.target
        THEN {"rechosen"} ELSE {})

\* _on_engine_ready(): a new engine has the buses and keyers of the control plane.
Pushed(p, n) ==
  [program |-> p.program, preview |-> p.preview, key |-> p.key, mix |-> None,
   next |-> [type |-> n.type, tied |-> n.tied]]

-----------------------------------------------------------------------------
(* Calls.  The record of a call: its command to the engine, what follows it, *)
(* and the lever that makes it.                                              *)

NoCall == [command |-> None, rest |-> [do |-> "none"], lever |-> None]

Free(c) == running /\ call[c] = NoCall

\* The call's first step: the panel as it leaves it, `command' and `rest' to come.
\* With another call under way the two may race.
Begins(c, p, command, rest, lever) ==
  /\ panel' = p
  /\ call' = [call EXCEPT ![c] = [command |-> command, rest |-> rest, lever |-> lever]]
  /\ apart' = IF \A d \in Calls : call[d] = NoCall THEN apart ELSE apart \cup {"raced"}
  /\ UNCHANGED <<running, engine, events>>

\* _put_on_program(): `ties' and `flips' say what follows the command.
Puts(c, p, source, swap, kind, ties, flips, lever) ==
  LET from == IF p.held = None THEN p ELSE Finished(p)
  IN Begins(c, Put(p, source, swap),
            [op |-> "take", source |-> source, kind |-> kind, ties |-> ties /\ next.tied,
             preview |-> IF swap /\ from.program # source THEN from.program ELSE None],
            [do |-> "ties", tied |-> ties /\ next.tied, flips |-> flips], lever)

\* A stinger that cannot play (it converts, every player is busy) is a cut.
Kinds(type) == IF type = "stinger" THEN {"stinger", "cut"} ELSE {type}

\* take(): to Program directly.
TakeCall(c) ==
  /\ Free(c)
  /\ \E s \in Sources, kind \in {"cut", "mix", "stinger"} :
       Puts(c, panel, s, FALSE, kind, FALSE, FALSE, None)
  /\ next' = next

\* _keys_only(): with BKGD off the tied keyer's own cut or auto.
KeysOnly(c, p, auto, lever) ==
  Begins(c, [p EXCEPT !.key = ~@],
         IF auto THEN [op |-> "keyAuto"] ELSE [op |-> "key", on |-> ~p.key],
         [do |-> "ties", tied |-> FALSE, flips |-> auto], lever)

\* cut(): the source's stinger plays, or the one of an armed Wipe.
CutCall(c) ==
  /\ Free(c)
  /\ \/ ~next.background /\ KeysOnly(c, panel, FALSE, None)
     \/ /\ next.background
        /\ \E kind \in Kinds("stinger") : Puts(c, panel, panel.preview, TRUE, kind, TRUE, FALSE, None)
  /\ next' = next

\* fade(): a dissolve, without ties.
FadeCall(c) ==
  /\ Free(c) /\ Puts(c, panel, panel.preview, TRUE, "mix", FALSE, FALSE, None)
  /\ next' = next

\* _auto(): the rest of a held transition, else the next one; auto() then flips.
AutoOf(c, p, lever) ==
  \/ /\ p.held # None
     /\ Begins(c, [p EXCEPT !.held = None], [op |-> "auto"], [do |-> "rest", in |-> p.held.in], lever)
  \/ /\ p.held = None /\ ~next.background /\ KeysOnly(c, p, TRUE, lever)
  \/ /\ p.held = None /\ next.background
     /\ \E kind \in Kinds(next.type) : Puts(c, p, p.preview, TRUE, kind, TRUE, TRUE, lever)

AutoCall(c) == Free(c) /\ AutoOf(c, panel, None) /\ next' = next

\* set_preview()
PreviewCall(c) ==
  /\ Free(c)
  /\ \E s \in Sources : Begins(c, [panel EXCEPT !.preview = s], [op |-> "preview", source |-> s],
                               NoCall.rest, None)
  /\ next' = next

\* set_position(): off 0 the T-bar starts the next transition and holds it.
Scrubs(c, p, t, lever) ==
  LET starts == [p EXCEPT !.mix = {p.program, p.preview},
                          !.heldTies = next.tied]
      bar == [at |-> t, out |-> IF p.held = None THEN p.program ELSE p.held.out,
              in |-> IF p.held = None THEN p.preview ELSE p.held.in]
  IN Begins(c, IF p.held = None THEN starts ELSE p, [op |-> "position", t |-> t],
            [do |-> "bar", held |-> bar], lever)

Position(c, p, t, lever) ==
  LET auto == next.type = "stinger" \/ ~next.background
  IN \/ p.held = None /\ t > 0 /\ auto /\ AutoOf(c, p, lever)
     \/ p.held = None /\ t > 0 /\ ~auto /\ Scrubs(c, p, t, lever)
     \/ p.held # None /\ Scrubs(c, p, t, lever)

PositionCall(c) == Free(c) /\ (\E t \in At : Position(c, panel, t, None)) /\ next' = next

NextType == [type : Types, background : BOOLEAN, tied : BOOLEAN]

\* update_transition(): BKGD off needs the tie.
TransitionCall(c) ==
  /\ Free(c)
  /\ \E n \in NextType :
       /\ n.background \/ n.tied
       /\ next' = n
       /\ Begins(c, panel, [op |-> "transition", next |-> [type |-> n.type, tied |-> n.tied]],
                 NoCall.rest, None)

\* update_keyer(): on or off at the next frame.
KeyCall(c) ==
  /\ Free(c)
  /\ \E on \in BOOLEAN :
       Begins(c, [panel EXCEPT !.key = on], [op |-> "key", on |-> on], NoCall.rest, None)
  /\ next' = next

-----------------------------------------------------------------------------
(* Levers *)

Without(s, l) == IF l \in Range(s) THEN RemoveAt(s, CHOOSE i \in DOMAIN s : s[i] = l) ELSE s

\* (Bug: the lever that holds the transition may be the one that goes.)
PicksAny(p, l) ==
  LET full == l \notin Range(p.picked) /\ Len(p.picked) >= TbarSources
  IN [p EXCEPT !.picked = Append(IF full THEN Tail(@) ELSE Without(@, l), l)]

\* _pick_lever(): the least recently used one goes, never the one that drives
\* (alone it stays; there is no second then).
Picks(p, l) ==
  LET full == l \notin Range(p.picked) /\ Len(p.picked) >= TbarSources
      victim == IF p.held # None /\ Head(p.picked) = p.driver THEN 2 ELSE 1
  IN [p EXCEPT !.picked = Append(IF full THEN RemoveAt(@, victim) ELSE Without(@, l), l)]

\* Where a lever must come to be picked up: the end it rests at, or where the
\* transition is held.
Current(p) == Progress(IF p.held = None THEN 0 ELSE p.held.at, p.end)

Crossed(last, now, at) == last # None /\ ((last <= at /\ at <= now) \/ (now <= at /\ at <= last))

Counts(l, v) ==
  l \in Range(panel.picked) \/ v = Current(panel) \/ Crossed(panel.last[l], v, Current(panel))

\* set_lever() of a hardware lever that has not come to where the transition is.
LeverIgnored(l, v) ==
  /\ running /\ ~Counts(l, v)
  /\ panel' = [panel EXCEPT !.last[l] = v]
  /\ UNCHANGED <<next, running, engine, call, apart, events>>

\* A lever (of the GUI: None) at v: at the end it rests at it starts nothing.
Moves(c, p, l, v) ==
  LET t == Progress(v, p.end)
      lever == [who |-> l, v |-> v, t |-> t, end |-> p.end, before |-> IF p.held = None THEN 0 ELSE p.held.at]
  IN \/ /\ p.held = None /\ t = 0
        /\ panel' = p /\ UNCHANGED <<running, engine, call, apart, events>>
     \/ Position(c, p, t, lever)

\* ... of one that counts.
LeverCounts(c, l, v) ==
  /\ Free(c) /\ Counts(l, v) /\ next' = next
  /\ Moves(c, Picks([panel EXCEPT !.last[l] = IF l \in Range(panel.picked) THEN @ ELSE v], l), l, v)

\* ... of a GUI, whose drag began at the end it rests at.
LeverOfGui(c, v) == Free(c) /\ Moves(c, panel, None, v) /\ next' = next

\* What set_lever() does after set_position(): the lever that moved a held
\* transition drives it; one that completed it is at its new end already.
AfterLever(p, lever) ==
  IF lever = None THEN p
  ELSE LET hardware == lever.who # None
           drives == IF p.held = None THEN [p EXCEPT !.driver = None]
                     ELSE IF hardware /\ lever.t # lever.before THEN [p EXCEPT !.driver = lever.who]
                     ELSE p
       IN IF hardware /\ p.end # lever.end /\ lever.v = RestsAt(p.end)
          THEN Picks(drives, lever.who) ELSE drives

-----------------------------------------------------------------------------
(* The second step of a call: its command, and the rest *)

\* set_position() after the command.
AtBar(p, bar) ==
  CASE bar.at = Full -> Finished([p EXCEPT !.held = bar])
    [] bar.at = 0    -> [p EXCEPT !.held = None, !.mix = {}, !.heldTies = FALSE]
    [] OTHER         -> [p EXCEPT !.held = bar]

\* (Bug: an Auto from a held T-bar forgets the keyers tied to it.)
RestsForgetsTies(p, r) ==
  CASE r.do = "none" -> p
    [] r.do = "ties" -> IF r.flips THEN Flip(TakeTies(p, r.tied)) ELSE TakeTies(p, r.tied)
    [] r.do = "rest" -> Flip(Put(p, r.in, p.preview = r.in))
    [] r.do = "bar"  -> AtBar(p, r.held)

Rests(p, r) ==
  CASE r.do = "none" -> p
    [] r.do = "ties" -> IF r.flips THEN Flip(TakeTies(p, r.tied)) ELSE TakeTies(p, r.tied)
    [] r.do = "rest" -> Flip(Put(EndHeldTies(p), r.in, p.preview = r.in))
    [] r.do = "bar"  -> AtBar(p, r.held)

\* The command reaches the engine, if it is ready; an error is logged.
Tell(c) ==
  /\ call[c] # NoCall
  /\ \/ /\ ready
        /\ engine' = Does(engine, call[c].command)
        /\ apart' = apart \cup Parts(engine, call[c].command)
        /\ events' = events
     \/ ~ready /\ UNCHANGED <<engine, apart, events>>
     \/ /\ ready /\ events < MaxEvents
        /\ events' = events + 1 /\ apart' = apart \cup {"lost"} /\ engine' = engine
  /\ panel' = AfterLever(Rests(panel, call[c].rest), call[c].lever)
  /\ call' = [call EXCEPT ![c] = NoCall]
  /\ UNCHANGED <<next, running>>

-----------------------------------------------------------------------------
(* Time, and the engine's process *)

\* A transition that runs by itself ends in the engine; a stinger cuts the tied
\* keyer at its cut point.
EngineMoves(e) == engine' = e /\ UNCHANGED <<panel, next, running, call, apart, events>>
EngineEnds == ready /\ engine.mix # None /\ ~engine.mix.manual /\ EngineMoves(Ended(engine))
EngineCuts == /\ ready /\ engine.mix # None /\ engine.mix.tie = "cut"
              /\ EngineMoves([engine EXCEPT !.key = ~@, !.mix.tie = "no"])

\* start(): ME 1 on the buses asked for, else the saved ones; the engine starts.
Start == /\ ~running /\ running' = TRUE
         /\ \/ panel' = panel
            \/ \E s, t \in Sources : panel' = [panel EXCEPT !.program = s, !.preview = t]
         /\ UNCHANGED <<next, engine, call, apart, events>>

\* stop(): what the T-bar holds stays, the mixes the tally shows do not.
Stop == /\ running /\ events < MaxEvents /\ events' = events + 1
        /\ running' = FALSE /\ engine' = None
        /\ panel' = [panel EXCEPT !.mix = {}]
        /\ UNCHANGED <<next, call, apart>>

EngineDies == /\ ready /\ events < MaxEvents /\ events' = events + 1 /\ engine' = None
              /\ UNCHANGED <<panel, next, running, call, apart>>

\* (Bug: the T-bar's transition outlives the engine that held it.)
ReadyHolds(p) == [p EXCEPT !.picked = << >>, !.last = [l \in Levers |-> None]]

\* _on_engine_ready(): a new engine holds no transition.
Readied(p) == [p EXCEPT !.mix = {}, !.held = None,
                        !.heldTies = FALSE, !.picked = << >>, !.last = [l \in Levers |-> None]]

EngineReady == /\ running /\ ~ready
               /\ panel' = Readied(panel)
               /\ engine' = Pushed(panel', next)
               /\ apart' = IF \A c \in Calls : call[c] = NoCall THEN {} ELSE {"raced"}
               /\ UNCHANGED <<next, running, call, events>>

-----------------------------------------------------------------------------
Init ==
  /\ \E s, t \in Sources :
       panel = [program |-> s, preview |-> t, mix |-> {}, held |-> None, heldTies |-> FALSE,
                end |-> "top", key |-> FALSE, picked |-> << >>, last |-> [l \in Levers |-> None],
                driver |-> None]
  /\ next \in {n \in NextType : n.background \/ n.tied}
  /\ running = FALSE /\ engine = None
  /\ call = [c \in Calls |-> NoCall]
  /\ apart = {} /\ events = 0 /\ used \in Uses
  /\ been = [l \in Levers |-> None]

\* A lever is seen at v, or none.
Notes(l, v) ==
  LET old == IF panel'.end = panel.end THEN been ELSE [x \in Levers |-> None]
  IN been' = IF l = None THEN old ELSE [old EXCEPT ![l] = IF @ \in {None, v} THEN v ELSE Full + 1]

\* One that takes over a transition held elsewhere need not have moved.
NotesLever(l, v) ==
  IF panel.held # None /\ Counts(l, v) THEN been' = [been EXCEPT ![l] = Full + 1] ELSE Notes(l, v)

Operator(c) == \/ "take" \in used /\ TakeCall(c)
               \/ "cut" \in used /\ CutCall(c)
               \/ "fade" \in used /\ FadeCall(c)
               \/ "auto" \in used /\ AutoCall(c)
               \/ "preview" \in used /\ PreviewCall(c)
               \/ "position" \in used /\ PositionCall(c)
               \/ "transition" \in used /\ TransitionCall(c)
               \/ "key" \in used /\ KeyCall(c)
               \/ "gui" \in used /\ \E v \in At : LeverOfGui(c, v)

Hardware(l, v) == LeverIgnored(l, v) \/ \E c \in Calls : LeverCounts(c, l, v)

Clock == EngineEnds \/ EngineCuts \/ Start \/ Stop \/ EngineDies \/ EngineReady

Next ==
  /\ used' = used
  /\ \/ \E c \in Calls : Operator(c) /\ Notes(None, 0)
     \/ \E c \in Calls : LET l == call[c].lever
                        IN Tell(c) /\ IF l = None THEN Notes(None, 0) ELSE Notes(l.who, l.v)
     \/ \E l \in Levers \cap used, v \in At : Hardware(l, v) /\ NotesLever(l, v)
     \/ Clock /\ Notes(None, 0)

Spec == Init /\ [][Next]_vars

-----------------------------------------------------------------------------
(* Properties *)

Bar(positions) == [at : positions, out : Sources, in : Sources]
PanelType == [program : Sources, preview : Sources, key : BOOLEAN, heldTies : BOOLEAN,
              mix : SUBSET Sources, held : Bar(At \ {0, Full}) \cup {None},
              end : {"top", "bottom"}, picked : BoundedSeq(Levers, TbarSources + 1),
              last : [Levers -> At \cup {None}], driver : Levers \cup {None}]

MixType == [target : Sources, after : Sources \cup {None}, manual : BOOLEAN,
            tie : {"no", "now", "cut"}]
EngineNext == [type : Types, tied : BOOLEAN]
EngineType == [program : Sources, preview : Sources, key : BOOLEAN, next : EngineNext,
               mix : MixType \cup {None}]

CommandType ==
  [op : {"take"}, source : Sources, kind : {"cut", "mix", "stinger"}, ties : BOOLEAN,
   preview : Sources \cup {None}]
  \cup [op : {"preview"}, source : Sources] \cup [op : {"position"}, t : At]
  \cup [op : {"transition"}, next : EngineNext] \cup [op : {"key"}, on : BOOLEAN]
  \cup [op : {"auto", "keyAuto"}]
RestType ==
  [do : {"none"}] \cup [do : {"ties"}, tied : BOOLEAN, flips : BOOLEAN]
  \cup [do : {"rest"}, in : Sources] \cup [do : {"bar"}, held : Bar(At)]
LeverType == [who : Levers \cup {None}, v : At, t : At, end : {"top", "bottom"}, before : At]
CallType == [command : CommandType, rest : RestType, lever : LeverType \cup {None}]

\* None is none of the values it stands in for.
ASSUME NoneApart ==
  None \notin (0 .. Full + 1) \cup Bar(At) \cup MixType \cup EngineType \cup LeverType \cup CommandType

\* The states of the two MEs: a lever is remembered as picked at most once, and
\* one more than TBAR_SOURCES of them only beside the one that drives (mixer.py
\* _pick_lever).
TypeOK ==
  /\ panel \in PanelType /\ engine \in EngineType \cup {None} /\ next \in NextType
  /\ call \in [Calls -> CallType \cup {NoCall}]
  /\ IsInjective(panel.picked) /\ Len(panel.picked) <= TbarSources + 1
  /\ running \in BOOLEAN /\ apart \subseteq Reasons
  /\ events \in 0 .. MaxEvents /\ used \in Uses /\ been \in [Levers -> (0 .. Full + 1) \cup {None}]
  /\ ready => running

Quiet == \A c \in Calls : call[c] = NoCall

\* With no call under way the engine is where the control plane says, or will be
\* when its transition ends: whatever sequence of takes, T-bar moves, Autos,
\* keyer calls, restarts of the engine went before, the buses, the keyer and
\* what the T-bar holds agree - unless two calls raced, a command was lost or
\* refused, or one of two known differences was met (Reasons).
EngineFollows ==
  ready /\ Quiet /\ apart = {} =>
    /\ panel.held # None <=> engine.mix # None /\ engine.mix.manual
    /\ panel.held = None =>
         LET e == Ended(engine)
         IN e.program = panel.program /\ e.preview = panel.preview /\ e.key = panel.key
    /\ panel.held # None => engine.program = panel.held.out /\ engine.mix.target = panel.held.in

\* While the T-bar holds a transition, both sources it mixes on air are red in
\* the tally (_mixes, read by tally), also after a stop and a start in between.
AirIsRed ==
  ready /\ Quiet /\ apart = {} /\ panel.held # None /\ engine.mix # None =>
    {engine.program, engine.mix.target} \subseteq Red(panel)

\* A hardware lever starts a transition or fires an Auto only when it moved
\* since the T-bar's end last changed: a lever that sends its value again, or
\* was left where another console's Auto passed it, starts nothing (set_lever:
\* the pickup).
LeverMoved ==
  [][\A c \in Calls, l \in Levers :
       call[c] = NoCall /\ call'[c] # NoCall /\ panel.held = None
       /\ call'[c].lever # None /\ call'[c].lever.who = l
       => been[l] \notin {None, call'[c].lever.v}]_vars

\* Levers that come and go never take the T-bar from the one that holds a
\* transition with it: it keeps counting until the transition is done.
DriverKeepsCounting ==
  [][panel.held # None /\ panel'.held # None /\ "raced" \notin apart'
     /\ panel.driver \in Range(panel.picked) => panel.driver \in Range(panel'.picked)]_vars

\* mixer.py:2337-2338: "the flip makes the lever wait for the next drag (from_end)
\* or for its pickup, so one move fires one Auto."  Two values of one lever sent
\* without waiting for the first reply fire two: the second is let in before the
\* first has flipped the T-bar, and takes the shot back.
OneMoveOneAuto ==
  \A c, d \in Calls :
    c # d /\ call[c].lever # None /\ call[d].lever # None =>
      ~(/\ call[c].lever.who = call[d].lever.who /\ call[c].lever.who # None
        /\ call[c].rest.do = "ties" /\ call[d].rest.do = "ties")

\* The control plane's ME is of its type and the engine's.
PanelInv == TypeOK /\ EngineFollows
=============================================================================
