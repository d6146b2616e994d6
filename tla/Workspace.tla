------------------------------ MODULE Workspace ------------------------------
(* The console's structure (engine/mixer.py): its inputs, MEs and keyers,    *)
(* the layout that sets how many there are, the sources that buses and keys  *)
(* name, snapshots, the saved state, and the start and stop of the mixer,    *)
(* which freeze the structure while it is on air.  A start takes a lock that *)
(* nothing else takes and ends in two steps here: what it decides, then what *)
(* it sets once the engine's process is there.  A stop, which takes no lock, *)
(* drops the engine, waits for its end and then sets the state.  Between the *)
(* two steps of either any other call of the API may come.                   *)
EXTENDS Naturals, Sequences, FiniteSets, SequencesExt, FiniteSetsExt

CONSTANTS
  Cams,         \* the ids cam-1, cam-2, ... in the order of their numbers, enough of them
  Registrable,  \* the inputs that clients register: [id, kind]
  Rekinds,      \* the kinds that clients give to inputs: [id, kind]
  Counts, MeCounts, KeyCounts,  \* the layouts: inputs, MEs, keyers per ME
  RenderMes,    \* FLOWXER_RENDER_MES; 0: every ME
  Chosen,       \* the sources that clients name
  Keyed,        \* the keys that clients set: [mode, src]
  Requests,     \* the buses that starts name: [pgm, pvw]
  Numbers,      \* the numbers of snapshots
  Docs,         \* documents that clients import, as exported elsewhere
  None,         \* a model value
  MaxChanges    \* bound on the calls of clients

\* The ids of MEs.
Mes == <<"me-1", "me-2", "me-3", "me-4">>

Kinds == <<"live", "clip", "black">>
Input(id, kind) == [id |-> id, kind |-> kind]
IsInput(i) == i = Input(i.id, i.kind) /\ i.kind \in ToSet(Kinds)

ASSUME WorkspaceAssumption ==
  /\ Counts \subseteq Nat \ {0} /\ MeCounts \subseteq 1 .. Len(Mes) /\ KeyCounts \subseteq Nat
  /\ RenderMes \in Nat /\ MaxChanges \in Nat
  /\ Max(Counts) \in Counts /\ Max(KeyCounts) \in KeyCounts
  /\ \A i \in Registrable \cup Rekinds : IsInput(i)

ASSUME NamesAssumption ==
  /\ Cams \in Seq(ToSet(Cams)) /\ IsInjective(Cams)
  /\ \A n \in Counts : n <= Len(Cams)
  /\ ToSet(Cams) \cap ToSet(Mes) = {}
  /\ None \notin ToSet(Cams) \cup ToSet(Mes) \cup Chosen

\* A console has these parts, also one that is imported.
Fields == {"inputs", "count", "mes", "keys", "panels", "keyers", "main", "snaps", "startup"}

\* The ids that clients give to inputs.  One may be an ME's: register_input()
\* refuses the ids of the MEs there are, not those of MEs that a larger layout
\* brings, and an import looks at no ME.
InputIds == {i.id : i \in Registrable \cup UNION {ToSet(doc.inputs) : doc \in Docs}}

\* What an export has: the parts of a console in the layout's range, inputs of
\* different ids, a start-up snapshot that exists, and keys that name no ME which
\* their own may not take, unless an input was given its id.
ASSUME DocsAssumption ==
  \A doc \in Docs :
    /\ doc = [f \in Fields |-> doc[f]]
    /\ doc.count \in Counts /\ doc.mes \in MeCounts /\ doc.keys \in KeyCounts
    /\ doc.inputs \in Seq(ToSet(doc.inputs)) /\ \A i \in ToSet(doc.inputs) : IsInput(i)
    /\ \A n, m \in DOMAIN doc.inputs : doc.inputs[n].id = doc.inputs[m].id => n = m
    /\ doc.panels = [n \in 1 .. doc.mes |-> doc.panels[n]]
    /\ \A n \in 1 .. doc.mes : LET p == doc.panels[n] IN
         p = [pgm |-> p.pgm, pvw |-> p.pvw, ties |-> p.ties, bkgd |-> p.bkgd]
    /\ \A n \in DOMAIN doc.keyers : \A k \in DOMAIN doc.keyers[n] : LET key == doc.keyers[n][k] IN
         /\ key = [mode |-> key.mode, src |-> key.src, on |-> key.on]
         /\ key.mode # "linear" /\ key.src \notin InputIds =>
              \A m \in DOMAIN Mes : m <= n => key.src # Mes[m]
    /\ doc.snaps = [n \in Numbers |-> doc.snaps[n]]
    /\ doc.startup # None => doc.startup \in Numbers /\ doc.snaps[doc.startup] # None

VARIABLES
  console,  \* the structure, what is set on it, and the snapshots
  state,    \* "idle", "running" or "error"
  booting,  \* the structure that a start gave to its engine, until the start ends
  engine,   \* the structure of the mixer's engine, None without one
  stopping, \* how many stops wait for an engine's end
  crossed,  \* (history) what came into the last start: "stop", "structure"
  asked,    \* (history) the last of start and stop that was asked for
  changes   \* (bound)

vars == <<console, state, booting, engine, stopping, crossed, asked, changes>>

-----------------------------------------------------------------------------
(* Inputs, MEs and what they can take *)

\* The elements of s that are in S, in their order.  (SelectSeq takes an operator,
\* about which nothing can be proved.)
Those(s, S) ==
  LET Upto[n \in 0 .. Len(s)] ==
        IF n = 0 THEN << >>
        ELSE IF s[n] \in S THEN Append(Upto[n - 1], s[n]) ELSE Upto[n - 1]
  IN Upto[Len(s)]

Of(kind, inputs) == Those(inputs, {i \in ToSet(inputs) : i.kind = kind})
Ids(c) == {i.id : i \in ToSet(c.inputs)}

\* _renumber(): live inputs, clip players, Black, each kind in its order.
Renumbered(inputs) == Of("live", inputs) \o Of("clip", inputs) \o Of("black", inputs)

Without(inputs, id) == Those(inputs, {i \in ToSet(inputs) : i.id # id})
Added(inputs, id, kind) == Append(Without(inputs, id), Input(id, kind))

\* render_count
Render(c) == IF RenderMes = 0 THEN Len(c.panels) ELSE Min({RenderMes, Len(c.panels)})

\* _reentry_allowed()
Allowed(c, n, m) == m \in 1 .. Render(c) /\ m > n

Known(c, n, source) ==
  \/ source = None
  \/ source \in Ids(c)
  \/ \E m \in 1 .. Len(c.panels) : Mes[m] = source /\ Allowed(c, n, m)

\* _check_source()
Takes(c, n, source) == source # None /\ Known(c, n, source)

-----------------------------------------------------------------------------
(* The layout, as apply_workspace() and a load put it into effect *)

\* The inputs that a smaller layout removes: the last live input first, then the
\* last clip player; Black and what is on ME 1's buses stay.
Surplus(c) ==
  LET off == {i \in ToSet(c.inputs) : i.id \notin {c.main.pgm, c.main.pvw}}
      free == Those(Of("clip", c.inputs) \o Of("live", c.inputs), off)
      over == Min({Len(c.inputs) - c.count, Len(free)})
  IN ToSet(SubSeq(free, Len(free) - over + 1, Len(free)))

Trimmed(c) ==
  IF Len(c.inputs) <= c.count THEN c.inputs
  ELSE Those(c.inputs, ToSet(c.inputs) \ Surplus(c))

\* A larger layout gets Black and a clip player, then live inputs.
Least(inputs, count, id, kind) ==
  IF Len(inputs) < count /\ Of(kind, inputs) = << >> THEN Added(inputs, id, kind) ELSE inputs
NewCams(inputs, count) ==
  LET free == Those(Cams, ToSet(Cams) \ {i.id : i \in ToSet(inputs)})
      new == IF Len(inputs) >= count THEN << >> ELSE SubSeq(free, 1, count - Len(inputs))
  IN [k \in DOMAIN new |-> Input(new[k], "live")]
Grown(inputs, count) ==
  LET some == Least(Least(inputs, count, "black", "black"), count, "clip-1", "clip")
  IN NewCams(some, count) \o some

\* (Bug: ME 1's mirror keeps a re-entered ME.)
SyncKeepsMirror(c) ==
  LET i == [c EXCEPT !.inputs = Renumbered(Grown(Trimmed(c), c.count))]
      Keep(n, s) == IF Known(i, n, s) THEN s ELSE None
      Panel(n) == [c.panels[n] EXCEPT !.pgm = Keep(n, @), !.pvw = Keep(n, @)]
  IN [i EXCEPT !.panels = [n \in DOMAIN @ |-> Panel(n)]]

\* _sync_sources()
SyncSources(c) ==
  LET i == [c EXCEPT !.inputs = Renumbered(Grown(Trimmed(c), c.count))]
      KeepMain(s) == IF s \in Ids(i) THEN s ELSE None
      Keep(n, s) == IF Known(i, n, s) THEN s ELSE None
      Panel(n) == [c.panels[n] EXCEPT !.pgm = Keep(n, @), !.pvw = Keep(n, @)]
  IN [i EXCEPT !.main = [pgm |-> KeepMain(@.pgm), pvw |-> KeepMain(@.pvw)],
               !.panels = [n \in DOMAIN @ |-> Panel(n)]]

\* _sync_panels()
SyncPanels(c) ==
  LET new == [pgm |-> c.main.pgm, pvw |-> c.main.pvw, ties |-> {}, bkgd |-> TRUE]
      Bus(main, own) == IF main = None THEN own ELSE main
      all == [n \in 1 .. c.mes |-> IF n \in DOMAIN c.panels THEN c.panels[n] ELSE new]
  IN [c EXCEPT !.panels = [all EXCEPT ![1].pgm = Bus(c.main.pgm, @),
                                      ![1].pvw = Bus(c.main.pvw, @)]]

NewKeyer == [mode |-> "linear", src |-> None, on |-> FALSE]

\* The upstream keyers of ME n.
Keys(c, n) == IF n \in DOMAIN c.keyers THEN DOMAIN c.keyers[n] ELSE {}

\* _sync_keyers(): a keyer keeps its state by its id; ties name keyers that are
\* there, and BKGD is on without one.
SyncKeyers(c) ==
  LET k == [c EXCEPT !.keyers = [n \in 1 .. Render(c) |-> [k \in 1 .. c.keys |->
              IF k \in Keys(c, n) THEN c.keyers[n][k] ELSE NewKeyer]]]
      Left(n) == c.panels[n].ties \cap Keys(k, n)
      Panel(n) == [c.panels[n] EXCEPT !.ties = Left(n), !.bkgd = @ \/ Left(n) = {}]
  IN [k EXCEPT !.panels = [n \in DOMAIN @ |-> Panel(n)]]

Settled(c) == SyncKeyers(SyncPanels(SyncSources(c)))

\* _apply_state(): the saved or imported document replaces the state.
Loaded(c) ==
  LET s == Settled([c EXCEPT !.main = [pgm |-> c.panels[1].pgm, pvw |-> c.panels[1].pvw]])
  IN [s EXCEPT !.main = [pgm |-> s.panels[1].pgm, pvw |-> s.panels[1].pvw]]

-----------------------------------------------------------------------------
(* Snapshots *)

\* _capture_me()
Captured(c, n) == [bus |-> c.panels[n], keys |-> IF n \in DOMAIN c.keyers THEN c.keyers[n] ELSE << >>]

Fit(c, n, stored, now) == IF stored # None /\ Known(c, n, stored) THEN stored ELSE now

\* update_keyer(): what is not given stays; a luma key or a pip needs a source
\* that its ME can take.
KeySet(c, n, k, key) ==
  [c.keyers[n][k] EXCEPT !.mode = key.mode, !.src = IF key.src = None THEN @ ELSE key.src]
KeyTaken(c, n, key) == key.mode = "linear" \/ Takes(c, n, key.src)

\* (Bug: a key on air takes the stored settings.)
KeySetOnAir(c, n, k, stored, air) ==
  LET now == c.keyers[n][k]
      new == KeySet(c, n, k, stored)
      set == IF KeyTaken(c, n, new) THEN new ELSE now
  IN IF air THEN [set EXCEPT !.on = stored.on] ELSE set

\* (Bug: the cut of a key toggles it.)
KeyToggled(c, n, k, stored, air) ==
  LET now == c.keyers[n][k]
      new == KeySet(c, n, k, stored)
      set == IF (now.on /\ ~air) \/ ~KeyTaken(c, n, new) THEN now ELSE new
  IN IF air THEN [set EXCEPT !.on = stored.on /\ ~@] ELSE set

\* A keyer in _recall_me(): off first, its settings unless it is on air or a
\* luma key or pip has no source, then on.
KeyRecalled(c, n, k, stored, air) ==
  LET now == c.keyers[n][k]
      new == KeySet(c, n, k, stored)
      set == IF (now.on /\ ~air) \/ ~KeyTaken(c, n, new) THEN now ELSE new
  IN IF air THEN [set EXCEPT !.on = stored.on] ELSE set

\* _recall_transition()
TransitionRecalled(c, n, stored) ==
  LET ties == stored.ties \cap Keys(c, n)
  IN [ties |-> ties, bkgd |-> stored.bkgd \/ ties = {}]

BusRecalled(c, n, stored, air) ==
  LET t == TransitionRecalled(c, n, stored)
  IN [pgm |-> IF air THEN Fit(c, n, stored.pgm, c.panels[n].pgm) ELSE c.panels[n].pgm,
      pvw |-> Fit(c, n, stored.pvw, c.panels[n].pvw), ties |-> t.ties, bkgd |-> t.bkgd]

\* recall_snapshot(): each ME by itself; what no longer fits is skipped.
Recalled(c, snap, air) ==
  LET In(n) == n \in DOMAIN snap.mes
      Key(n, k) == IF In(n) /\ k \in DOMAIN snap.mes[n].keys
                   THEN KeyRecalled(c, n, k, snap.mes[n].keys[k], air) ELSE c.keyers[n][k]
      panels == [n \in DOMAIN c.panels |->
                   IF In(n) THEN BusRecalled(c, n, snap.mes[n].bus, air) ELSE c.panels[n]]
      Mirror(bus, main) == IF panels[1][bus] = c.panels[1][bus] THEN main ELSE panels[1][bus]
      main == [pgm |-> Mirror("pgm", c.main.pgm), pvw |-> Mirror("pvw", c.main.pvw)]
  IN [c EXCEPT !.panels = panels, !.main = main,
               !.keyers = [n \in DOMAIN @ |-> [k \in DOMAIN @[n] |-> Key(n, k)]]]

\* A snapshot of one ME that the console does not have is refused.
Recallable(c, snap) == snap.all \/ \E n \in DOMAIN snap.mes : n \in DOMAIN c.panels

-----------------------------------------------------------------------------
(* What is on air *)

\* layer_visibility(): from the top down, a pip over the whole raster hides the
\* rest; a linear key has no source of the mixer.
Shows(c, n) ==
  LET on == {k \in Keys(c, n) : c.keyers[n][k].on}
      covers == {k \in on : c.keyers[n][k].mode = "pip"}
      seen == {k \in on : c.keyers[n][k].mode # "linear" /\ \A j \in covers : k >= j}
      keyed == {c.keyers[n][k].src : k \in seen}
  IN (IF covers = {} THEN {c.panels[n].pgm} \cup keyed ELSE keyed) \ {None}

\* visible_on_program(), for each ME: through re-entry of higher MEs.
Through(shows) ==
  LET On[n \in DOMAIN shows] ==
        shows[n] \cup UNION {On[m] : m \in {m \in DOMAIN shows : m > n /\ Mes[m] \in shows[n]}}
  IN On
Visible(c) == Through([n \in DOMAIN c.panels |-> Shows(c, n)])

\* _engine_config(), and the order by which _engine_source() numbers the inputs.
Structure(c) ==
  [live |-> Of("live", c.inputs), clips |-> Of("clip", c.inputs),
   mes |-> Render(c), keys |-> [n \in DOMAIN c.keyers |-> Len(c.keyers[n])]]

-----------------------------------------------------------------------------
(* The calls *)

Call == changes < MaxChanges /\ changes' = changes + 1
Kept == UNCHANGED <<state, booting, engine, stopping, asked>>

\* (Bug: not refused on air.)
RestructuredOnAir(c) ==
  /\ Call
  /\ console' = c
  /\ crossed' = IF booting # None THEN crossed \cup {"structure"} ELSE crossed
  /\ Kept

\* A change of the structure: refused on air.
Restructured(c) ==
  /\ state # "running" /\ Call
  /\ console' = c
  /\ crossed' = IF booting # None THEN crossed \cup {"structure"} ELSE crossed
  /\ Kept

\* A change of what is set on it.
Set(c) == Call /\ console' = c /\ UNCHANGED crossed /\ Kept

\* apply_workspace()
ApplyWorkspace(count, mes, keys) ==
  /\ <<count, mes, keys>> # <<console.count, console.mes, console.keys>>
  /\ Restructured(Settled([console EXCEPT !.count = count, !.mes = mes, !.keys = keys]))

\* register_input()
RegisterInput(i) ==
  /\ i.id \notin Ids(console) \cup {Mes[m] : m \in DOMAIN console.panels}
  /\ Restructured([console EXCEPT !.inputs = Renumbered(Append(@, i))])

\* delete_input(): the buses, keys and snapshots that name it stay.
DeleteInput(id) ==
  /\ id \in Ids(console)
  /\ Restructured([console EXCEPT !.inputs = Without(@, id)])

\* update_input(), the kind
ChangeKind(i) ==
  /\ \E old \in ToSet(console.inputs) : old.id = i.id /\ old.kind # i.kind
  /\ Restructured([console EXCEPT !.inputs =
       Renumbered([k \in DOMAIN @ |-> IF @[k].id = i.id THEN i ELSE @[k]])])

\* import_state()
Import(doc) == Restructured(Loaded(doc))

\* take(), as a cut, and a cut of ME 1's mirror with it
OnProgram(c, n, source) ==
  [c EXCEPT !.panels[n].pgm = source, !.main.pgm = IF n = 1 THEN source ELSE @]
OnPreview(c, n, source) ==
  [c EXCEPT !.panels[n].pvw = source, !.main.pvw = IF n = 1 THEN source ELSE @]

Take(n, source) ==
  /\ state = "running" /\ n \in DOMAIN console.panels
  /\ Takes(console, n, source)
  /\ Set(OnProgram(console, n, source))

SetPreview(n, source) ==
  /\ state = "running" /\ n \in DOMAIN console.panels
  /\ Takes(console, n, source)
  /\ Set(OnPreview(console, n, source))

KeysCut(c, n) ==
  LET Key(m, k) == IF m = n /\ k \in c.panels[n].ties
                   THEN [c.keyers[m][k] EXCEPT !.on = ~@] ELSE c.keyers[m][k]
  IN [c EXCEPT !.keyers = [m \in DOMAIN @ |-> [k \in DOMAIN @[m] |-> Key(m, k)]]]

\* cut(): a Preview that ME n cannot take any more is refused.
Cut(n) ==
  /\ state = "running" /\ n \in DOMAIN console.panels
  /\ LET p == console.panels[n]
         swapped == OnProgram(IF p.pgm \in {None, p.pvw} THEN console
                              ELSE OnPreview(console, n, p.pgm), n, p.pvw)
     IN IF ~p.bkgd THEN Set(KeysCut(console, n))
        ELSE Takes(console, n, p.pvw) /\ Set(KeysCut(swapped, n))

\* update_transition(): ties and BKGD
UpdateTransition(n, ties, bkgd) ==
  /\ n \in DOMAIN console.panels
  /\ ties \subseteq Keys(console, n) /\ (bkgd \/ ties # {})
  /\ Set([console EXCEPT !.panels[n].ties = ties, !.panels[n].bkgd = bkgd])

\* update_keyer(): the key's settings
SetKey(n, k, key) ==
  /\ k \in Keys(console, n)
  /\ KeyTaken(console, n, KeySet(console, n, k, key))
  /\ Set([console EXCEPT !.keyers[n][k] = KeySet(console, n, k, key)])

\* update_keyer(): on and off
SwitchKey(n, k) ==
  /\ k \in Keys(console, n)
  /\ Set([console EXCEPT !.keyers[n][k].on = ~@])

\* store_snapshot() of ME n, or of all MEs (0)
StoreSnapshot(number, n, air) ==
  /\ n = 0 \/ n \in DOMAIN console.panels
  /\ LET mes == IF n = 0 THEN DOMAIN console.panels ELSE {n}
     IN Set([console EXCEPT !.snaps[number] =
              [all |-> n = 0, air |-> air, mes |-> [m \in mes |-> Captured(console, m)]]])

\* delete_snapshot()
DeleteSnapshot(number) ==
  /\ console.snaps[number] # None
  /\ Set([console EXCEPT !.snaps[number] = None, !.startup = IF @ = number THEN None ELSE @])

\* set_startup_snapshot()
SetStartup(number) ==
  /\ number # None => console.snaps[number] # None
  /\ number # console.startup
  /\ Set([console EXCEPT !.startup = number])

\* recall_snapshot(), with the snapshot's own options or others
RecallSnapshot(number, air) ==
  /\ console.snaps[number] # None /\ Recallable(console, console.snaps[number])
  /\ Set(Recalled(console, console.snaps[number], air))

-----------------------------------------------------------------------------
(* Start, stop, and the process's own end *)

\* _saved_bus()
SavedBus(c, source) == IF Known(c, 1, source) THEN source ELSE None
FirstOf(a, b) == IF a # None THEN a ELSE b

\* ME 1's buses at a start: the request's, else the saved ones, else the first input.
StartBuses(c, request) ==
  LET pgm == FirstOf(FirstOf(request.pgm, SavedBus(c, c.panels[1].pgm)), Head(c.inputs).id)
  IN [pgm |-> pgm, pvw |-> FirstOf(FirstOf(request.pvw, SavedBus(c, c.panels[1].pvw)), pgm)]

StartupRecalled(c) ==
  IF c.startup = None \/ ~Recallable(c, c.snaps[c.startup]) THEN c
  ELSE Recalled(c, c.snaps[c.startup], c.snaps[c.startup].air)

\* _start() up to the engine's process, from any call that needs the mixer on air
Start(request) ==
  LET c == console
      buses == StartBuses(c, request)
      ready == StartupRecalled(OnPreview(OnProgram(c, 1, buses.pgm), 1, buses.pvw))
  IN /\ state # "running" /\ booting = None
     /\ c.inputs # << >>
     /\ Takes(c, 1, buses.pgm) /\ Takes(c, 1, buses.pvw)
     /\ console' = ready /\ booting' = Structure(ready)
     /\ asked' = "start" /\ crossed' = {}
     /\ Call /\ UNCHANGED <<state, engine, stopping>>

\* The rest of _start(), or its engine error.
Started ==
  /\ booting # None
  /\ \/ state' = "running" /\ engine' = booting
     \/ state' = "error" /\ UNCHANGED engine
  /\ booting' = None
  /\ UNCHANGED <<console, stopping, crossed, asked, changes>>

\* stop() up to the engine's end: takes no lock, and leaves the state.
Stop ==
  /\ engine' = None /\ stopping' = stopping + 1 /\ asked' = "stop"
  /\ crossed' = IF booting # None THEN crossed \cup {"stop"} ELSE crossed
  /\ Call /\ UNCHANGED <<console, state, booting>>

\* (Bug: a stop leaves the state to the engine's end.)
StopEndsInState ==
  /\ stopping > 0 /\ stopping' = stopping - 1
  /\ UNCHANGED <<console, state, booting, engine, crossed, asked, changes>>

\* The rest of stop(), whatever was started since.
StopEnds ==
  /\ stopping > 0 /\ stopping' = stopping - 1
  /\ state' = "idle"
  /\ UNCHANGED <<console, booting, engine, crossed, asked, changes>>

\* The process ends and comes back with what it saved after the last change.
Restart ==
  /\ console' = Loaded(console)
  /\ state' = "idle" /\ booting' = None /\ engine' = None /\ stopping' = 0
  /\ asked' = "stop" /\ crossed' = {}
  /\ UNCHANGED changes

\* __init__() without a saved state
Defaults(count) ==
  Settled([inputs |-> << >>, count |-> count, mes |-> 1, keys |-> Max(KeyCounts), panels |-> << >>,
           keyers |-> << >>, main |-> [pgm |-> None, pvw |-> None],
           snaps |-> [n \in Numbers |-> None], startup |-> None])

Init ==
  /\ console = Defaults(Max(Counts))
  /\ state = "idle" /\ booting = None /\ engine = None /\ stopping = 0
  /\ crossed = {} /\ asked = "stop" /\ changes = 0

Next ==
  \/ \E count \in Counts, mes \in MeCounts, keys \in KeyCounts : ApplyWorkspace(count, mes, keys)
  \/ \E i \in Registrable : RegisterInput(i)
  \/ \E id \in Chosen : DeleteInput(id)
  \/ \E i \in Rekinds : ChangeKind(i)
  \/ \E doc \in Docs : Import(doc)
  \/ \E n \in MeCounts, source \in Chosen : Take(n, source) \/ SetPreview(n, source)
  \/ \E n \in MeCounts : Cut(n)
  \/ \E n \in MeCounts, ties \in SUBSET (1 .. Max(KeyCounts)), bkgd \in BOOLEAN :
       UpdateTransition(n, ties, bkgd)
  \/ \E n \in MeCounts, k \in 1 .. Max(KeyCounts) :
       SwitchKey(n, k) \/ \E key \in Keyed : SetKey(n, k, key)
  \/ \E number \in Numbers, n \in {0} \cup MeCounts, air \in BOOLEAN : StoreSnapshot(number, n, air)
  \/ \E number \in Numbers : DeleteSnapshot(number) \/ SetStartup(number)
  \/ SetStartup(None)
  \/ \E number \in Numbers, air \in BOOLEAN : RecallSnapshot(number, air)
  \/ \E request \in Requests : Start(request)
  \/ Started \/ Stop \/ StopEnds \/ Restart

Spec == Init /\ [][Next]_vars

-----------------------------------------------------------------------------
(* Properties *)

\* The layout's numbers and what is numbered by them: ids are unique, slots go by
\* kind, every rendering ME has its keyers.
TypeOK ==
  /\ state \in {"idle", "running", "error"} /\ changes \in 0 .. MaxChanges
  /\ crossed \subseteq {"stop", "structure"} /\ asked \in {"start", "stop"}
  /\ console.inputs = Renumbered(console.inputs)
  /\ Cardinality(Ids(console)) = Len(console.inputs)
  /\ Len(console.panels) = console.mes /\ Len(console.keyers) = Render(console)
  /\ \A n \in DOMAIN console.keyers : Len(console.keyers[n]) = console.keys
  /\ stopping \in Nat /\ (state = "running" /\ stopping = 0 => engine # None)

\* What ME n's buses, luma keys and pips name.
Named(c, n) ==
  {c.panels[n].pgm, c.panels[n].pvw}
    \cup {c.keyers[n][k].src : k \in {k \in Keys(c, n) : c.keyers[n][k].mode # "linear"}}

\* No ME shows itself, whatever layouts, imports and snapshots came before: a bus
\* or key that names an ME names a higher one, or the name was given to an input.
\* (_reentry_allowed() looks at a source when it is chosen; _sync_sources() and
\* _sync_panels() hand sources on to new MEs later.  An input comes before an ME
\* of its name, and once it is deleted the bus that showed it names the ME.)
NoRenderLoop ==
  \A n \in DOMAIN console.panels : \A m \in 1 .. n :
    Mes[m] \in Named(console, n) => Mes[m] \in InputIds

\* A transition is tied to keyers that its ME has, and moves something: with
\* BKGD off there is a tie.  (update_transition() checks it; _sync_keyers() and a
\* recall keep it when keyers go.)
TiesHold ==
  \A n \in DOMAIN console.panels : LET p == console.panels[n] IN
    p.ties \subseteq Keys(console, n) /\ (p.bkgd \/ p.ties # {})

\* On air the mixer's own Program and Preview are ME 1's, although a layout sets
\* them by another rule than ME 1's (program_input_id, preview_input_id).
MirrorAgrees ==
  state = "running" /\ crossed = {} =>
    console.main = [pgm |-> console.panels[1].pgm, pvw |-> console.panels[1].pvw]

\* On air ME 1's buses are sources that it can take, whatever was deleted, made
\* smaller or loaded off air before.
OnAirKnown ==
  state = "running" /\ crossed = {} =>
    Takes(console, 1, console.panels[1].pgm) /\ Takes(console, 1, console.panels[1].pvw)

\* On air the engine, if no stop has dropped it, has the inputs, MEs and keyers that
\* the console numbers its commands by, unless the structure was changed while the
\* start was under way: state is "running" at its end only, and only a start takes
\* the lock.
EngineAgrees ==
  state = "running" /\ "structure" \notin crossed => engine \in {None, Structure(console)}

\* Stops leave the mixer off air without an engine when they have ended, unless one
\* came during a start: it finds no engine, and the start puts the mixer on air
\* after it (stop() takes no lock).
StopHolds ==
  asked = "stop" /\ "stop" \notin crossed =>
    engine = None /\ (stopping = 0 => state # "running")

\* The start-up snapshot exists: a saved state that names another is not loaded
\* at all (SnapshotConfig).
StartupExists == console.startup = None \/ console.snaps[console.startup] # None

\* A second restart changes nothing more: what a load repairs stays repaired.
RestartSettles == Loaded(Loaded(console)) = Loaded(console)

\* Recalling what was just stored, with Program/on-air, changes nothing, and
\* recalling a snapshot twice is recalling it once.
RecallSettles ==
  LET Now == [all |-> TRUE, air |-> TRUE,
              mes |-> [n \in DOMAIN console.panels |-> Captured(console, n)]]
  IN /\ Recalled(console, Now, TRUE) = console
     /\ \A number \in Numbers : LET snap == console.snaps[number] IN
          snap # None => LET once == Recalled(console, snap, TRUE)
                         IN Recalled(once, snap, TRUE) = once

\* "Off means nothing on air changes": a recall without Program/on-air leaves what
\* every ME's Program shows, by every path (docs/snapshots.md, Recall).
OffKeepsAir ==
  [][\A number \in Numbers :
       RecallSnapshot(number, FALSE) => Visible(console') = Visible(console)]_vars

\* A restart keeps every bus that still names a source of the console, and what
\* each ME's keyers are and do; it keeps the inputs while there are as many as
\* the layout says (README.md, Saved state).
RestartKeeps ==
  [][Restart =>
       /\ \A n \in DOMAIN console.panels, bus \in {"pgm", "pvw"} :
            Known(console', n, console.panels[n][bus]) =>
              console'.panels[n][bus] = console.panels[n][bus]
       /\ console'.keyers = console.keyers /\ console'.snaps = console.snaps
       /\ Len(console.inputs) = console.count => console'.inputs = console.inputs]_vars

\* The saved state is loaded on start: inputs, layout, panels (README.md, Saved
\* state, export and import).
RestartKeepsInputs == [][Restart => Ids(console) \subseteq Ids(console')]_vars

\* Everything the console names is there, and the same in every place that names it.
ConsoleInv ==
  TypeOK /\ NoRenderLoop /\ TiesHold /\ MirrorAgrees /\ OnAirKnown /\ StartupExists

\* Loads and recalls have a fixed point: doing one again changes nothing.
Settles == RestartSettles /\ RecallSettles

\* Recalls and restarts leave alone what they promise to.
Keeps == OffKeepsAir /\ RestartKeeps
=============================================================================
