--------------------------- MODULE WorkspaceProofs ---------------------------
(* Theorems about the console's structure (Workspace), for any layouts,      *)
(* inputs, snapshots, documents and requests.                                *)
(*                                                                           *)
(* The engine on air has the console's structure: a change of the structure  *)
(* is refused on air, and every other call leaves it alone (Alike), also a   *)
(* recall, which writes panels and keyers but no more than there are.  A     *)
(* stop holds: nothing but a start's end puts the mixer on air (IInv).       *)
(*                                                                           *)
(* The console is sound in every state (Sound): inputs of different ids in   *)
(* the order of their slots, and buses, keys and ties that fit.  A layout    *)
(* and a load make it so from what is less (Loose); what an operator sets    *)
(* keeps it so (Fits).  That a bus which names an ME names a higher one does *)
(* not follow from what the console knows: a deleted input is still named.   *)
(* It is kept of the names alone (Higher).  From a start on, ME 1's buses    *)
(* are known and mirrored (OnAir), until the structure changes.              *)
(*                                                                           *)
(* The inputs are computed by recursion over their sequence.  Induction is   *)
(* stated for sets (UptoInduction, SeqInduction), as are the elements that   *)
(* a set selects; the rest follows from what Those gives.                    *)
EXTENDS Workspace, SequenceTheorems, FiniteSetTheorems, WellFoundedInduction, TLAPS

IsSeq(s) == Len(s) \in Nat /\ s = [n \in 1 .. Len(s) |-> s[n]]
IsConsole(c) == c = [f \in Fields |-> c[f]]

\* The parts of a console that the engine's structure is made of.
Shape(c) ==
  /\ IsConsole(c) /\ c.mes \in Nat \ {0} /\ c.keys \in Nat
  /\ IsSeq(c.panels) /\ IsSeq(c.keyers)
  /\ \A n \in DOMAIN c.keyers : IsSeq(c.keyers[n])

\* d has the inputs, panels and keyers of c, whatever is set on them.
Alike(c, d) ==
  /\ IsConsole(d) /\ d.inputs = c.inputs /\ d.mes = c.mes /\ d.keys = c.keys
  /\ d.panels = [n \in DOMAIN c.panels |-> d.panels[n]]
  /\ d.keyers = [n \in DOMAIN c.keyers |-> d.keyers[n]]
  /\ \A n \in DOMAIN c.keyers : d.keyers[n] = [k \in DOMAIN c.keyers[n] |-> d.keyers[n][k]]

\* What a start or the engine on air was given is the structure there is now.
Given == booting # None /\ "structure" \notin crossed => booting = Structure(console)

\* After a stop nothing is under way that puts the mixer on air, and what waits for
\* the engine's end takes it off.
Stopped ==
  asked = "stop" /\ "stop" \notin crossed =>
    booting = None /\ engine = None /\ (state = "running" => stopping > 0)

IInv == Shape(console) /\ Given /\ EngineAgrees /\ Stopped /\ stopping \in Nat

-----------------------------------------------------------------------------
(* Sequences and consoles *)

\* The length of a function on 1 .. N.
LEMMA LenIs ==
  ASSUME NEW N \in Nat, NEW s, s = [n \in 1 .. N |-> s[n]]
  PROVE  Len(s) = N /\ IsSeq(s)
<1>1. s \in [1 .. N -> {s[n] : n \in 1 .. N}]
  OBVIOUS
<1>2. s \in Seq({s[n] : n \in 1 .. N})
  BY <1>1, SeqDef
<1>3. DOMAIN s = 1 .. N /\ DOMAIN s = 1 .. Len(s) /\ Len(s) \in Nat
  BY <1>1, <1>2, LenProperties
<1>4. Len(s) = N
  BY <1>3
<1> QED BY <1>4 DEF IsSeq

\* A function on the places of a sequence is one as long.
LEMMA AsLong ==
  ASSUME NEW s, IsSeq(s), NEW t, t = [n \in DOMAIN s |-> t[n]]
  PROVE  IsSeq(t) /\ Len(t) = Len(s)
<1>1. Len(s) \in Nat /\ DOMAIN s = 1 .. Len(s)
  BY DEF IsSeq
<1> QED BY <1>1, LenIs

\* A console alike another has its shape and its structure.
LEMMA AlikeStructure ==
  ASSUME NEW c, NEW d, Shape(c), Alike(c, d)
  PROVE  Shape(d) /\ Structure(d) = Structure(c)
<1>1. IsSeq(d.panels) /\ Len(d.panels) = Len(c.panels)
  BY AsLong DEF Shape, Alike
<1>2. IsSeq(d.keyers) /\ DOMAIN d.keyers = DOMAIN c.keyers
  BY AsLong DEF Shape, Alike
<1>3. \A n \in DOMAIN c.keyers : IsSeq(d.keyers[n]) /\ Len(d.keyers[n]) = Len(c.keyers[n])
  BY AsLong DEF Shape, Alike
<1>4. Shape(d)
  BY <1>1, <1>2, <1>3 DEF Shape, Alike
<1>5. Render(d) = Render(c)
  BY <1>1 DEF Render
<1>6. [n \in DOMAIN d.keyers |-> Len(d.keyers[n])] = [n \in DOMAIN c.keyers |-> Len(c.keyers[n])]
  BY <1>2, <1>3
<1>7. d.inputs = c.inputs
  BY DEF Alike
<1>8. Structure(d) = Structure(c)
  BY <1>5, <1>6, <1>7 DEF Structure
<1> QED BY <1>4, <1>8

\* A console is alike itself, and what is alike what is alike it is alike it.
LEMMA AlikeItself ==
  ASSUME NEW c, Shape(c)
  PROVE  Alike(c, c)
BY DEF Shape, Alike, IsSeq

LEMMA AlikeAgain ==
  ASSUME NEW c, NEW d, NEW e, Alike(c, d), Alike(d, e)
  PROVE  Alike(c, e)
<1>1. DOMAIN d.panels = DOMAIN c.panels /\ DOMAIN d.keyers = DOMAIN c.keyers
  BY DEF Alike
<1>2. \A n \in DOMAIN c.keyers : DOMAIN d.keyers[n] = DOMAIN c.keyers[n]
  BY DEF Alike
<1> QED BY <1>1, <1>2 DEF Alike

-----------------------------------------------------------------------------
(* What sets something on a console *)

\* A source put on a bus leaves a console alike.
LEMMA OnProgramAlike ==
  ASSUME NEW c, Shape(c), NEW n, NEW source
  PROVE  Alike(c, OnProgram(c, n, source))
BY DEF OnProgram, Shape, Alike, IsConsole, Fields, IsSeq

LEMMA OnPreviewAlike ==
  ASSUME NEW c, Shape(c), NEW n, NEW source
  PROVE  Alike(c, OnPreview(c, n, source))
BY DEF OnPreview, Shape, Alike, IsConsole, Fields, IsSeq

\* The cut of keys leaves a console alike.
LEMMA KeysCutAlike ==
  ASSUME NEW c, Shape(c), NEW n
  PROVE  Alike(c, KeysCut(c, n))
BY DEF KeysCut, Shape, Alike, IsConsole, Fields, IsSeq

\* Panels, keyers and the mirror replaced by as many.
LEMMA ReplacedAlike ==
  ASSUME NEW c, Shape(c), NEW panels, NEW main, NEW keyers,
         panels = [n \in DOMAIN c.panels |-> panels[n]],
         keyers = [n \in DOMAIN c.keyers |-> keyers[n]],
         \A n \in DOMAIN c.keyers : keyers[n] = [k \in DOMAIN c.keyers[n] |-> keyers[n][k]]
  PROVE  Alike(c, [c EXCEPT !.panels = panels, !.main = main, !.keyers = keyers])
BY DEF Shape, Alike, IsConsole, Fields

\* A recall writes panels and keyers, but no more than there are.
LEMMA RecalledAlike ==
  ASSUME NEW c, Shape(c), NEW snap, NEW air
  PROVE  Alike(c, Recalled(c, snap, air))
<1> DEFINE In(n) == n \in DOMAIN snap.mes
           K(n, k) == IF In(n) /\ k \in DOMAIN snap.mes[n].keys
                      THEN KeyRecalled(c, n, k, snap.mes[n].keys[k], air) ELSE c.keyers[n][k]
           B(n) == IF In(n) THEN BusRecalled(c, n, snap.mes[n].bus, air) ELSE c.panels[n]
           panels == [n \in DOMAIN c.panels |-> B(n)]
           Mirror(bus, main) == IF panels[1][bus] = c.panels[1][bus] THEN main
                                ELSE panels[1][bus]
           main == [pgm |-> Mirror("pgm", c.main.pgm), pvw |-> Mirror("pvw", c.main.pvw)]
           keyers == [n \in DOMAIN c.keyers |-> [k \in DOMAIN c.keyers[n] |-> K(n, k)]]
<1>1. Recalled(c, snap, air) = [c EXCEPT !.panels = panels, !.main = main, !.keyers = keyers]
  BY DEF Recalled
<1> HIDE DEF B, K, main
<1>2. panels = [n \in DOMAIN c.panels |-> panels[n]]
  OBVIOUS
<1>3. keyers = [n \in DOMAIN c.keyers |-> keyers[n]]
  OBVIOUS
<1>4. \A n \in DOMAIN c.keyers : keyers[n] = [k \in DOMAIN c.keyers[n] |-> keyers[n][k]]
  OBVIOUS
<1> HIDE DEF panels, keyers
<1>5. Alike(c, [c EXCEPT !.panels = panels, !.main = main, !.keyers = keyers])
  BY <1>2, <1>3, <1>4, ReplacedAlike
<1> QED BY <1>1, <1>5

\* So does the recall that a start makes.
LEMMA StartupAlike ==
  ASSUME NEW c, Shape(c)
  PROVE  Alike(c, StartupRecalled(c))
BY AlikeItself, RecalledAlike DEF StartupRecalled

-----------------------------------------------------------------------------
(* A layout, a load: the panels and keyers are made anew *)

\* The lesser of two naturals is one.
LEMMA MinOf ==
  ASSUME NEW a \in Nat, NEW b \in Nat
  PROVE  Min({a, b}) \in Nat
<1>1. \E x \in {a, b} : \A y \in {a, b} : x <= y
  OBVIOUS
<1>2. Min({a, b}) \in {a, b}
  BY <1>1 DEF Min
<1> QED BY <1>2

\* What a layout makes of the sources, the panels and the keyers has the shape.
LEMMA SourcesShape ==
  ASSUME NEW c, IsConsole(c)
  PROVE  LET d == SyncSources(c) IN IsConsole(d) /\ d.mes = c.mes /\ d.keys = c.keys
BY DEF SyncSources, IsConsole, Fields

LEMMA PanelsShape ==
  ASSUME NEW c, IsConsole(c), c.mes \in Nat
  PROVE  LET d == SyncPanels(c) IN
           /\ IsConsole(d) /\ d.mes = c.mes /\ d.keys = c.keys
           /\ IsSeq(d.panels) /\ Len(d.panels) = c.mes
<1> DEFINE d == SyncPanels(c)
<1>1. IsConsole(d) /\ d.mes = c.mes /\ d.keys = c.keys
  BY DEF SyncPanels, IsConsole, Fields
<1>2. d.panels = [n \in 1 .. c.mes |-> d.panels[n]]
  BY DEF SyncPanels, IsConsole, Fields
<1> HIDE DEF d
<1>3. IsSeq(d.panels) /\ Len(d.panels) = c.mes
  BY <1>2, LenIs
<1> QED BY <1>1, <1>3 DEF d

LEMMA KeyersShape ==
  ASSUME NEW c, IsConsole(c), c.mes \in Nat \ {0}, c.keys \in Nat, IsSeq(c.panels)
  PROVE  Shape(SyncKeyers(c))
<1> DEFINE d == SyncKeyers(c)
<1>1. IsConsole(d) /\ d.mes = c.mes /\ d.keys = c.keys
  BY DEF SyncKeyers, IsConsole, Fields
<1>2. d.panels = [n \in DOMAIN c.panels |-> d.panels[n]]
  BY DEF SyncKeyers, IsConsole, Fields
<1>3. /\ d.keyers = [n \in 1 .. Render(c) |-> d.keyers[n]]
      /\ \A n \in 1 .. Render(c) : d.keyers[n] = [k \in 1 .. c.keys |-> d.keyers[n][k]]
  BY DEF SyncKeyers, IsConsole, Fields
<1>4. Render(c) \in Nat
  BY MinOf, WorkspaceAssumption DEF Render, IsSeq
<1> HIDE DEF d
<1>5. IsSeq(d.panels)
  BY <1>2, AsLong
<1>6. IsSeq(d.keyers) /\ DOMAIN d.keyers = 1 .. Render(c)
  BY <1>3, <1>4, LenIs
<1>7. \A n \in DOMAIN d.keyers : IsSeq(d.keyers[n])
  BY <1>3, <1>6, LenIs
<1> QED BY <1>1, <1>5, <1>6, <1>7 DEF Shape, d

LEMMA SettledShape ==
  ASSUME NEW c, IsConsole(c), c.mes \in Nat \ {0}, c.keys \in Nat
  PROVE  Shape(Settled(c))
<1> DEFINE d == SyncSources(c)
           e == SyncPanels(d)
<1>1. IsConsole(d) /\ d.mes = c.mes /\ d.keys = c.keys
  BY SourcesShape
<1> HIDE DEF d
<1>2. IsConsole(e) /\ e.mes = c.mes /\ e.keys = c.keys /\ IsSeq(e.panels)
  BY <1>1, PanelsShape
<1> HIDE DEF e
<1>3. Shape(SyncKeyers(e))
  BY <1>2, KeyersShape
<1> QED BY <1>3 DEF Settled, d, e

\* A load makes a console of the shape.
LEMMA LoadedShape ==
  ASSUME NEW c, IsConsole(c), c.mes \in Nat \ {0}, c.keys \in Nat
  PROVE  Shape(Loaded(c))
<1> DEFINE d == [c EXCEPT !.main = [pgm |-> c.panels[1].pgm, pvw |-> c.panels[1].pvw]]
           s == Settled(d)
<1>1. IsConsole(d) /\ d.mes = c.mes /\ d.keys = c.keys
  BY DEF IsConsole, Fields
<1> HIDE DEF d
<1>2. Shape(s)
  BY <1>1, SettledShape
<1> HIDE DEF s
<1>3. \A m : Shape([s EXCEPT !.main = m])
  BY <1>2 DEF Shape, IsConsole, Fields
<1> QED BY <1>3 DEF Loaded, s, d

-----------------------------------------------------------------------------
(* The steps, and the engine on air *)

\* The first console.
LEMMA InitInv == Init => IInv
<1> SUFFICES ASSUME Init PROVE IInv
  OBVIOUS
<1> DEFINE c == [inputs |-> << >>, count |-> Max(Counts), mes |-> 1, keys |-> Max(KeyCounts),
                 panels |-> << >>, keyers |-> << >>, main |-> [pgm |-> None, pvw |-> None],
                 snaps |-> [n \in Numbers |-> None], startup |-> None]
<1>1. IsConsole(c) /\ c.mes = 1 /\ c.keys = Max(KeyCounts)
  BY DEF IsConsole, Fields
<1>2. console = Settled(c)
  BY DEF Init, Defaults
<1>3. Max(KeyCounts) \in Nat
  BY WorkspaceAssumption
<1> HIDE DEF c
<1>4. Shape(console)
  BY <1>1, <1>2, <1>3, SettledShape
<1> QED BY <1>4 DEF Init, IInv, Given, EngineAgrees, Stopped

\* A call that leaves the structure alone.
LEMMA SetKeeps ==
  ASSUME IInv, NEW c, Set(c), Alike(console, c)
  PROVE  IInv'
<1>1. Shape(c) /\ Structure(c) = Structure(console)
  BY AlikeStructure DEF IInv
<1>2. console' = c /\ UNCHANGED <<state, booting, engine, stopping, crossed, asked>>
  BY DEF Set, Kept
<1>3. Shape(console)' /\ Structure(console)' = Structure(console)
  BY <1>1, <1>2
<1> QED BY <1>2, <1>3 DEF IInv, Given, EngineAgrees, Stopped

\* A call that changes it.
LEMMA RestructuredKeeps ==
  ASSUME IInv, NEW c, Restructured(c), Shape(c)
  PROVE  IInv'
<1>1. /\ state # "running" /\ console' = c /\ UNCHANGED <<state, booting, engine, stopping, asked>>
      /\ crossed' = IF booting # None THEN crossed \cup {"structure"} ELSE crossed
  BY DEF Restructured, Kept
<1>2. Shape(console)'
  BY <1>1
<1> QED BY <1>1, <1>2 DEF IInv, Given, EngineAgrees, Stopped

\* The calls that change the structure.
LEMMA StructureStep ==
  ASSUME IInv,
         \/ \E count \in Counts, mes \in MeCounts, keys \in KeyCounts :
              ApplyWorkspace(count, mes, keys)
         \/ \E i \in Registrable : RegisterInput(i)
         \/ \E id \in Chosen : DeleteInput(id)
         \/ \E i \in Rekinds : ChangeKind(i)
         \/ \E doc \in Docs : Import(doc)
  PROVE  IInv'
<1> USE DEF IInv
<1>1. ASSUME NEW inputs, Restructured([console EXCEPT !.inputs = inputs]) PROVE IInv'
  <2>1. Shape([console EXCEPT !.inputs = inputs])
    BY DEF Shape, IsConsole, Fields
  <2> QED BY <1>1, <2>1, RestructuredKeeps
<1>2. \A mes \in MeCounts : mes \in Nat \ {0}
  BY WorkspaceAssumption
<1>3. ASSUME NEW count \in Counts, NEW mes \in MeCounts, NEW keys \in KeyCounts,
             ApplyWorkspace(count, mes, keys)
      PROVE  IInv'
  <2> DEFINE c == [console EXCEPT !.count = count, !.mes = mes, !.keys = keys]
  <2>1. IsConsole(c) /\ c.mes = mes /\ c.keys = keys
    BY DEF Shape, IsConsole, Fields
  <2>2. Restructured(Settled(c))
    BY <1>3 DEF ApplyWorkspace
  <2> HIDE DEF c
  <2>3. keys \in Nat
    BY WorkspaceAssumption
  <2> QED BY <1>2, <2>1, <2>2, <2>3, SettledShape, RestructuredKeeps
<1>4. ASSUME NEW doc \in Docs, Import(doc) PROVE IInv'
  <2>1. IsConsole(doc) /\ doc.mes \in Nat \ {0} /\ doc.keys \in Nat
    BY <1>2, DocsAssumption, WorkspaceAssumption DEF IsConsole
  <2> QED BY <1>4, <2>1, LoadedShape, RestructuredKeeps DEF Import
<1>5. CASE \E i \in Registrable : RegisterInput(i)
  BY <1>1, <1>5 DEF RegisterInput
<1>6. CASE \E id \in Chosen : DeleteInput(id)
  BY <1>1, <1>6 DEF DeleteInput
<1>7. CASE \E i \in Rekinds : ChangeKind(i)
  BY <1>1, <1>7 DEF ChangeKind
<1> QED BY <1>3, <1>4, <1>5, <1>6, <1>7

\* The operator's calls on an ME.
LEMMA PanelStep ==
  ASSUME IInv, NEW n,
         \/ \E source \in Chosen : Take(n, source) \/ SetPreview(n, source)
         \/ Cut(n)
         \/ \E ties, bkgd : UpdateTransition(n, ties, bkgd)
         \/ \E k : SwitchKey(n, k) \/ \E key \in Keyed : SetKey(n, k, key)
  PROVE  IInv'
<1> USE DEF IInv
<1>1. CASE \E source \in Chosen : Take(n, source) \/ SetPreview(n, source)
  BY <1>1, OnProgramAlike, OnPreviewAlike, SetKeeps DEF Take, SetPreview
<1>2. CASE Cut(n)
  <2> DEFINE p == console.panels[n]
             turned == IF p.pgm \in {None, p.pvw} THEN console ELSE OnPreview(console, n, p.pgm)
             swapped == OnProgram(turned, n, p.pvw)
  <2>1. Set(KeysCut(console, n)) \/ Set(KeysCut(swapped, n))
    BY <1>2 DEF Cut
  <2>2. Alike(console, turned)
    BY AlikeItself, OnPreviewAlike
  <2>3. Shape(turned)
    BY <2>2, AlikeStructure
  <2> HIDE DEF turned
  <2>4. Alike(turned, swapped)
    BY <2>3, OnProgramAlike
  <2> HIDE DEF swapped
  <2>5. Alike(console, swapped) /\ Shape(swapped)
    BY <2>2, <2>3, <2>4, AlikeAgain, AlikeStructure
  <2>6. Alike(console, KeysCut(swapped, n))
    BY <2>5, KeysCutAlike, AlikeAgain
  <2>7. Alike(console, KeysCut(console, n))
    BY KeysCutAlike
  <2> QED BY <2>1, <2>6, <2>7, SetKeeps
<1>3. ASSUME NEW ties, NEW bkgd, UpdateTransition(n, ties, bkgd) PROVE IInv'
  <2> DEFINE c == [console EXCEPT !.panels[n].ties = ties, !.panels[n].bkgd = bkgd]
  <2>1. /\ IsConsole(c) /\ c.inputs = console.inputs /\ c.mes = console.mes
        /\ c.keys = console.keys /\ c.keyers = console.keyers
    BY DEF Shape, IsConsole, Fields
  <2>2. c.panels = [m \in DOMAIN console.panels |-> c.panels[m]]
    BY DEF Shape, IsConsole, Fields, IsSeq
  <2>3. Set(c)
    BY <1>3 DEF UpdateTransition
  <2> HIDE DEF c
  <2>4. Alike(console, c)
    BY <2>1, <2>2 DEF Shape, Alike, IsSeq
  <2> QED BY <2>3, <2>4, SetKeeps
<1>4. ASSUME NEW k, SwitchKey(n, k) PROVE IInv'
  <2> DEFINE c == [console EXCEPT !.keyers[n][k].on = ~@]
  <2>1. Alike(console, c)
    BY DEF Shape, Alike, IsConsole, Fields, IsSeq
  <2>2. Set(c)
    BY <1>4 DEF SwitchKey
  <2> QED BY <2>1, <2>2, SetKeeps
<1>5. ASSUME NEW k, NEW key \in Keyed, SetKey(n, k, key) PROVE IInv'
  <2> DEFINE new == KeySet(console, n, k, key)
             c == [console EXCEPT !.keyers[n][k] = new]
  <2>1. Set(c)
    BY <1>5 DEF SetKey
  <2> HIDE DEF new
  <2>2. Alike(console, c)
    BY DEF Shape, Alike, IsConsole, Fields, IsSeq
  <2> QED BY <2>1, <2>2, SetKeeps
<1> QED BY <1>1, <1>2, <1>3, <1>4, <1>5

\* The calls on snapshots.
LEMMA SnapshotStep ==
  ASSUME IInv,
         \/ \E number, n, air : StoreSnapshot(number, n, air)
         \/ \E number \in Numbers : DeleteSnapshot(number)
         \/ \E number : SetStartup(number)
         \/ \E number \in Numbers, air \in BOOLEAN : RecallSnapshot(number, air)
  PROVE  IInv'
<1> USE DEF IInv
<1>1. ASSUME NEW snaps, NEW startup,
             Set([console EXCEPT !.snaps = snaps, !.startup = startup])
      PROVE  IInv'
  <2>1. Alike(console, [console EXCEPT !.snaps = snaps, !.startup = startup])
    BY DEF Shape, Alike, IsConsole, Fields, IsSeq
  <2> QED BY <1>1, <2>1, SetKeeps
<1>2. ASSUME NEW number, NEW n, NEW air, StoreSnapshot(number, n, air) PROVE IInv'
  <2>1. PICK new : Set([console EXCEPT !.snaps[number] = new])
    BY <1>2 DEF StoreSnapshot
  <2>2. Alike(console, [console EXCEPT !.snaps[number] = new])
    BY DEF Shape, Alike, IsConsole, Fields, IsSeq
  <2> QED BY <2>1, <2>2, SetKeeps
<1>3. ASSUME NEW number, DeleteSnapshot(number) PROVE IInv'
  <2> DEFINE s == IF console.startup = number THEN None ELSE console.startup
             c == [console EXCEPT !.snaps[number] = None, !.startup = s]
  <2>1. Set(c)
    BY <1>3 DEF DeleteSnapshot
  <2> HIDE DEF s
  <2>2. Alike(console, c)
    BY DEF Shape, Alike, IsConsole, Fields, IsSeq
  <2> QED BY <2>1, <2>2, SetKeeps
<1>4. ASSUME NEW number, SetStartup(number) PROVE IInv'
  <2>1. Alike(console, [console EXCEPT !.startup = number])
    BY DEF Shape, Alike, IsConsole, Fields, IsSeq
  <2> QED BY <1>4, <2>1, SetKeeps DEF SetStartup
<1>5. ASSUME NEW number, NEW air, RecallSnapshot(number, air) PROVE IInv'
  <2>1. Set(Recalled(console, console.snaps[number], air))
    BY <1>5 DEF RecallSnapshot
  <2>2. Alike(console, Recalled(console, console.snaps[number], air))
    BY RecalledAlike
  <2> QED BY <2>1, <2>2, SetKeeps
<1> QED BY <1>2, <1>3, <1>4, <1>5

\* A start gives the engine the structure that its own recall leaves.
LEMMA StartStep ==
  ASSUME IInv, NEW request, Start(request)
  PROVE  IInv'
<1> USE DEF IInv
<1> DEFINE b == StartBuses(console, request)
           c == OnProgram(console, 1, b.pgm)
           d == OnPreview(c, 1, b.pvw)
           ready == StartupRecalled(d)
<1>1. /\ state # "running" /\ console' = ready /\ booting' = Structure(ready)
      /\ asked' = "start" /\ UNCHANGED <<state, engine, stopping>>
  BY DEF Start
<1>2. Shape(c)
  BY OnProgramAlike, AlikeStructure
<1> HIDE DEF c
<1>3. Shape(d)
  BY <1>2, OnPreviewAlike, AlikeStructure
<1> HIDE DEF d
<1>4. Shape(ready)
  BY <1>3, StartupAlike, AlikeStructure
<1> HIDE DEF ready
<1>5. Shape(console)' /\ booting' = Structure(console)'
  BY <1>1, <1>4
<1> QED BY <1>1, <1>5 DEF Given, EngineAgrees, Stopped

\* The end of a start, a stop and a restart.
LEMMA EndsStep ==
  ASSUME IInv, Started \/ Stop \/ StopEnds \/ Restart
  PROVE  IInv'
<1>1. CASE Started
  BY <1>1 DEF Started, IInv, Given, EngineAgrees, Stopped, Shape, Structure, Render
<1>2. CASE Stop
  BY <1>2 DEF Stop, IInv, Given, EngineAgrees, Stopped, Shape, Structure, Render
<1>3. CASE StopEnds
  BY <1>3 DEF StopEnds, IInv, Given, EngineAgrees, Stopped, Shape, Structure, Render
<1>4. CASE Restart
  <2>1. Shape(Loaded(console))
    BY LoadedShape DEF IInv, Shape
  <2>2. /\ console' = Loaded(console) /\ state' = "idle" /\ booting' = None
         /\ engine' = None /\ stopping' = 0
    BY <1>4 DEF Restart
  <2>3. Shape(console)'
    BY <2>1, <2>2
  <2> QED BY <2>2, <2>3 DEF IInv, Given, EngineAgrees, Stopped
<1> QED BY <1>1, <1>2, <1>3, <1>4

\* Every step.
LEMMA StepKeeps == IInv /\ [Next]_vars => IInv'
<1> SUFFICES ASSUME IInv, [Next]_vars PROVE IInv'
  OBVIOUS
<1>1. CASE UNCHANGED vars
  BY <1>1 DEF vars, IInv, Given, EngineAgrees, Stopped, Shape, Structure, Render
<1>2. CASE \/ \E n \in MeCounts, source \in Chosen : Take(n, source) \/ SetPreview(n, source)
           \/ \E n \in MeCounts : Cut(n)
           \/ \E n \in MeCounts, ties \in SUBSET (1 .. Max(KeyCounts)), bkgd \in BOOLEAN :
                UpdateTransition(n, ties, bkgd)
           \/ \E n \in MeCounts, k \in 1 .. Max(KeyCounts) :
                SwitchKey(n, k) \/ \E key \in Keyed : SetKey(n, k, key)
  BY <1>2, PanelStep
<1>3. CASE \/ \E number \in Numbers, n \in {0} \cup MeCounts, air \in BOOLEAN :
                StoreSnapshot(number, n, air)
           \/ \E number \in Numbers : DeleteSnapshot(number) \/ SetStartup(number)
           \/ SetStartup(None)
           \/ \E number \in Numbers, air \in BOOLEAN : RecallSnapshot(number, air)
  BY <1>3, SnapshotStep
<1>4. CASE \E request \in Requests : Start(request)
  BY <1>4, StartStep
<1> QED BY <1>1, <1>2, <1>3, <1>4, StructureStep, EndsStep DEF Next

\* On air the engine has the inputs, MEs and keyers that the console numbers its
\* commands by, whatever layouts, documents, snapshots and starts there were.
THEOREM EngineNumbers == Spec => []EngineAgrees
<1>1. IInv => EngineAgrees
  BY DEF IInv
<1> QED BY <1>1, InitInv, StepKeeps, PTL DEF Spec

\* A stop that did not come during a start leaves the mixer off air until the
\* next start is asked for.
THEOREM StopsHold == Spec => []StopHolds
<1>1. IInv => StopHolds
  BY DEF IInv, Stopped, StopHolds
<1> QED BY <1>1, InitInv, StepKeeps, PTL DEF Spec

-----------------------------------------------------------------------------
(* Induction, as facts about sets *)

Below == {p \in Nat \X Nat : p[1] < p[2]}

\* A set of naturals has a least.
LEMMA Least1 ==
  ASSUME NEW T, T \subseteq Nat, T # {}
  PROVE  \E n \in T : \A m \in T : n <= m
<1>1. OpToRel(<, Nat) = Below
  BY DEF OpToRel, Below
<1>2. IsWellFoundedOn(Below, Nat)
  BY <1>1, NatLessThanWellFounded
<1>3. \E n \in T : \A m \in T : ~(<<m, n>> \in Below)
  BY <1>2, WFMin
<1>4. \A m, n \in Nat : m < n => <<m, n>> \in Below
  BY DEF Below
<1>5. \A m, n \in Nat : ~(m < n) => n <= m
  OBVIOUS
<1> QED BY <1>3, <1>4, <1>5

\* Induction over the naturals up to N, for a set.
LEMMA UptoInduction ==
  ASSUME NEW N \in Nat, NEW P, 0 \in P, \A n \in 1 .. N : n - 1 \in P => n \in P
  PROVE  0 .. N \subseteq P
<1> DEFINE T == (0 .. N) \ P
<1>1. SUFFICES ASSUME T # {} PROVE FALSE
  OBVIOUS
<1>2. T \subseteq Nat
  OBVIOUS
<1>3. PICK n \in T : \A m \in T : n <= m
  BY <1>1, <1>2, Least1
<1>4. n \in 1 .. N /\ n - 1 \in 0 .. N /\ ~(n <= n - 1)
  BY <1>3
<1>5. n - 1 \in P
  BY <1>3, <1>4
<1> QED BY <1>3, <1>4, <1>5

\* Induction over sequences, for a set.
LEMMA SeqInduction ==
  ASSUME NEW T, NEW P, << >> \in P,
         \A s \in Seq(T) : \A e \in T : s \in P => Append(s, e) \in P
  PROVE  Seq(T) \subseteq P
<1> DEFINE L == {Len(s) : s \in Seq(T) \ P}
<1>1. SUFFICES ASSUME NEW s \in Seq(T), s \notin P PROVE FALSE
  OBVIOUS
<1>2. L \subseteq Nat /\ L # {}
  BY <1>1, LenProperties
<1>3. PICK n \in L : \A m \in L : n <= m
  BY <1>2, Least1
<1>4. PICK t \in Seq(T) \ P : Len(t) = n
  BY <1>3
<1>5. t # << >>
  BY <1>4
<1>6. PICK u \in Seq(T), e \in T : t = Append(u, e)
  BY <1>4, <1>5, SequenceEmptyOrAppend
<1>7. Len(u) \in Nat /\ Len(t) = Len(u) + 1
  BY <1>6, LenProperties, AppendProperties
<1>8. u \in P
  BY <1>3, <1>4, <1>6, <1>7
<1> QED BY <1>4, <1>6, <1>8

-----------------------------------------------------------------------------
(* The elements of a sequence that are in a set, element by element *)

\* What Those computes up to n.
Selects(F, s, S, n) ==
  F = [i \in 0 .. n |-> IF i = 0 THEN << >>
                        ELSE IF s[i] \in S THEN Append(F[i - 1], s[i]) ELSE F[i - 1]]

\* It takes element i or leaves it.
LEMMA SelectsAt ==
  ASSUME NEW F, NEW s, NEW S, NEW n \in Nat, Selects(F, s, S, n)
  PROVE  /\ F[0] = << >>
         /\ \A i \in 1 .. n : F[i] = IF s[i] \in S THEN Append(F[i - 1], s[i]) ELSE F[i - 1]
<1>1. \A i \in 0 .. n : F[i] = IF i = 0 THEN << >>
                              ELSE IF s[i] \in S THEN Append(F[i - 1], s[i]) ELSE F[i - 1]
  BY Zenon DEF Selects
<1>2. 0 \in 0 .. n /\ \A i \in 1 .. n : i \in 0 .. n /\ i # 0
  OBVIOUS
<1> QED BY <1>1, <1>2

\* There is such a function, and one only.
LEMMA SelectsExists ==
  ASSUME NEW s, NEW S, NEW N \in Nat
  PROVE  \E F : Selects(F, s, S, N)
<1> DEFINE P == {n \in Nat : \E F : Selects(F, s, S, n)}
<1>1. 0 \in P
  <2> DEFINE F == [i \in 0 .. 0 |-> << >>]
  <2>1. Selects(F, s, S, 0)
    BY DEF Selects
  <2> QED BY <2>1
<1>2. ASSUME NEW n \in 1 .. N, n - 1 \in P PROVE n \in P
  <2>1. PICK F : Selects(F, s, S, n - 1)
    BY <1>2
  <2> DEFINE v == IF s[n] \in S THEN Append(F[n - 1], s[n]) ELSE F[n - 1]
             G == [i \in 0 .. n |-> IF i = n THEN v ELSE F[i]]
  <2>2. \A i \in 0 .. n - 1 : G[i] = F[i]
    OBVIOUS
  <2>3. \A i \in 1 .. n : G[i] = IF s[i] \in S THEN Append(G[i - 1], s[i]) ELSE G[i - 1]
    <3> SUFFICES ASSUME NEW i \in 1 .. n
                 PROVE  G[i] = IF s[i] \in S THEN Append(G[i - 1], s[i]) ELSE G[i - 1]
      OBVIOUS
    <3>1. CASE i = n
      BY <2>2, <3>1
    <3>2. CASE i # n
      <4>1. i \in 0 .. n - 1 /\ i - 1 \in 0 .. n - 1 /\ i # 0
        BY <3>2
      <4>2. F[i] = IF s[i] \in S THEN Append(F[i - 1], s[i]) ELSE F[i - 1]
        BY <2>1, <4>1 DEF Selects
      <4> QED BY <2>2, <4>1, <4>2
    <3> QED BY <3>1, <3>2
  <2>4. G[0] = << >>
    BY <2>1 DEF Selects
  <2>5. G = [i \in 0 .. n |-> G[i]]
    OBVIOUS
  <2> HIDE DEF G
  <2>6. Selects(G, s, S, n)
    <3>1. [i \in 0 .. n |-> IF i = 0 THEN << >>
             ELSE IF s[i] \in S THEN Append(G[i - 1], s[i]) ELSE G[i - 1]]
          = [i \in 0 .. n |-> G[i]]
      BY <2>3, <2>4
    <3> QED BY <2>5, <3>1 DEF Selects
  <2> QED BY <2>6
<1> HIDE DEF P
<1>3. N \in P
  BY <1>1, <1>2, UptoInduction
<1> QED BY <1>3 DEF P

\* The same elements give the same.
LEMMA SelectsSame ==
  ASSUME NEW s, NEW t, NEW S, NEW R, NEW N \in Nat, NEW M \in Nat, N <= M, NEW F, NEW G,
         Selects(F, s, S, N), Selects(G, t, R, M),
         \A i \in 1 .. N : s[i] = t[i] /\ (s[i] \in S <=> t[i] \in R)
  PROVE  F[N] = G[N]
<1> DEFINE P == {n \in Nat : F[n] = G[n]}
<1>1. 0 \in P
  BY DEF Selects
<1>2. ASSUME NEW n \in 1 .. N, n - 1 \in P PROVE n \in P
  <2>1. F[n - 1] = G[n - 1]
    BY <1>2
  <2>2. F[n] = IF s[n] \in S THEN Append(F[n - 1], s[n]) ELSE F[n - 1]
    BY SelectsAt
  <2>3. n \in 1 .. M
    OBVIOUS
  <2>4. G[n] = IF t[n] \in R THEN Append(G[n - 1], t[n]) ELSE G[n - 1]
    BY <2>3, SelectsAt
  <2> QED BY <2>1, <2>2, <2>4
<1> HIDE DEF P
<1>3. N \in P
  BY <1>1, <1>2, UptoInduction
<1> QED BY <1>3 DEF P

\* Those is what it computes up to the end.
LEMMA ThoseIsSelected ==
  ASSUME NEW s, NEW S, Len(s) \in Nat
  PROVE  \E F : Selects(F, s, S, Len(s)) /\ Those(s, S) = F[Len(s)]
<1> DEFINE Upto == CHOOSE F : F = [n \in 0 .. Len(s) |->
             IF n = 0 THEN << >>
             ELSE IF s[n] \in S THEN Append(F[n - 1], s[n]) ELSE F[n - 1]]
<1>1. Those(s, S) = Upto[Len(s)]
  BY DEF Those
<1>2. \E F : Selects(F, s, S, Len(s))
  BY SelectsExists
<1>3. \E F : F = [n \in 0 .. Len(s) |->
             IF n = 0 THEN << >>
             ELSE IF s[n] \in S THEN Append(F[n - 1], s[n]) ELSE F[n - 1]]
  BY <1>2, Zenon DEF Selects
<1>4. Selects(Upto, s, S, Len(s))
  BY <1>3, Zenon DEF Selects
<1> HIDE DEF Upto
<1> QED BY <1>1, <1>4

\* Of nothing it gives nothing.
LEMMA ThoseEmpty ==
  ASSUME NEW S
  PROVE  Those(<< >>, S) = << >>
<1>1. Len(<< >>) = 0
  OBVIOUS
<1>2. PICK F : Selects(F, << >>, S, 0) /\ Those(<< >>, S) = F[0]
  BY <1>1, ThoseIsSelected
<1> QED BY <1>2, SelectsAt

\* Of one element more, that one if it is in the set.
LEMMA ThoseAppend ==
  ASSUME NEW T, NEW s \in Seq(T), NEW e \in T, NEW S
  PROVE  Those(Append(s, e), S) = IF e \in S THEN Append(Those(s, S), e) ELSE Those(s, S)
<1> DEFINE t == Append(s, e)
           N == Len(s)
<1>1. N \in Nat /\ Len(t) = N + 1 /\ t[N + 1] = e /\ \A i \in 1 .. N : t[i] = s[i]
  BY LenProperties, AppendProperties
<1> HIDE DEF t
<1>2. PICK F : Selects(F, s, S, Len(s)) /\ Those(s, S) = F[Len(s)]
  BY <1>1, ThoseIsSelected
<1>3. PICK G : Selects(G, t, S, Len(t)) /\ Those(t, S) = G[Len(t)]
  BY <1>1, ThoseIsSelected
<1> DEFINE K == Len(t)
<1>4. /\ Selects(F, s, S, N) /\ Those(s, S) = F[N] /\ Selects(G, t, S, K) /\ Those(t, S) = G[K]
      /\ K \in Nat /\ K = N + 1 /\ K - 1 = N /\ K \in 1 .. K
  BY <1>1, <1>2, <1>3
<1> HIDE DEF N, K
<1>5. F[N] = G[N]
  BY <1>1, <1>4, SelectsSame
<1>6. \A i \in 1 .. K : G[i] = IF t[i] \in S THEN Append(G[i - 1], t[i]) ELSE G[i - 1]
  BY <1>4, SelectsAt
<1>7. G[K] = IF t[K] \in S THEN Append(G[N], t[K]) ELSE G[N]
  BY <1>4, <1>6
<1>8. Those(t, S) = IF e \in S THEN Append(Those(s, S), e) ELSE Those(s, S)
  BY <1>1, <1>4, <1>5, <1>7
<1> QED BY <1>8 DEF t

-----------------------------------------------------------------------------
(* What Those gives, for every sequence *)

\* The elements of a sequence.
LEMMA ElementsOf ==
  ASSUME NEW T, NEW s \in Seq(T)
  PROVE  ToSet(s) \subseteq T /\ ToSet(s) = {s[i] : i \in 1 .. Len(s)}
BY LenProperties, ElementOfSeq DEF ToSet

\* The empty sequence has none.
LEMMA ElementsEmpty == ToSet(<< >>) = {}
BY DEF ToSet

\* An appended element is one more.
LEMMA ElementsAppend ==
  ASSUME NEW T, NEW s \in Seq(T), NEW e \in T
  PROVE  ToSet(Append(s, e)) = ToSet(s) \cup {e}
<1> DEFINE t == Append(s, e)
           N == Len(s)
<1>1. N \in Nat /\ t \in Seq(T) /\ Len(t) = N + 1 /\ t[N + 1] = e /\ \A i \in 1 .. N : t[i] = s[i]
  BY LenProperties, AppendProperties
<1>2. ToSet(t) = {t[i] : i \in 1 .. N + 1} /\ ToSet(s) = {s[i] : i \in 1 .. N}
  BY <1>1, ElementsOf
<1> HIDE DEF t, N
<1>3. 1 .. N + 1 = (1 .. N) \cup {N + 1}
  BY <1>1
<1> QED BY <1>1, <1>2, <1>3 DEF t

\* Two sequences after one another have the elements of both.
LEMMA ElementsConcat ==
  ASSUME NEW T, NEW s \in Seq(T), NEW t \in Seq(T)
  PROVE  /\ s \o t \in Seq(T) /\ Len(s \o t) = Len(s) + Len(t)
         /\ ToSet(s \o t) = ToSet(s) \cup ToSet(t)
<1>1. /\ s \o t \in Seq(T) /\ Len(s \o t) = Len(s) + Len(t) /\ Len(s) \in Nat /\ Len(t) \in Nat
      /\ \A i \in 1 .. Len(s) + Len(t) : (s \o t)[i] = IF i <= Len(s) THEN s[i] ELSE t[i - Len(s)]
  BY ConcatProperties, LenProperties
<1> DEFINE u == s \o t
           M == Len(s)
           N == Len(t)
<1>2. /\ ToSet(u) = {u[i] : i \in 1 .. M + N}
      /\ ToSet(s) = {s[i] : i \in 1 .. M} /\ ToSet(t) = {t[i] : i \in 1 .. N}
  BY <1>1, ElementsOf
<1>3. M \in Nat /\ N \in Nat /\ \A i \in 1 .. M + N : u[i] = IF i <= M THEN s[i] ELSE t[i - M]
  BY <1>1
<1> HIDE DEF u, M, N
<1>4. ASSUME NEW x \in ToSet(u) PROVE x \in ToSet(s) \cup ToSet(t)
  <2>1. PICK i \in 1 .. M + N : x = u[i]
    BY <1>2
  <2>2. CASE i <= M
    BY <1>2, <1>3, <2>1, <2>2
  <2>3. CASE ~(i <= M)
    <3>1. i - M \in 1 .. N
      BY <1>3, <2>3
    <3> QED BY <1>2, <1>3, <2>1, <2>3, <3>1
  <2> QED BY <2>2, <2>3
<1>5. ASSUME NEW x \in ToSet(s) PROVE x \in ToSet(u)
  <2>1. PICK i \in 1 .. M : x = s[i]
    BY <1>2
  <2>2. i \in 1 .. M + N /\ i <= M
    BY <1>3
  <2> QED BY <1>2, <1>3, <2>1, <2>2
<1>6. ASSUME NEW x \in ToSet(t) PROVE x \in ToSet(u)
  <2>1. PICK i \in 1 .. N : x = t[i]
    BY <1>2
  <2>2. M + i \in 1 .. M + N /\ ~(M + i <= M) /\ M + i - M = i
    BY <1>3
  <2>3. u[M + i] = t[i]
    BY <1>3, <2>2
  <2> QED BY <1>2, <2>1, <2>2, <2>3
<1>7. ToSet(u) = ToSet(s) \cup ToSet(t)
  BY <1>4, <1>5, <1>6
<1> QED BY <1>1, <1>7 DEF u

\* Selecting keeps a sequence, its elements and their number.
LEMMA ThoseType ==
  ASSUME NEW T, NEW s \in Seq(T), NEW S
  PROVE  /\ Those(s, S) \in Seq(T) /\ ToSet(Those(s, S)) = ToSet(s) \cap S
         /\ Len(Those(s, S)) <= Len(s)
<1> DEFINE P == {u \in Seq(T) : /\ Those(u, S) \in Seq(T) /\ ToSet(Those(u, S)) = ToSet(u) \cap S
                               /\ Len(Those(u, S)) <= Len(u)}
<1>1. << >> \in P
  <2>1. << >> \in Seq(T) /\ Len(<< >>) <= Len(<< >>)
    OBVIOUS
  <2> QED BY <2>1, ThoseEmpty, ElementsEmpty
<1>2. ASSUME NEW u \in Seq(T), NEW e \in T, u \in P PROVE Append(u, e) \in P
  <2> DEFINE v == Those(u, S)
             w == Append(u, e)
  <2>1. v \in Seq(T) /\ ToSet(v) = ToSet(u) \cap S /\ Len(v) <= Len(u)
    BY <1>2
  <2>2. Those(w, S) = IF e \in S THEN Append(v, e) ELSE v
    BY ThoseAppend
  <2> HIDE DEF v
  <2>3. /\ w \in Seq(T) /\ Len(w) = Len(u) + 1 /\ Len(u) \in Nat /\ Len(v) \in Nat
        /\ Append(v, e) \in Seq(T) /\ Len(Append(v, e)) = Len(v) + 1
    BY <2>1, AppendProperties, LenProperties
  <2>4. ToSet(w) = ToSet(u) \cup {e} /\ ToSet(Append(v, e)) = ToSet(v) \cup {e}
    BY <2>1, ElementsAppend
  <2> HIDE DEF w
  <2> DEFINE x == Append(v, e)
  <2> HIDE DEF x
  <2>5. CASE e \in S
    <3>1. Those(w, S) = x
      BY <2>2, <2>5 DEF x
    <3>2. x \in Seq(T) /\ Len(x) <= Len(w) /\ ToSet(x) = ToSet(w) \cap S
      BY <2>1, <2>3, <2>4, <2>5 DEF x
    <3> QED BY <2>3, <3>1, <3>2 DEF w
  <2>6. CASE e \notin S
    <3>1. Those(w, S) = v
      BY <2>2, <2>6
    <3>2. v \in Seq(T) /\ Len(v) <= Len(w) /\ ToSet(v) = ToSet(w) \cap S
      BY <2>1, <2>3, <2>4, <2>6
    <3> QED BY <2>3, <3>1, <3>2 DEF w
  <2> QED BY <2>5, <2>6
<1> HIDE DEF P
<1>3. s \in P
  BY <1>1, <1>2, SeqInduction
<1> QED BY <1>3 DEF P

\* Sets that have the same of the elements select the same.
LEMMA ThoseSame ==
  ASSUME NEW T, NEW s \in Seq(T), NEW S, NEW R, ToSet(s) \cap S = ToSet(s) \cap R
  PROVE  Those(s, S) = Those(s, R)
<1> DEFINE P == {u \in Seq(T) : ToSet(u) \cap S = ToSet(u) \cap R => Those(u, S) = Those(u, R)}
<1>1. << >> \in P
  BY ThoseEmpty
<1>2. ASSUME NEW u \in Seq(T), NEW e \in T, u \in P PROVE Append(u, e) \in P
  <2> SUFFICES ASSUME ToSet(Append(u, e)) \cap S = ToSet(Append(u, e)) \cap R
               PROVE  Those(Append(u, e), S) = Those(Append(u, e), R)
    BY AppendProperties
  <2>1. ToSet(u) \cap S = ToSet(u) \cap R /\ (e \in S <=> e \in R)
    BY ElementsAppend
  <2>2. Those(u, S) = Those(u, R)
    BY <1>2, <2>1
  <2>3. \A Q : Those(Append(u, e), Q) = IF e \in Q THEN Append(Those(u, Q), e) ELSE Those(u, Q)
    BY ThoseAppend
  <2> QED BY <2>1, <2>2, <2>3
<1> HIDE DEF P
<1>3. s \in P
  BY <1>1, <1>2, SeqInduction
<1> QED BY <1>3 DEF P

\* A set of all of them selects the sequence.
LEMMA ThoseAll ==
  ASSUME NEW T, NEW s \in Seq(T), NEW S, ToSet(s) \subseteq S
  PROVE  Those(s, S) = s
<1> DEFINE P == {u \in Seq(T) : ToSet(u) \subseteq S => Those(u, S) = u}
<1>1. << >> \in P
  BY ThoseEmpty
<1>2. ASSUME NEW u \in Seq(T), NEW e \in T, u \in P PROVE Append(u, e) \in P
  BY <1>2, ElementsAppend, ThoseAppend, AppendProperties
<1> HIDE DEF P
<1>3. s \in P
  BY <1>1, <1>2, SeqInduction
<1> QED BY <1>3 DEF P

\* A set of none of them selects nothing.
LEMMA ThoseNone ==
  ASSUME NEW T, NEW s \in Seq(T), NEW S, ToSet(s) \cap S = {}
  PROVE  Those(s, S) = << >>
<1> DEFINE P == {u \in Seq(T) : ToSet(u) \cap S = {} => Those(u, S) = << >>}
<1>1. << >> \in P
  BY ThoseEmpty
<1>2. ASSUME NEW u \in Seq(T), NEW e \in T, u \in P PROVE Append(u, e) \in P
  BY <1>2, ElementsAppend, ThoseAppend, AppendProperties
<1> HIDE DEF P
<1>3. s \in P
  BY <1>1, <1>2, SeqInduction
<1> QED BY <1>3 DEF P

\* Selecting from two sequences after one another is selecting from each.
LEMMA ThoseConcat ==
  ASSUME NEW T, NEW s \in Seq(T), NEW t \in Seq(T), NEW S
  PROVE  Those(s \o t, S) = Those(s, S) \o Those(t, S)
<1> DEFINE P == {u \in Seq(T) : Those(s \o u, S) = Those(s, S) \o Those(u, S)}
<1>1. << >> \in P
  <2>1. s \o << >> = s /\ Those(s, S) \o << >> = Those(s, S)
    BY ConcatEmptySeq, ThoseType
  <2>2. << >> \in Seq(T) /\ Those(<< >>, S) = << >>
    BY ThoseEmpty
  <2> QED BY <2>1, <2>2
<1>2. ASSUME NEW u \in Seq(T), NEW e \in T, u \in P PROVE Append(u, e) \in P
  <2> DEFINE a == Those(s, S)
             b == Those(u, S)
  <2>1. s \o Append(u, e) = Append(s \o u, e) /\ s \o u \in Seq(T)
    BY ConcatAssociative, AppendIsConcat, ConcatProperties
  <2>2. a \in Seq(T) /\ b \in Seq(T) /\ Those(s \o u, S) = a \o b
    BY <1>2, ThoseType
  <2>3. Those(s \o Append(u, e), S) = IF e \in S THEN Append(a \o b, e) ELSE a \o b
    <3> DEFINE x == s \o u
    <3> HIDE DEF x
    <3>1. x \in Seq(T) /\ s \o Append(u, e) = Append(x, e) /\ Those(x, S) = a \o b
      BY <2>1, <2>2 DEF x
    <3> HIDE DEF a, b
    <3>2. Those(Append(x, e), S) = IF e \in S THEN Append(Those(x, S), e) ELSE Those(x, S)
      BY <3>1, ThoseAppend
    <3> QED BY <3>1, <3>2
  <2>4. Those(Append(u, e), S) = IF e \in S THEN Append(b, e) ELSE b
    BY ThoseAppend
  <2>5. a \o Append(b, e) = Append(a \o b, e)
    BY <2>2, ConcatAssociative, AppendIsConcat, ConcatProperties
  <2> QED BY <2>3, <2>4, <2>5, AppendProperties
<1> HIDE DEF P
<1>3. t \in P
  BY <1>1, <1>2, SeqInduction
<1> QED BY <1>3 DEF P

\* Selecting twice is selecting by both sets.
LEMMA ThoseThose ==
  ASSUME NEW T, NEW s \in Seq(T), NEW S, NEW R
  PROVE  Those(Those(s, S), R) = Those(s, S \cap R)
<1> DEFINE P == {u \in Seq(T) : Those(Those(u, S), R) = Those(u, S \cap R)}
<1>1. << >> \in P
  BY ThoseEmpty
<1>2. ASSUME NEW u \in Seq(T), NEW e \in T, u \in P PROVE Append(u, e) \in P
  <2>1. Those(u, S) \in Seq(T)
    BY ThoseType
  <2>2. Those(Append(u, e), S) = IF e \in S THEN Append(Those(u, S), e) ELSE Those(u, S)
    BY ThoseAppend
  <2>3. Those(Append(Those(u, S), e), R)
          = IF e \in R THEN Append(Those(Those(u, S), R), e) ELSE Those(Those(u, S), R)
    BY <2>1, ThoseAppend
  <2>4. Those(Append(u, e), S \cap R)
          = IF e \in S \cap R THEN Append(Those(u, S \cap R), e) ELSE Those(u, S \cap R)
    BY ThoseAppend
  <2>5. Append(u, e) \in Seq(T) /\ Those(Those(u, S), R) = Those(u, S \cap R)
    BY <1>2, AppendProperties
  <2>6. CASE e \in S
    <3>1. Those(Append(u, e), S) = Append(Those(u, S), e)
      BY <2>2, <2>6
    <3>2. Those(Append(u, e), S \cap R) = Those(Append(Those(u, S), e), R)
      BY <2>3, <2>4, <2>5, <2>6
    <3> QED BY <2>5, <3>1, <3>2
  <2>7. CASE e \notin S
    BY <2>2, <2>4, <2>5, <2>7
  <2> QED BY <2>6, <2>7
<1> HIDE DEF P
<1>3. s \in P
  BY <1>1, <1>2, SeqInduction
<1> QED BY <1>3 DEF P

-----------------------------------------------------------------------------
(* Sequences in which each element comes once *)

\* A sequence in which an element comes once stays one by an element it has not.
LEMMA OnceAppend ==
  ASSUME NEW T, NEW s \in Seq(T), NEW e \in T
  PROVE  IsInjective(Append(s, e)) <=> IsInjective(s) /\ e \notin ToSet(s)
<1> DEFINE t == Append(s, e)
           N == Len(s)
<1>1. /\ N \in Nat /\ t[N + 1] = e /\ \A i \in 1 .. N : t[i] = s[i]
      /\ DOMAIN t = 1 .. N + 1 /\ DOMAIN s = 1 .. N /\ ToSet(s) = {s[i] : i \in 1 .. N}
  BY LenProperties, AppendProperties, ElementsOf
<1> HIDE DEF t, N
<1>2. 1 .. N + 1 = (1 .. N) \cup {N + 1} /\ N + 1 \notin 1 .. N
  BY <1>1
<1>3. IsInjective(t) <=> IsInjective(s) /\ e \notin ToSet(s)
  BY <1>1, <1>2 DEF IsInjective
<1> QED BY <1>3 DEF t

\* In the empty sequence nothing comes twice.
LEMMA OnceEmpty == IsInjective(<< >>)
BY DEF IsInjective

\* Nor in what is selected from a sequence in which nothing does.
LEMMA OnceThose ==
  ASSUME NEW T, NEW s \in Seq(T), NEW S, IsInjective(s)
  PROVE  IsInjective(Those(s, S))
<1> DEFINE P == {u \in Seq(T) : IsInjective(u) => IsInjective(Those(u, S))}
<1>1. << >> \in P
  BY ThoseEmpty, OnceEmpty
<1>2. ASSUME NEW u \in Seq(T), NEW e \in T, u \in P PROVE Append(u, e) \in P
  <2> SUFFICES ASSUME IsInjective(Append(u, e)) PROVE IsInjective(Those(Append(u, e), S))
    BY AppendProperties
  <2>1. IsInjective(u) /\ e \notin ToSet(u)
    BY OnceAppend
  <2> DEFINE v == Those(u, S)
  <2>2. v \in Seq(T) /\ ToSet(v) \subseteq ToSet(u) /\ IsInjective(v)
    BY <1>2, <2>1, ThoseType
  <2>3. Those(Append(u, e), S) = IF e \in S THEN Append(v, e) ELSE v
    BY ThoseAppend
  <2> HIDE DEF v
  <2>4. IsInjective(Append(v, e))
    BY <2>1, <2>2, OnceAppend
  <2> QED BY <2>2, <2>3, <2>4
<1> HIDE DEF P
<1>3. s \in P
  BY <1>1, <1>2, SeqInduction
<1> QED BY <1>3 DEF P

\* Nor in two such sequences that share nothing.
LEMMA OnceConcat ==
  ASSUME NEW T, NEW s \in Seq(T), NEW t \in Seq(T), IsInjective(s), IsInjective(t),
         ToSet(s) \cap ToSet(t) = {}
  PROVE  IsInjective(s \o t)
<1> DEFINE P == {u \in Seq(T) : IsInjective(u) /\ ToSet(s) \cap ToSet(u) = {} => IsInjective(s \o u)}
<1>1. << >> \in P
  <2>1. << >> \in Seq(T) /\ s \o << >> = s
    BY ConcatEmptySeq
  <2> QED BY <2>1
<1>2. ASSUME NEW u \in Seq(T), NEW e \in T, u \in P PROVE Append(u, e) \in P
  <2> SUFFICES ASSUME IsInjective(Append(u, e)), ToSet(s) \cap ToSet(Append(u, e)) = {}
               PROVE  IsInjective(s \o Append(u, e))
    BY AppendProperties
  <2>1. IsInjective(u) /\ e \notin ToSet(u) /\ ToSet(Append(u, e)) = ToSet(u) \cup {e}
    BY OnceAppend, ElementsAppend
  <2>2. IsInjective(s \o u) /\ e \notin ToSet(s)
    BY <1>2, <2>1
  <2>3. s \o Append(u, e) = Append(s \o u, e) /\ s \o u \in Seq(T)
    BY ConcatAssociative, AppendIsConcat, ConcatProperties
  <2>4. e \notin ToSet(s \o u)
    BY <2>1, <2>2, ElementsConcat
  <2> DEFINE w == s \o u
  <2> HIDE DEF w
  <2>5. w \in Seq(T) /\ IsInjective(w) /\ e \notin ToSet(w) /\ s \o Append(u, e) = Append(w, e)
    BY <2>2, <2>3, <2>4 DEF w
  <2> QED BY <2>5, OnceAppend
<1> HIDE DEF P
<1>3. t \in P
  BY <1>1, <1>2, SeqInduction
<1> QED BY <1>3 DEF P

\* How many elements there are.
LEMMA CountElements ==
  ASSUME NEW T, NEW s \in Seq(T)
  PROVE  /\ IsFiniteSet(ToSet(s)) /\ Cardinality(ToSet(s)) \in Nat
         /\ Cardinality(ToSet(s)) <= Len(s)
         /\ IsInjective(s) => Cardinality(ToSet(s)) = Len(s)
<1> DEFINE P == {u \in Seq(T) :
                   /\ IsFiniteSet(ToSet(u)) /\ Cardinality(ToSet(u)) <= Len(u)
                   /\ IsInjective(u) => Cardinality(ToSet(u)) = Len(u)}
<1>1. << >> \in P
  <2>1. << >> \in Seq(T) /\ Len(<< >>) = 0
    OBVIOUS
  <2>2. IsFiniteSet(ToSet(<< >>)) /\ Cardinality(ToSet(<< >>)) = 0
    BY ElementsEmpty, FS_EmptySet
  <2> QED BY <2>1, <2>2
<1>2. ASSUME NEW u \in Seq(T), NEW e \in T, u \in P PROVE Append(u, e) \in P
  <2> DEFINE E == ToSet(u)
             w == Append(u, e)
  <2>1. IsFiniteSet(E) /\ Cardinality(E) <= Len(u) /\ (IsInjective(u) => Cardinality(E) = Len(u))
    BY <1>2
  <2>2. ToSet(w) = E \cup {e} /\ Len(w) = Len(u) + 1 /\ w \in Seq(T) /\ Len(u) \in Nat
    BY ElementsAppend, AppendProperties, LenProperties
  <2>3. IsInjective(w) => IsInjective(u) /\ e \notin E
    BY OnceAppend
  <2> HIDE DEF E, w
  <2>4. /\ IsFiniteSet(E \cup {e}) /\ Cardinality(E) \in Nat
        /\ Cardinality(E \cup {e}) = IF e \in E THEN Cardinality(E) ELSE Cardinality(E) + 1
    BY <2>1, FS_AddElement, FS_CardinalityType
  <2> DEFINE C == Cardinality(E)
             D == Cardinality(E \cup {e})
             L == Len(u)
             B == IsInjective(u)
             A == IsInjective(w)
  <2>5. /\ L \in Nat /\ C \in Nat /\ C <= L /\ (B => C = L) /\ Len(w) = L + 1
        /\ D = (IF e \in E THEN C ELSE C + 1) /\ (A => B /\ e \notin E)
    BY <2>1, <2>2, <2>3, <2>4
  <2>6. IsFiniteSet(ToSet(w)) /\ Cardinality(ToSet(w)) = D /\ w \in Seq(T)
    BY <2>2, <2>4
  <2> HIDE DEF A, B, C, D, L
  <2>7. D <= L + 1 /\ (A => D = L + 1)
    BY <2>5
  <2>8. w \in P
    BY <2>5, <2>6, <2>7 DEF A
  <2> QED BY <2>8 DEF w
<1> HIDE DEF P
<1>3. s \in P
  BY <1>1, <1>2, SeqInduction
<1>4. IsFiniteSet(ToSet(s))
  BY <1>3 DEF P
<1> QED BY <1>3, <1>4, FS_CardinalityType DEF P

\* A part of a sequence.
LEMMA PartOf ==
  ASSUME NEW T, NEW s \in Seq(T), NEW m \in 1 .. Len(s) + 1, NEW n \in 0 .. Len(s), m <= n + 1
  PROVE  /\ SubSeq(s, m, n) \in Seq(T) /\ Len(SubSeq(s, m, n)) = n - m + 1
         /\ ToSet(SubSeq(s, m, n)) \subseteq ToSet(s)
         /\ IsInjective(s) => IsInjective(SubSeq(s, m, n))
<1>1. Len(s) \in Nat /\ DOMAIN s = 1 .. Len(s) /\ \A i \in 1 .. Len(s) : s[i] \in T
  BY LenProperties, ElementOfSeq
<1>2. m \in Int /\ n \in Int /\ \A i \in m .. n : i \in 1 .. Len(s)
  BY <1>1
<1> DEFINE u == SubSeq(s, m, n)
           L == n - m + 1
<1>3. u \in Seq(T) /\ Len(u) = (IF m <= n THEN L ELSE 0) /\ \A i \in 1 .. L : u[i] = s[m + i - 1]
  BY <1>1, <1>2, SubSeqProperties
<1>4. Len(u) = L /\ L \in Nat
  BY <1>1, <1>3
<1>5. DOMAIN u = 1 .. L
  BY <1>3, <1>4, LenProperties
<1>6. ToSet(s) = {s[i] : i \in 1 .. Len(s)} /\ ToSet(u) = {u[i] : i \in 1 .. L}
  BY <1>3, <1>4, ElementsOf
<1> HIDE DEF u
<1>7. \A i \in 1 .. L : m + i - 1 \in 1 .. Len(s)
  BY <1>1
<1>8. ToSet(u) \subseteq ToSet(s)
  BY <1>3, <1>6, <1>7
<1>9. ASSUME IsInjective(s) PROVE IsInjective(u)
  <2> SUFFICES ASSUME NEW i \in 1 .. L, NEW j \in 1 .. L, u[i] = u[j] PROVE i = j
    BY <1>5 DEF IsInjective
  <2>1. s[m + i - 1] = s[m + j - 1]
    BY <1>3
  <2>2. m + i - 1 = m + j - 1
    BY <1>1, <1>7, <1>9, <2>1 DEF IsInjective
  <2> QED BY <2>2
<1> QED BY <1>3, <1>4, <1>8, <1>9 DEF u

\* Taking elements away makes a sequence shorter by as many.
LEMMA ThoseLeft ==
  ASSUME NEW T, NEW s \in Seq(T), IsInjective(s), NEW D, D \subseteq ToSet(s)
  PROVE  Len(Those(s, ToSet(s) \ D)) = Len(s) - Cardinality(D) /\ Cardinality(D) \in Nat
<1> DEFINE E == ToSet(s)
           v == Those(s, E \ D)
<1>1. v \in Seq(T) /\ ToSet(v) = E \cap (E \ D) /\ IsInjective(v)
  BY ThoseType, OnceThose
<1>2. Cardinality(ToSet(v)) = Len(v) /\ Cardinality(E) = Len(s) /\ IsFiniteSet(E)
  BY <1>1, CountElements
<1>3. IsFiniteSet(D)
  BY <1>2, FS_Subset
<1> HIDE DEF v, E
<1>4. ToSet(v) = E \ D /\ E \cap D = D
  BY <1>1 DEF E
<1>5. Cardinality(E \ D) = Cardinality(E) - Cardinality(D)
  BY <1>2, <1>4, FS_Difference
<1>6. Cardinality(D) \in Nat /\ Cardinality(E) \in Nat
  BY <1>2, <1>3, FS_CardinalityType
<1> QED BY <1>2, <1>4, <1>5, <1>6 DEF v, E

-----------------------------------------------------------------------------
(* Inputs *)

\* The ids and the inputs there can be.
Idents ==
  ToSet(Cams) \cup {"black", "clip-1"} \cup {i.id : i \in Registrable}
    \cup UNION {{i.id : i \in ToSet(doc.inputs)} : doc \in Docs}
Inputs == {Input(id, kind) : id \in Idents, kind \in ToSet(Kinds)}

\* A sequence of inputs, and one in which each comes once and no two have one id.
IsList(s) == s \in Seq(Inputs)
NoTwins(S) == \A i, j \in S : i.id = j.id => i = j
Listed(s) == IsList(s) /\ IsInjective(s) /\ NoTwins(ToSet(s))

IdsOf(s) == {i.id : i \in ToSet(s)}

\* Concatenation by a name of its own: the provers look into \o, as into Seq, whenever
\* they see it.
Cat(s, t) == s \o t

\* What Those selects from a list.
LEMMA ListThose ==
  ASSUME NEW s, IsList(s), NEW S
  PROVE  /\ IsList(Those(s, S)) /\ ToSet(Those(s, S)) = ToSet(s) \cap S
         /\ Len(Those(s, S)) <= Len(s)
         /\ IsInjective(s) => IsInjective(Those(s, S))
<1>1. s \in Seq(Inputs)
  BY DEF IsList
<1>2. Those(s, S) \in Seq(Inputs) /\ ToSet(Those(s, S)) = ToSet(s) \cap S /\ Len(Those(s, S)) <= Len(s)
  BY <1>1, ThoseType
<1>3. IsInjective(s) => IsInjective(Those(s, S))
  BY <1>1, OnceThose
<1> QED BY <1>2, <1>3 DEF IsList

LEMMA ListThoseAll ==
  ASSUME NEW s, IsList(s), NEW S, ToSet(s) \subseteq S
  PROVE  Those(s, S) = s
BY ThoseAll DEF IsList

LEMMA ListThoseNone ==
  ASSUME NEW s, IsList(s), NEW S, ToSet(s) \cap S = {}
  PROVE  Those(s, S) = << >>
BY ThoseNone DEF IsList

\* The empty list.
LEMMA ListEmpty == IsList(<< >>) /\ ToSet(<< >>) = {} /\ Len(<< >>) = 0 /\ IsInjective(<< >>)
BY ElementsEmpty, OnceEmpty DEF IsList

\* Lists after one another.
LEMMA ListCat ==
  ASSUME NEW s, IsList(s), NEW t, IsList(t)
  PROVE  /\ IsList(Cat(s, t)) /\ ToSet(Cat(s, t)) = ToSet(s) \cup ToSet(t)
         /\ Len(Cat(s, t)) = Len(s) + Len(t)
BY ElementsConcat DEF Cat, IsList

LEMMA ListCatThose ==
  ASSUME NEW s, IsList(s), NEW t, IsList(t), NEW S
  PROVE  Those(Cat(s, t), S) = Cat(Those(s, S), Those(t, S))
BY ThoseConcat, SMTT(30) DEF Cat, IsList

LEMMA ListCatOnce ==
  ASSUME NEW s, IsList(s), NEW t, IsList(t), IsInjective(s), IsInjective(t),
         ToSet(s) \cap ToSet(t) = {}
  PROVE  IsInjective(Cat(s, t))
BY OnceConcat DEF Cat, IsList

LEMMA ListCatEmpty ==
  ASSUME NEW s, IsList(s)
  PROVE  Cat(s, << >>) = s /\ Cat(<< >>, s) = s
BY ConcatEmptySeq DEF Cat, IsList

\* How many inputs a list has.
LEMMA ListCount ==
  ASSUME NEW s, IsList(s)
  PROVE  /\ Len(s) \in Nat /\ DOMAIN s = 1 .. Len(s)
         /\ ToSet(s) = {s[n] : n \in 1 .. Len(s)} /\ ToSet(s) \subseteq Inputs
         /\ IsFiniteSet(ToSet(s)) /\ Cardinality(ToSet(s)) \in Nat
         /\ Cardinality(ToSet(s)) <= Len(s)
         /\ IsInjective(s) => Cardinality(ToSet(s)) = Len(s)
<1>1. s \in Seq(Inputs)
  BY DEF IsList
<1>2. Len(s) \in Nat /\ DOMAIN s = 1 .. Len(s)
  BY <1>1, LenProperties
<1>3. ToSet(s) = {s[n] : n \in 1 .. Len(s)} /\ ToSet(s) \subseteq Inputs
  BY <1>1, ElementsOf
<1> QED BY <1>1, <1>2, <1>3, CountElements

\* A list with one input more.
LEMMA ListAppend ==
  ASSUME NEW s, IsList(s), NEW e \in Inputs
  PROVE  /\ IsList(Append(s, e)) /\ ToSet(Append(s, e)) = ToSet(s) \cup {e}
         /\ Len(Append(s, e)) = Len(s) + 1
         /\ IsInjective(s) /\ e \notin ToSet(s) => IsInjective(Append(s, e))
<1>1. s \in Seq(Inputs)
  BY DEF IsList
<1>2. Append(s, e) \in Seq(Inputs) /\ Len(Append(s, e)) = Len(s) + 1
  BY <1>1, AppendProperties
<1>3. ToSet(Append(s, e)) = ToSet(s) \cup {e}
  BY <1>1, ElementsAppend
<1>4. IsInjective(s) /\ e \notin ToSet(s) => IsInjective(Append(s, e))
  BY <1>1, OnceAppend
<1> QED BY <1>2, <1>3, <1>4 DEF IsList

\* The kinds of inputs.
LEMMA KindsAre == ToSet(Kinds) = {"live", "clip", "black"}
<1>1. Kinds \in Seq({"live", "clip", "black"}) /\ Len(Kinds) = 3
  BY DEF Kinds
<1>2. ToSet(Kinds) = {Kinds[i] : i \in 1 .. 3}
  BY <1>1, ElementsOf
<1>3. 1 .. 3 = {1, 2, 3} /\ Kinds[1] = "live" /\ Kinds[2] = "clip" /\ Kinds[3] = "black"
  BY DEF Kinds
<1> HIDE DEF Kinds
<1> QED BY <1>2, <1>3

\* What an input is.
LEMMA InputsAre ==
  ASSUME NEW i \in Inputs
  PROVE  i = Input(i.id, i.kind) /\ i.id \in Idents /\ i.kind \in {"live", "clip", "black"}
<1>1. PICK id \in Idents, kind \in {"live", "clip", "black"} : i = Input(id, kind)
  BY KindsAre DEF Inputs
<1> QED BY <1>1 DEF Input

LEMMA InputsHave ==
  ASSUME NEW id \in Idents, NEW kind \in {"live", "clip", "black"}
  PROVE  Input(id, kind) \in Inputs /\ Input(id, kind).id = id /\ Input(id, kind).kind = kind
BY KindsAre DEF Inputs, Input

-----------------------------------------------------------------------------
(* Numbering *)

\* The inputs of a kind.
LEMMA OfType ==
  ASSUME NEW s, IsList(s), NEW kind
  PROVE  /\ IsList(Of(kind, s)) /\ ToSet(Of(kind, s)) = {i \in ToSet(s) : i.kind = kind}
         /\ IsInjective(s) => IsInjective(Of(kind, s))
<1> DEFINE S == {i \in ToSet(s) : i.kind = kind}
<1>1. Of(kind, s) = Those(s, S)
  BY DEF Of
<1>2. ToSet(s) \cap S = S
  OBVIOUS
<1> HIDE DEF S
<1>3. /\ IsList(Those(s, S)) /\ ToSet(Those(s, S)) = ToSet(s) \cap S
      /\ IsInjective(s) => IsInjective(Those(s, S))
  BY ListThose
<1> QED BY <1>1, <1>2, <1>3 DEF S

\* The inputs of a kind, of a list of that kind, and of a list of others.
OfKind(E, kind) == {i \in E : i.kind = kind}

\* Selecting a kind from a list of it, and from a list of others.
LEMMA OfOwn ==
  ASSUME NEW a, IsList(a), NEW kind, \A i \in ToSet(a) : i.kind = kind,
         NEW E, ToSet(a) \subseteq E
  PROVE  Those(a, OfKind(E, kind)) = a
<1>1. ToSet(a) \subseteq OfKind(E, kind)
  BY DEF OfKind
<1> QED BY <1>1, ListThoseAll

LEMMA OfOther ==
  ASSUME NEW a, IsList(a), NEW kind, \A i \in ToSet(a) : i.kind # kind, NEW E
  PROVE  Those(a, OfKind(E, kind)) = << >>
<1>1. ToSet(a) \cap OfKind(E, kind) = {}
  BY DEF OfKind
<1> QED BY <1>1, ListThoseNone

\* Renumbering by the name of its own for concatenation.
LEMMA RenumberedIs ==
  ASSUME NEW s
  PROVE  Renumbered(s) = Cat(Cat(Of("live", s), Of("clip", s)), Of("black", s))
BY DEF Renumbered, Cat

\* Live inputs, clip players and Black in this order are numbered.
LEMMA InOrder ==
  ASSUME NEW a, IsList(a), NEW b, IsList(b), NEW c, IsList(c),
         \A i \in ToSet(a) : i.kind = "live", \A i \in ToSet(b) : i.kind = "clip",
         \A i \in ToSet(c) : i.kind = "black"
  PROVE  Renumbered(Cat(Cat(a, b), c)) = Cat(Cat(a, b), c)
<1> DEFINE s == Cat(Cat(a, b), c)
           X(kind) == OfKind(ToSet(s), kind)
<1>1. IsList(Cat(a, b)) /\ ToSet(s) = ToSet(a) \cup ToSet(b) \cup ToSet(c)
  BY ListCat
<1>2. \A kind : Of(kind, s) = Those(s, X(kind))
  BY DEF Of, OfKind
<1>3. \A S : Those(s, S) = Cat(Cat(Those(a, S), Those(b, S)), Those(c, S))
  BY <1>1, ListCatThose
<1> HIDE DEF s
<1>4. /\ Those(a, X("live")) = a /\ Those(a, X("clip")) = << >> /\ Those(a, X("black")) = << >>
  BY <1>1, OfOwn, OfOther
<1>5. /\ Those(b, X("live")) = << >> /\ Those(b, X("clip")) = b /\ Those(b, X("black")) = << >>
  BY <1>1, OfOwn, OfOther
<1>6. /\ Those(c, X("live")) = << >> /\ Those(c, X("clip")) = << >> /\ Those(c, X("black")) = c
  BY <1>1, OfOwn, OfOther
<1> HIDE DEF X
<1>7. Of("live", s) = Cat(Cat(a, << >>), << >>)
  BY <1>2, <1>3, <1>4, <1>5, <1>6
<1>8. Of("clip", s) = Cat(Cat(<< >>, b), << >>)
  BY <1>2, <1>3, <1>4, <1>5, <1>6
<1>9. Of("black", s) = Cat(Cat(<< >>, << >>), c)
  BY <1>2, <1>3, <1>4, <1>5, <1>6
<1>10. IsList(<< >>)
  BY ListEmpty
<1>11. Of("live", s) = a /\ Of("clip", s) = b /\ Of("black", s) = c
  BY <1>7, <1>8, <1>9, <1>10, ListCatEmpty
<1> QED BY <1>11, RenumberedIs DEF s

\* The kinds of a list, each in its order.
LEMMA OfThree ==
  ASSUME NEW s, IsList(s)
  PROVE  /\ IsList(Of("live", s)) /\ \A i \in ToSet(Of("live", s)) : i.kind = "live"
         /\ IsList(Of("clip", s)) /\ \A i \in ToSet(Of("clip", s)) : i.kind = "clip"
         /\ IsList(Of("black", s)) /\ \A i \in ToSet(Of("black", s)) : i.kind = "black"
         /\ ToSet(Of("live", s)) \cup ToSet(Of("clip", s)) \cup ToSet(Of("black", s)) = ToSet(s)
<1>1. \A kind : IsList(Of(kind, s)) /\ ToSet(Of(kind, s)) = OfKind(ToSet(s), kind)
  BY OfType DEF OfKind
<1>2. \A i \in ToSet(s) : i.kind \in {"live", "clip", "black"}
  BY ListCount, InputsAre
<1> QED BY <1>1, <1>2 DEF OfKind

\* Renumbering keeps the inputs, and doing it again changes nothing.
LEMMA RenumberedType ==
  ASSUME NEW s, IsList(s)
  PROVE  /\ IsList(Renumbered(s)) /\ ToSet(Renumbered(s)) = ToSet(s)
         /\ Renumbered(Renumbered(s)) = Renumbered(s)
<1> DEFINE a == Of("live", s)
           b == Of("clip", s)
           c == Of("black", s)
<1>1. /\ IsList(a) /\ IsList(b) /\ IsList(c)
      /\ \A i \in ToSet(a) : i.kind = "live"
      /\ \A i \in ToSet(b) : i.kind = "clip"
      /\ \A i \in ToSet(c) : i.kind = "black"
      /\ ToSet(a) \cup ToSet(b) \cup ToSet(c) = ToSet(s)
  BY OfThree
<1>2. Renumbered(s) = Cat(Cat(a, b), c)
  BY RenumberedIs
<1> HIDE DEF a, b, c
<1>3. IsList(Cat(Cat(a, b), c)) /\ ToSet(Cat(Cat(a, b), c)) = ToSet(s)
  BY <1>1, ListCat
<1>4. Renumbered(Cat(Cat(a, b), c)) = Cat(Cat(a, b), c)
  BY <1>1, InOrder
<1> QED BY <1>2, <1>3, <1>4

\* The same for lists in which each input comes once.
LEMMA RenumberedListed ==
  ASSUME NEW s, Listed(s)
  PROVE  /\ Listed(Renumbered(s)) /\ Len(Renumbered(s)) = Len(s)
         /\ ToSet(Renumbered(s)) = ToSet(s) /\ Renumbered(Renumbered(s)) = Renumbered(s)
<1> DEFINE a == Of("live", s)
           b == Of("clip", s)
           c == Of("black", s)
           r == Renumbered(s)
<1>1. /\ IsList(a) /\ IsList(b) /\ IsList(c)
      /\ \A i \in ToSet(a) : i.kind = "live"
      /\ \A i \in ToSet(b) : i.kind = "clip"
      /\ \A i \in ToSet(c) : i.kind = "black"
      /\ IsInjective(a) /\ IsInjective(b) /\ IsInjective(c)
  BY OfThree, OfType DEF Listed
<1>2. r = Cat(Cat(a, b), c)
  BY RenumberedIs
<1>3. IsList(r) /\ ToSet(r) = ToSet(s) /\ Renumbered(r) = r
  BY RenumberedType DEF Listed
<1> HIDE DEF a, b, c, r
<1> DEFINE d == Cat(a, b)
<1>4. IsList(d) /\ ToSet(d) = ToSet(a) \cup ToSet(b) /\ IsInjective(d)
  <2>1. ToSet(a) \cap ToSet(b) = {}
    BY <1>1
  <2> QED BY <1>1, <2>1, ListCat, ListCatOnce
<1> HIDE DEF d
<1>5. IsInjective(r)
  <2>1. ToSet(d) \cap ToSet(c) = {}
    BY <1>1, <1>4
  <2>2. r = Cat(d, c)
    BY <1>2 DEF d
  <2> QED BY <1>1, <1>4, <2>1, <2>2, ListCatOnce
<1>6. Len(r) = Len(s)
  BY <1>3, <1>5, ListCount DEF Listed
<1>7. Listed(r)
  BY <1>3, <1>5 DEF Listed
<1> QED BY <1>3, <1>6, <1>7 DEF r

\* What is numbered stays numbered when some are taken away.
LEMMA NumberedThose ==
  ASSUME NEW s, IsList(s), Renumbered(s) = s, NEW S
  PROVE  Renumbered(Those(s, S)) = Those(s, S)
<1> DEFINE a == Of("live", s)
           b == Of("clip", s)
           c == Of("black", s)
           x == Those(a, S)
           y == Those(b, S)
           z == Those(c, S)
<1>1. /\ IsList(a) /\ IsList(b) /\ IsList(c)
      /\ \A i \in ToSet(a) : i.kind = "live"
      /\ \A i \in ToSet(b) : i.kind = "clip"
      /\ \A i \in ToSet(c) : i.kind = "black"
  BY OfThree
<1>2. s = Cat(Cat(a, b), c)
  BY RenumberedIs
<1> HIDE DEF a, b, c
<1>3. Those(s, S) = Cat(Cat(x, y), z)
  <2>1. IsList(Cat(a, b))
    BY <1>1, ListCat
  <2>2. Those(Cat(Cat(a, b), c), S) = Cat(Those(Cat(a, b), S), z)
    BY <1>1, <2>1, ListCatThose
  <2>3. Those(Cat(a, b), S) = Cat(x, y)
    BY <1>1, ListCatThose
  <2> QED BY <1>2, <2>2, <2>3
<1>4. /\ IsList(x) /\ IsList(y) /\ IsList(z)
      /\ ToSet(x) \subseteq ToSet(a) /\ ToSet(y) \subseteq ToSet(b) /\ ToSet(z) \subseteq ToSet(c)
  BY <1>1, ListThose
<1> HIDE DEF x, y, z
<1>5. /\ \A i \in ToSet(x) : i.kind = "live"
      /\ \A i \in ToSet(y) : i.kind = "clip"
      /\ \A i \in ToSet(z) : i.kind = "black"
  BY <1>1, <1>4
<1>6. Renumbered(Cat(Cat(x, y), z)) = Cat(Cat(x, y), z)
  BY <1>4, <1>5, InOrder
<1> QED BY <1>3, <1>6

\* What Those selects from such a list.
LEMMA ThoseListed ==
  ASSUME NEW s, Listed(s), NEW S
  PROVE  Listed(Those(s, S)) /\ ToSet(Those(s, S)) = ToSet(s) \cap S
<1>1. IsList(s)
  BY DEF Listed
<1>2. IsList(Those(s, S)) /\ ToSet(Those(s, S)) = ToSet(s) \cap S /\ IsInjective(Those(s, S))
  BY <1>1, ListThose DEF Listed
<1> QED BY <1>2 DEF Listed, NoTwins

-----------------------------------------------------------------------------
(* The ids of MEs *)

\* There are four, all different.
LEMMA MesAre ==
  /\ Len(Mes) = 4 /\ DOMAIN Mes = 1 .. 4 /\ ToSet(Mes) = {"me-1", "me-2", "me-3", "me-4"}
  /\ \A m, n \in 1 .. 4 : Mes[m] = Mes[n] => m = n
  /\ \A m \in 1 .. 4 : Mes[m] \in ToSet(Mes)
<1>1. Mes \in Seq({"me-1", "me-2", "me-3", "me-4"}) /\ Len(Mes) = 4
  BY DEF Mes
<1>2. ToSet(Mes) = {Mes[i] : i \in 1 .. 4}
  <2>1. ToSet(Mes) = {Mes[i] : i \in 1 .. Len(Mes)}
    BY <1>1, ElementsOf
  <2> QED BY <1>1, <2>1
<1>3. DOMAIN Mes = 1 .. 4
  BY <1>1, LenProperties
<1>4. /\ 1 .. 4 = {1, 2, 3, 4}
      /\ Mes[1] = "me-1" /\ Mes[2] = "me-2" /\ Mes[3] = "me-3" /\ Mes[4] = "me-4"
  BY DEF Mes
<1> HIDE DEF Mes
<1> QED BY <1>1, <1>2, <1>3, <1>4

\* An input has one only if a client gave it.
LEMMA IdentsApart == Idents \cap ToSet(Mes) \subseteq InputIds /\ None \notin ToSet(Mes)
<1>1. None \notin ToSet(Mes) /\ ToSet(Cams) \cap ToSet(Mes) = {}
  BY NamesAssumption
<1>2. {"black", "clip-1"} \cap ToSet(Mes) = {}
  BY MesAre
<1>3. \A i \in Registrable : i.id \in InputIds
  BY DEF InputIds
<1>4. \A doc \in Docs : \A i \in ToSet(doc.inputs) : i.id \in InputIds
  BY DEF InputIds
<1> QED BY <1>1, <1>2, <1>3, <1>4 DEF Idents

-----------------------------------------------------------------------------
(* A larger layout *)

\* A list without an id.
LEMMA WithoutListed ==
  ASSUME NEW s, Listed(s), NEW id
  PROVE  /\ Listed(Without(s, id)) /\ Len(Without(s, id)) <= Len(s)
         /\ ToSet(Without(s, id)) = {i \in ToSet(s) : i.id # id}
<1> DEFINE S == {i \in ToSet(s) : i.id # id}
<1>1. Without(s, id) = Those(s, S) /\ S \subseteq ToSet(s)
  BY DEF Without
<1> HIDE DEF S
<1>2. Listed(Those(s, S)) /\ ToSet(Those(s, S)) = ToSet(s) \cap S
  BY ThoseListed
<1>3. Len(Those(s, S)) <= Len(s)
  BY ListThose DEF Listed
<1>4. ToSet(Without(s, id)) = S
  BY <1>1, <1>2
<1> QED BY <1>1, <1>2, <1>3, <1>4 DEF S

\* A list with an input that takes the place of any of its id.
LEMMA AddedListed ==
  ASSUME NEW s, Listed(s), NEW id \in Idents, NEW kind \in {"live", "clip", "black"}
  PROVE  Listed(Added(s, id, kind)) /\ Len(Added(s, id, kind)) <= Len(s) + 1
<1> DEFINE w == Without(s, id)
           e == Input(id, kind)
<1>1. Listed(w) /\ Len(w) <= Len(s) /\ ToSet(w) = {i \in ToSet(s) : i.id # id}
  BY WithoutListed
<1>2. e \in Inputs /\ e.id = id
  BY InputsHave
<1>3. Added(s, id, kind) = Append(w, e)
  BY DEF Added
<1>4. Len(w) \in Nat /\ Len(s) \in Nat
  BY <1>1, ListCount DEF Listed
<1> HIDE DEF w, e
<1>5. e \notin ToSet(w)
  BY <1>1, <1>2
<1>6. /\ IsList(Append(w, e)) /\ ToSet(Append(w, e)) = ToSet(w) \cup {e}
      /\ Len(Append(w, e)) = Len(w) + 1 /\ IsInjective(Append(w, e))
  BY <1>1, <1>2, <1>5, ListAppend DEF Listed
<1>7. NoTwins(ToSet(w) \cup {e})
  BY <1>1, <1>2 DEF Listed, NoTwins
<1> QED BY <1>1, <1>3, <1>4, <1>6, <1>7 DEF Listed

\* A list with an input of a kind when it has none.
LEMMA LeastListed ==
  ASSUME NEW s, Listed(s), NEW count \in Nat, Len(s) <= count,
         NEW id \in Idents, NEW kind \in {"live", "clip", "black"}
  PROVE  Listed(Least(s, count, id, kind)) /\ Len(Least(s, count, id, kind)) <= count
<1>1. Len(s) \in Nat
  BY ListCount DEF Listed
<1>2. CASE Len(s) < count /\ Of(kind, s) = << >>
  <2>1. Least(s, count, id, kind) = Added(s, id, kind)
    BY <1>2 DEF Least
  <2>2. Listed(Added(s, id, kind)) /\ Len(Added(s, id, kind)) <= Len(s) + 1
    BY AddedListed
  <2>3. Len(Added(s, id, kind)) \in Nat
    BY <2>2, ListCount DEF Listed
  <2> QED BY <1>1, <1>2, <2>1, <2>2, <2>3
<1>3. CASE ~(Len(s) < count /\ Of(kind, s) = << >>)
  BY <1>3 DEF Least
<1> QED BY <1>2, <1>3

\* The cameras that no input has the id of are as many as are left, or more.
LEMMA FreeCams ==
  ASSUME NEW s, IsList(s)
  PROVE  LET free == Those(Cams, ToSet(Cams) \ {i.id : i \in ToSet(s)}) IN
           /\ free \in Seq(ToSet(Cams)) /\ IsInjective(free)
           /\ ToSet(free) = ToSet(Cams) \ {i.id : i \in ToSet(s)}
           /\ Len(Cams) \in Nat /\ Len(free) >= Len(Cams) - Len(s)
<1> DEFINE T == ToSet(Cams)
           ids == {i.id : i \in ToSet(s)}
           D == T \cap ids
           free == Those(Cams, T \ ids)
<1>1. Cams \in Seq(T) /\ IsInjective(Cams)
  BY NamesAssumption DEF IsInjective
<1>2. T \ ids = T \ D
  OBVIOUS
<1>3. IsFiniteSet(ToSet(s)) /\ Cardinality(ToSet(s)) <= Len(s) /\ Len(s) \in Nat
      /\ Cardinality(ToSet(s)) \in Nat
  BY ListCount
<1>4. IsFiniteSet(ids) /\ Cardinality(ids) <= Cardinality(ToSet(s))
  <2>1. \A E : IsFiniteSet(E) => IsFiniteSet({i.id : i \in E}) /\ Cardinality({i.id : i \in E}) <= Cardinality(E)
    <3> SUFFICES ASSUME NEW E, IsFiniteSet(E)
                 PROVE  IsFiniteSet({i.id : i \in E}) /\ Cardinality({i.id : i \in E}) <= Cardinality(E)
      OBVIOUS
    <3> DEFINE f == [i \in E |-> i.id]
               I == {i.id : i \in E}
    <3>1. f \in Surjection(E, I)
      BY DEF Surjection
    <3> QED BY <3>1, FS_Surjection
  <2> QED BY <1>3, <2>1
<1>5. Cardinality(D) <= Cardinality(ids) /\ Cardinality(D) \in Nat /\ Cardinality(ids) \in Nat
  <2>1. IsFiniteSet(D) /\ Cardinality(D) <= Cardinality(ids)
    BY <1>4, FS_Subset
  <2> QED BY <1>4, <2>1, FS_CardinalityType
<1>6. Len(Cams) \in Nat
  BY <1>1, LenProperties
<1> HIDE DEF D, ids
<1>7. Len(Those(Cams, T \ D)) = Len(Cams) - Cardinality(D)
  <2>1. D \subseteq T
    BY DEF D
  <2> QED BY <1>1, <2>1, ThoseLeft
<1>8. Len(free) >= Len(Cams) - Len(s)
  <2>1. free = Those(Cams, T \ D)
    BY <1>2
  <2> HIDE DEF free, T
  <2>2. Len(free) = Len(Cams) - Cardinality(D)
    BY <1>7, <2>1
  <2> QED BY <1>3, <1>4, <1>5, <1>6, <2>2
<1>9. free \in Seq(T) /\ ToSet(free) = T \cap (T \ ids) /\ IsInjective(free)
  BY <1>1, ThoseType, OnceThose
<1>10. T \cap (T \ ids) = T \ ids
  OBVIOUS
<1> QED BY <1>6, <1>8, <1>9, <1>10 DEF ids

\* Live inputs of the ids of a sequence.
LEMMA CamsListed ==
  ASSUME NEW new \in Seq(Idents), IsInjective(new)
  PROVE  LET cams == [k \in DOMAIN new |-> Input(new[k], "live")] IN
           /\ Listed(cams) /\ Len(cams) = Len(new) /\ {i.id : i \in ToSet(cams)} = ToSet(new)
<1> DEFINE N == Len(new)
           cams == [k \in DOMAIN new |-> Input(new[k], "live")]
<1>1. /\ N \in Nat /\ DOMAIN new = 1 .. N /\ \A k \in 1 .. N : new[k] \in Idents
      /\ ToSet(new) = {new[k] : k \in 1 .. N}
  BY LenProperties, ElementOfSeq, ElementsOf
<1>2. \A k \in 1 .. N : cams[k] \in Inputs /\ cams[k].id = new[k]
  BY <1>1, InputsHave
<1>3. cams = [k \in 1 .. N |-> cams[k]]
  BY <1>1
<1> HIDE DEF cams
<1>4. cams \in [1 .. N -> Inputs]
  BY <1>2, <1>3
<1>5. cams \in Seq(Inputs)
  BY <1>1, <1>4, SeqDef
<1> HIDE DEF N
<1>6. Len(cams) = N
  BY <1>1, <1>3, LenIs
<1>7. DOMAIN cams = 1 .. N /\ ToSet(cams) = {cams[k] : k \in 1 .. N}
  BY <1>5, <1>6, LenProperties, ElementsOf
<1>8. {i.id : i \in ToSet(cams)} = ToSet(new)
  BY <1>1, <1>2, <1>7
<1>9. \A k, j \in 1 .. N : cams[k].id = cams[j].id => k = j
  BY <1>1, <1>2 DEF IsInjective
<1>10. IsInjective(cams) /\ NoTwins(ToSet(cams))
  BY <1>7, <1>9 DEF IsInjective, NoTwins
<1> QED BY <1>5, <1>6, <1>8, <1>10 DEF Listed, IsList, N, cams

\* Cameras fill a list up to the layout.
LEMMA CamsAdded ==
  ASSUME NEW s, Listed(s), NEW count \in Counts, Len(s) <= count
  PROVE  /\ Listed(NewCams(s, count) \o s) /\ Len(NewCams(s, count) \o s) = count
<1> DEFINE free == Those(Cams, ToSet(Cams) \ {i.id : i \in ToSet(s)})
           new == IF Len(s) >= count THEN << >> ELSE SubSeq(free, 1, count - Len(s))
           cams == [k \in DOMAIN new |-> Input(new[k], "live")]
<1>1. NewCams(s, count) = cams
  BY DEF NewCams
<1>2. /\ free \in Seq(ToSet(Cams)) /\ IsInjective(free)
      /\ ToSet(free) = ToSet(Cams) \ {i.id : i \in ToSet(s)}
      /\ Len(Cams) \in Nat /\ Len(free) >= Len(Cams) - Len(s)
  BY FreeCams DEF Listed
<1>3. Len(s) \in Nat /\ IsList(s)
  BY ListCount DEF Listed
<1>4. count \in Nat /\ count <= Len(Cams)
  BY WorkspaceAssumption, NamesAssumption
<1>5. Len(free) \in Nat
  BY <1>2, LenProperties
<1> HIDE DEF free
<1>6. /\ new \in Seq(ToSet(Cams)) /\ Len(new) = count - Len(s) /\ ToSet(new) \subseteq ToSet(free)
      /\ IsInjective(new)
  <2>1. CASE Len(s) >= count
    <3>1. count - Len(s) = 0 /\ new = << >>
      BY <1>3, <1>4, <2>1
    <3> HIDE DEF new
    <3>2. << >> \in Seq(ToSet(Cams)) /\ Len(<< >>) = 0
      OBVIOUS
    <3> QED BY <3>1, <3>2, ListEmpty
  <2>2. CASE ~(Len(s) >= count)
    <3> DEFINE n == count - Len(s)
    <3>1. n \in 0 .. Len(free) /\ 1 \in 1 .. Len(free) + 1 /\ 1 <= n + 1 /\ n - 1 + 1 = n
      BY <1>2, <1>3, <1>4, <1>5, <2>2
    <3>2. new = SubSeq(free, 1, n)
      BY <2>2
    <3> HIDE DEF n, new
    <3>3. /\ SubSeq(free, 1, n) \in Seq(ToSet(Cams)) /\ Len(SubSeq(free, 1, n)) = n - 1 + 1
          /\ ToSet(SubSeq(free, 1, n)) \subseteq ToSet(free) /\ IsInjective(SubSeq(free, 1, n))
      BY <1>2, <3>1, PartOf
    <3> QED BY <3>1, <3>2, <3>3 DEF n
  <2> QED BY <2>1, <2>2
<1> HIDE DEF new
<1>7. ToSet(Cams) \subseteq Idents
  BY DEF Idents
<1>8. new \in Seq(Idents)
  BY <1>6, <1>7, SeqMonotonic
<1>9. Listed(cams) /\ Len(cams) = Len(new) /\ {i.id : i \in ToSet(cams)} = ToSet(new)
  BY <1>6, <1>8, CamsListed
<1> HIDE DEF cams
<1>10. ASSUME NEW i \in ToSet(cams), NEW j \in ToSet(s) PROVE i.id # j.id
  BY <1>2, <1>6, <1>9
<1>11. ToSet(cams) \cap ToSet(s) = {}
  BY <1>10
<1>12. /\ IsList(Cat(cams, s)) /\ ToSet(Cat(cams, s)) = ToSet(cams) \cup ToSet(s)
       /\ Len(Cat(cams, s)) = Len(cams) + Len(s) /\ IsInjective(Cat(cams, s))
  BY <1>9, <1>11, ListCat, ListCatOnce DEF Listed
<1>13. NoTwins(ToSet(cams) \cup ToSet(s))
  BY <1>9, <1>10 DEF Listed, NoTwins
<1>14. Listed(Cat(cams, s)) /\ Len(Cat(cams, s)) = count
  BY <1>3, <1>4, <1>6, <1>9, <1>12, <1>13 DEF Listed
<1> QED BY <1>1, <1>14 DEF Cat

\* A larger layout has as many inputs as it says.
LEMMA GrownListed ==
  ASSUME NEW s, Listed(s), NEW count \in Counts, Len(s) <= count
  PROVE  Listed(Grown(s, count)) /\ Len(Grown(s, count)) = count
<1> DEFINE one == Least(s, count, "black", "black")
           some == Least(one, count, "clip-1", "clip")
<1>1. count \in Nat /\ "black" \in Idents /\ "clip-1" \in Idents
  BY WorkspaceAssumption DEF Idents
<1>2. Listed(one) /\ Len(one) <= count
  BY <1>1, LeastListed
<1> HIDE DEF one
<1>3. Listed(some) /\ Len(some) <= count
  BY <1>1, <1>2, LeastListed
<1> HIDE DEF some
<1>4. Listed(NewCams(some, count) \o some) /\ Len(NewCams(some, count) \o some) = count
  BY <1>3, CamsAdded
<1> QED BY <1>4 DEF Grown, one, some

\* Enough inputs stay as they are.
LEMMA GrownEnough ==
  ASSUME NEW s, IsList(s), NEW count \in Nat, Len(s) >= count
  PROVE  Grown(s, count) = s
<1>1. Len(s) \in Nat /\ ~(Len(s) < count)
  BY ListCount
<1>2. \A id, kind : Least(s, count, id, kind) = s
  BY <1>1 DEF Least
<1>3. NewCams(s, count) = << >>
  <2>1. NewCams(s, count) = [k \in DOMAIN << >> |-> Input(<< >>[k], "live")]
    BY DEF NewCams
  <2>2. DOMAIN << >> = {}
    OBVIOUS
  <2> QED BY <2>1, <2>2
<1>4. Grown(s, count) = << >> \o s
  BY <1>2, <1>3 DEF Grown
<1> QED BY <1>4, ListCatEmpty DEF Cat

-----------------------------------------------------------------------------
(* A smaller layout *)

\* The lesser of two naturals.
LEMMA MinIs ==
  ASSUME NEW a \in Nat, NEW b \in Nat
  PROVE  Min({a, b}) \in {a, b} /\ Min({a, b}) <= a /\ Min({a, b}) <= b
<1>1. \E x \in {a, b} : \A y \in {a, b} : x <= y
  OBVIOUS
<1>2. Min({a, b}) \in {a, b} /\ \A y \in {a, b} : Min({a, b}) <= y
  BY <1>1 DEF Min
<1> QED BY <1>2

\* What a smaller layout removes: as many inputs as are too many, or all that may go.
LEMMA SurplusIs ==
  ASSUME NEW c, Listed(c.inputs), c.count \in Nat, Len(c.inputs) > c.count
  PROVE  LET free == {i \in ToSet(c.inputs) :
                        i.kind \in {"clip", "live"} /\ i.id \notin {c.main.pgm, c.main.pvw}} IN
           /\ Surplus(c) \subseteq free
           /\ Cardinality(Surplus(c)) \in Nat /\ Cardinality(Surplus(c)) <= Len(c.inputs) - c.count
           /\ Cardinality(Surplus(c)) = Len(c.inputs) - c.count \/ Surplus(c) = free
<1> DEFINE E == ToSet(c.inputs)
           off == {i \in E : i.id \notin {c.main.pgm, c.main.pvw}}
           a == Of("clip", c.inputs)
           b == Of("live", c.inputs)
           free == Those(a \o b, off)
           N == Len(c.inputs) - c.count
           L == Len(free)
           over == Min({N, L})
           part == SubSeq(free, L - over + 1, L)
<1>1. /\ IsList(a) /\ ToSet(a) = {i \in E : i.kind = "clip"} /\ IsInjective(a)
      /\ IsList(b) /\ ToSet(b) = {i \in E : i.kind = "live"} /\ IsInjective(b)
  BY OfType DEF Listed
<1>2. Surplus(c) = ToSet(part)
  BY DEF Surplus
<1>3. Len(c.inputs) \in Nat
  BY ListCount DEF Listed
<1>4. N \in Nat
  BY <1>3
<1> DEFINE ab == Cat(a, b)
<1>5. free = Those(ab, off)
  BY DEF Cat
<1> HIDE DEF a, b
<1>6. IsList(ab) /\ ToSet(ab) = ToSet(a) \cup ToSet(b) /\ IsInjective(ab)
  <2>1. ToSet(a) \cap ToSet(b) = {}
    BY <1>1
  <2> QED BY <1>1, <2>1, ListCat, ListCatOnce
<1> HIDE DEF ab, free
<1>7. IsList(free) /\ ToSet(free) = ToSet(ab) \cap off /\ IsInjective(free)
  BY <1>5, <1>6, ListThose
<1>8. ToSet(free) = {i \in E : i.kind \in {"clip", "live"} /\ i.id \notin {c.main.pgm, c.main.pvw}}
  BY <1>1, <1>6, <1>7
<1>9. L \in Nat /\ free \in Seq(Inputs)
  BY <1>7, ListCount DEF IsList
<1> HIDE DEF N, L
<1>10. over \in Nat /\ over <= N /\ over <= L /\ over \in {N, L}
  BY <1>4, <1>9, MinIs
<1> HIDE DEF over
<1> DEFINE m == L - over + 1
<1>11. m \in 1 .. L + 1 /\ L \in 0 .. L /\ m <= L + 1 /\ L - m + 1 = over
  BY <1>9, <1>10
<1>12. part = SubSeq(free, m, L)
  OBVIOUS
<1>13. over = L => m = 1
  BY <1>9
<1> HIDE DEF m, part
<1>14. /\ part \in Seq(Inputs) /\ Len(part) = over /\ ToSet(part) \subseteq ToSet(free)
       /\ IsInjective(part)
  BY <1>7, <1>9, <1>11, <1>12, PartOf DEF L
<1>15. Cardinality(ToSet(part)) = over
  BY <1>14, CountElements
<1>16. over = L => part = free
  BY <1>9, <1>12, <1>13, SubSeqFull DEF L
<1> QED BY <1>2, <1>8, <1>10, <1>14, <1>15, <1>16 DEF N

\* A smaller layout keeps as many inputs as it has, or those that must stay.
LEMMA TrimmedListed ==
  ASSUME NEW c, Listed(c.inputs), c.count \in Nat
  PROVE  /\ Listed(Trimmed(c)) /\ ToSet(Trimmed(c)) \subseteq ToSet(c.inputs)
         /\ Len(c.inputs) <= c.count => Trimmed(c) = c.inputs
         /\ Len(c.inputs) > c.count =>
              /\ Len(Trimmed(c)) >= c.count
              /\ \A i \in ToSet(c.inputs) : i.id \in {c.main.pgm, c.main.pvw} => i \in ToSet(Trimmed(c))
              /\ Len(Trimmed(c)) > c.count =>
                   \A i \in ToSet(Trimmed(c)) :
                     i.kind = "black" \/ i.id \in {c.main.pgm, c.main.pvw}
<1>1. Len(c.inputs) \in Nat
  BY ListCount DEF Listed
<1>2. CASE Len(c.inputs) <= c.count
  <2>1. Trimmed(c) = c.inputs
    BY <1>2 DEF Trimmed
  <2> QED BY <1>1, <1>2, <2>1
<1>3. CASE ~(Len(c.inputs) <= c.count)
  <2> DEFINE E == ToSet(c.inputs)
             D == Surplus(c)
             t == Trimmed(c)
             free == {i \in E : i.kind \in {"clip", "live"} /\ i.id \notin {c.main.pgm, c.main.pvw}}
  <2>1. Len(c.inputs) > c.count
    BY <1>1, <1>3
  <2>2. t = Those(c.inputs, E \ D)
    BY <1>3 DEF Trimmed
  <2>3. /\ D \subseteq free
        /\ Cardinality(D) \in Nat /\ Cardinality(D) <= Len(c.inputs) - c.count
        /\ Cardinality(D) = Len(c.inputs) - c.count \/ D = free
    BY <2>1, SurplusIs
  <2> HIDE DEF t, D
  <2>4. Listed(t) /\ ToSet(t) = E \cap (E \ D)
    BY <2>2, ThoseListed
  <2>5. ToSet(t) = E \ D
    BY <2>4
  <2>6. Len(t) = Len(c.inputs) - Cardinality(D)
    BY <2>2, <2>3, ThoseLeft DEF Listed, IsList
  <2>7. Len(t) >= c.count
    BY <1>1, <2>3, <2>6
  <2>8. \A i \in E : i.id \in {c.main.pgm, c.main.pvw} => i \in ToSet(t)
    BY <2>3, <2>5
  <2>9. ASSUME Len(t) > c.count, NEW i \in ToSet(t)
        PROVE  i.kind = "black" \/ i.id \in {c.main.pgm, c.main.pvw}
    <3>1. D = free
      BY <1>1, <2>3, <2>6, <2>9
    <3>2. i \in E /\ i \notin free
      BY <2>5, <2>9, <3>1
    <3>3. i.kind \in {"live", "clip", "black"}
      BY <3>2, ListCount, InputsAre DEF Listed
    <3> QED BY <3>2, <3>3
  <2>10. Listed(t) /\ ToSet(t) \subseteq E
    BY <2>4
  <2> QED BY <1>3, <2>7, <2>8, <2>9, <2>10 DEF t
<1> QED BY <1>2, <1>3

-----------------------------------------------------------------------------
(* The inputs that a layout or a load leaves *)

\* They are as many as the layout says, or those that a smaller one may not remove.
Fitted(c) == Renumbered(Grown(Trimmed(c), c.count))

\* They are numbered; of too many, those that may go are gone.
LEMMA FittedListed ==
  ASSUME NEW c, Listed(c.inputs), c.count \in Counts
  PROVE  /\ Listed(Fitted(c)) /\ Renumbered(Fitted(c)) = Fitted(c)
         /\ Len(c.inputs) = c.count => Fitted(c) = Renumbered(c.inputs)
         /\ \/ Len(Fitted(c)) = c.count
            \/ /\ Len(Fitted(c)) > c.count /\ ToSet(Fitted(c)) \subseteq ToSet(c.inputs)
               /\ \A i \in ToSet(c.inputs) : i.id \in {c.main.pgm, c.main.pvw} => i \in ToSet(Fitted(c))
               /\ \A i \in ToSet(Fitted(c)) : i.kind = "black" \/ i.id \in {c.main.pgm, c.main.pvw}
<1> DEFINE t == Trimmed(c)
           g == Grown(t, c.count)
<1>1. c.count \in Nat
  BY WorkspaceAssumption
<1>2. /\ Listed(t) /\ ToSet(t) \subseteq ToSet(c.inputs)
      /\ Len(c.inputs) <= c.count => t = c.inputs
      /\ Len(c.inputs) > c.count =>
           /\ Len(t) >= c.count
           /\ \A i \in ToSet(c.inputs) : i.id \in {c.main.pgm, c.main.pvw} => i \in ToSet(t)
           /\ Len(t) > c.count =>
                \A i \in ToSet(t) : i.kind = "black" \/ i.id \in {c.main.pgm, c.main.pvw}
  BY <1>1, TrimmedListed
<1>3. Len(t) \in Nat /\ Len(c.inputs) \in Nat
  BY <1>2, ListCount DEF Listed
<1> HIDE DEF t
<1>4. Len(t) <= c.count => Listed(g) /\ Len(g) = c.count
  BY <1>2, GrownListed
<1>5. Len(t) >= c.count => g = t
  BY <1>1, <1>2, GrownEnough DEF Listed
<1>6. Fitted(c) = Renumbered(g)
  BY DEF Fitted, t
<1> HIDE DEF g
<1>7. Listed(g)
  BY <1>1, <1>2, <1>3, <1>4, <1>5
<1>8. /\ Listed(Renumbered(g)) /\ Len(Renumbered(g)) = Len(g)
      /\ ToSet(Renumbered(g)) = ToSet(g) /\ Renumbered(Renumbered(g)) = Renumbered(g)
  BY <1>7, RenumberedListed
<1>9. CASE Len(t) > c.count
  <2>1. Len(c.inputs) > c.count /\ g = t
    BY <1>1, <1>2, <1>3, <1>5, <1>9
  <2> QED BY <1>1, <1>2, <1>3, <1>6, <1>8, <1>9, <2>1
<1>10. CASE Len(t) <= c.count
  <2>1. Len(c.inputs) = c.count => g = c.inputs
    BY <1>1, <1>2, <1>3, <1>5
  <2> QED BY <1>4, <1>6, <1>8, <1>10, <2>1
<1> QED BY <1>1, <1>3, <1>9, <1>10

-----------------------------------------------------------------------------
(* What a console always is *)

IsPanel(p) == p = [pgm |-> p.pgm, pvw |-> p.pvw, ties |-> p.ties, bkgd |-> p.bkgd]
IsKey(key) == key = [mode |-> key.mode, src |-> key.src, on |-> key.on]
IsMain(main) == main = [pgm |-> main.pgm, pvw |-> main.pvw]

\* A source of ME n's whose name no input was given is no ME that ME n may not take.
Higher(n, s) == s \notin InputIds => \A m \in 1 .. Len(Mes) : m <= n => s # Mes[m]

\* None is no snapshot.
NoneApart == \A all, air, mes : [all |-> all, air |-> air, mes |-> mes] # None

PanelFits(c, n, p) ==
  /\ IsPanel(p) /\ Higher(n, p.pgm) /\ Higher(n, p.pvw)
  /\ p.ties \subseteq Keys(c, n) /\ p.bkgd \in BOOLEAN /\ (p.bkgd \/ p.ties # {})
KeyFits(n, key) == IsKey(key) /\ (key.mode # "linear" => Higher(n, key.src))

Stored(c) ==
  /\ c.snaps = [n \in Numbers |-> c.snaps[n]]
  /\ c.startup # None => c.startup \in Numbers /\ (NoneApart => c.snaps[c.startup] # None)

\* What a layout or a load starts from.
Loose(c) ==
  /\ IsConsole(c) /\ c.count \in Counts /\ c.mes \in 1 .. Len(Mes) /\ c.keys \in KeyCounts
  /\ Listed(c.inputs) /\ IsMain(c.main) /\ Stored(c)
  /\ IsSeq(c.panels) /\ Len(c.panels) <= Len(Mes)
  /\ \A n \in DOMAIN c.panels : IsPanel(c.panels[n])
  /\ \A n \in DOMAIN c.keyers : \A k \in DOMAIN c.keyers[n] : KeyFits(n, c.keyers[n][k])

\* What a console always is.
Sound(c) ==
  /\ Loose(c) /\ Renumbered(c.inputs) = c.inputs
  /\ Len(c.panels) = c.mes /\ IsSeq(c.keyers) /\ Len(c.keyers) = Render(c)
  /\ \A n \in DOMAIN c.keyers : IsSeq(c.keyers[n]) /\ Len(c.keyers[n]) = c.keys
  /\ \A n \in DOMAIN c.panels : PanelFits(c, n, c.panels[n])

\* What it is on air.
OnAir(c) ==
  /\ c.main = [pgm |-> c.panels[1].pgm, pvw |-> c.panels[1].pvw]
  /\ Takes(c, 1, c.panels[1].pgm) /\ Takes(c, 1, c.panels[1].pvw)

SoundInv ==
  /\ Sound(console)
  /\ state \in {"idle", "running", "error"} /\ changes \in 0 .. MaxChanges
  /\ crossed \subseteq {"stop", "structure"} /\ asked \in {"start", "stop"}
  /\ stopping \in Nat /\ (state = "running" /\ stopping = 0 => engine # None)
  /\ (booting # None => state # "running")
  /\ (state = "running" \/ booting # None) /\ "structure" \notin crossed => OnAir(console)

-----------------------------------------------------------------------------
(* What an ME can take *)

\* The MEs that render are not more than there are.
LEMMA RenderIs ==
  ASSUME NEW c, IsSeq(c.panels)
  PROVE  Render(c) \in Nat /\ Render(c) <= Len(c.panels)
<1>1. Len(c.panels) \in Nat /\ RenderMes \in Nat
  BY WorkspaceAssumption DEF IsSeq
<1> QED BY <1>1, MinIs DEF Render

\* Consoles of the same inputs and as many panels know the same.
LEMMA KnownSame ==
  ASSUME NEW c, NEW d, d.inputs = c.inputs, Len(d.panels) = Len(c.panels), NEW n, NEW s
  PROVE  (Known(d, n, s) <=> Known(c, n, s)) /\ (Takes(d, n, s) <=> Takes(c, n, s))
<1>1. Render(d) = Render(c)
  BY DEF Render
<1>2. Ids(d) = Ids(c)
  BY DEF Ids
<1>3. \A m : Allowed(d, n, m) <=> Allowed(c, n, m)
  BY <1>1 DEF Allowed
<1>4. 1 .. Len(d.panels) = 1 .. Len(c.panels)
  OBVIOUS
<1> QED BY <1>2, <1>3, <1>4 DEF Known, Takes

\* An input is no ME, and of the MEs a source may name higher ones only.
LEMMA KnownHigher ==
  ASSUME NEW c, Listed(c.inputs), IsSeq(c.panels), Len(c.panels) <= Len(Mes),
         NEW n \in Nat, NEW s, Known(c, n, s)
  PROVE  Higher(n, s)
<1> SUFFICES ASSUME s \notin InputIds, NEW m \in 1 .. Len(Mes), m <= n, s = Mes[m] PROVE FALSE
  BY DEF Higher
<1>1. s \in ToSet(Mes) /\ s # None /\ s \notin Idents /\ m \in 1 .. 4
  BY MesAre, IdentsApart
<1>2. s \notin Ids(c)
  BY <1>1, ListCount, InputsAre DEF Listed, Ids
<1>3. PICK h \in 1 .. Len(c.panels) : Mes[h] = s /\ Allowed(c, n, h)
  BY <1>1, <1>2 DEF Known
<1>4. h \in 1 .. 4 /\ h > n
  BY <1>3, MesAre DEF Allowed, IsSeq
<1>5. h = m
  BY <1>1, <1>3, <1>4, MesAre
<1> QED BY <1>4, <1>5

\* None and the ids of inputs are no MEs.
LEMMA InputHigher ==
  ASSUME NEW s, s = None \/ s \in Idents, NEW n
  PROVE  Higher(n, s)
<1>1. \A m \in 1 .. Len(Mes) : Mes[m] \in ToSet(Mes)
  BY MesAre
<1> QED BY <1>1, IdentsApart DEF Higher

-----------------------------------------------------------------------------
(* A layout or a load, part by part *)

\* A source that a bus of ME n keeps when the inputs are those of the layout.
Kept1(c, n, s) == IF Known([c EXCEPT !.inputs = Fitted(c)], n, s) THEN s ELSE None
KeptMain(c, s) == IF s \in IdsOf(Fitted(c)) THEN s ELSE None

WithBuses(p, pgm, pvw) == [p EXCEPT !.pgm = pgm, !.pvw = pvw]

\* The inputs are fitted, and a source that is not known any more is let go.
LEMMA SourcesAre ==
  ASSUME NEW c, IsConsole(c)
  PROVE  LET d == SyncSources(c) IN
           /\ IsConsole(d) /\ d.inputs = Fitted(c) /\ d.count = c.count /\ d.mes = c.mes
           /\ d.keys = c.keys /\ d.keyers = c.keyers /\ d.snaps = c.snaps /\ d.startup = c.startup
           /\ d.main = [pgm |-> KeptMain(c, c.main.pgm), pvw |-> KeptMain(c, c.main.pvw)]
           /\ d.panels = [n \in DOMAIN c.panels |->
                WithBuses(c.panels[n], Kept1(c, n, c.panels[n].pgm), Kept1(c, n, c.panels[n].pvw))]
<1> DEFINE i == [c EXCEPT !.inputs = Fitted(c)]
           main == [pgm |-> IF c.main.pgm \in Ids(i) THEN c.main.pgm ELSE None,
                    pvw |-> IF c.main.pvw \in Ids(i) THEN c.main.pvw ELSE None]
           Keep(n, s) == IF Known(i, n, s) THEN s ELSE None
           panels == [n \in DOMAIN c.panels |->
                        [c.panels[n] EXCEPT !.pgm = Keep(n, @), !.pvw = Keep(n, @)]]
<1>1. IsConsole(i) /\ i.inputs = Fitted(c) /\ i.main = c.main /\ i.panels = c.panels
      /\ i.count = c.count /\ i.mes = c.mes /\ i.keys = c.keys /\ i.keyers = c.keyers
      /\ i.snaps = c.snaps /\ i.startup = c.startup
  BY DEF IsConsole, Fields
<1>2. SyncSources(c) = [i EXCEPT !.main = main, !.panels = panels]
  BY <1>1 DEF SyncSources, Fitted
<1>3. Ids(i) = IdsOf(Fitted(c))
  BY <1>1 DEF Ids, IdsOf
<1>4. main = [pgm |-> KeptMain(c, c.main.pgm), pvw |-> KeptMain(c, c.main.pvw)]
  BY <1>3 DEF KeptMain
<1>5. panels = [n \in DOMAIN c.panels |->
                 WithBuses(c.panels[n], Kept1(c, n, c.panels[n].pgm), Kept1(c, n, c.panels[n].pvw))]
  BY DEF Kept1, WithBuses
<1> HIDE DEF i, main, panels
<1> QED BY <1>1, <1>2, <1>4, <1>5 DEF IsConsole, Fields

NewPanel(c) == [pgm |-> c.main.pgm, pvw |-> c.main.pvw, ties |-> {}, bkgd |-> TRUE]
OldPanel(c, n) == IF n \in DOMAIN c.panels THEN c.panels[n] ELSE NewPanel(c)
Bus1(main, own) == IF main = None THEN own ELSE main

FirstPanel(c) ==
  WithBuses(OldPanel(c, 1), Bus1(c.main.pgm, OldPanel(c, 1).pgm),
                            Bus1(c.main.pvw, OldPanel(c, 1).pvw))

\* A panel stays, or takes the mirror; ME 1's takes what the mirror has.
LEMMA PanelsAre ==
  ASSUME NEW c, IsConsole(c), c.mes \in Nat \ {0}
  PROVE  LET d == SyncPanels(c) IN
           /\ IsConsole(d) /\ d.inputs = c.inputs /\ d.count = c.count /\ d.mes = c.mes
           /\ d.keys = c.keys /\ d.keyers = c.keyers /\ d.snaps = c.snaps /\ d.startup = c.startup
           /\ d.main = c.main
           /\ d.panels = [n \in 1 .. c.mes |->
                IF n = 1 THEN FirstPanel(c) ELSE OldPanel(c, n)]
<1> DEFINE all == [n \in 1 .. c.mes |-> OldPanel(c, n)]
           panels == [all EXCEPT ![1].pgm = Bus1(c.main.pgm, @), ![1].pvw = Bus1(c.main.pvw, @)]
<1>1. SyncPanels(c) = [c EXCEPT !.panels = panels]
  BY DEF SyncPanels, OldPanel, NewPanel, Bus1
<1>2. 1 \in 1 .. c.mes
  OBVIOUS
<1>3. panels = [n \in 1 .. c.mes |->
                IF n = 1 THEN FirstPanel(c) ELSE OldPanel(c, n)]
  BY <1>2 DEF FirstPanel, WithBuses
<1> HIDE DEF panels
<1> QED BY <1>1, <1>3 DEF IsConsole, Fields

\* A keyer that was there, or a new one.
OldKey(c, n, k) == IF k \in Keys(c, n) THEN c.keyers[n][k] ELSE NewKeyer

\* A keyer stays by its place; ties to keyers that go are let go.
LEMMA KeyersAre ==
  ASSUME NEW c, IsConsole(c)
  PROVE  LET d == SyncKeyers(c) IN
           /\ IsConsole(d) /\ d.inputs = c.inputs /\ d.count = c.count /\ d.mes = c.mes
           /\ d.keys = c.keys /\ d.main = c.main /\ d.snaps = c.snaps /\ d.startup = c.startup
           /\ d.keyers = [n \in 1 .. Render(c) |-> [k \in 1 .. c.keys |-> OldKey(c, n, k)]]
           /\ d.panels = [n \in DOMAIN c.panels |->
                [c.panels[n] EXCEPT !.ties = @ \cap Keys(d, n),
                                    !.bkgd = @ \/ c.panels[n].ties \cap Keys(d, n) = {}]]
<1> DEFINE keyers == [n \in 1 .. Render(c) |-> [k \in 1 .. c.keys |-> OldKey(c, n, k)]]
           k == [c EXCEPT !.keyers = keyers]
           Left(n) == c.panels[n].ties \cap Keys(k, n)
           panels == [n \in DOMAIN c.panels |->
                       [c.panels[n] EXCEPT !.ties = Left(n), !.bkgd = @ \/ Left(n) = {}]]
           d == SyncKeyers(c)
<1>1. IsConsole(k) /\ k.inputs = c.inputs /\ k.main = c.main /\ k.panels = c.panels
      /\ k.count = c.count /\ k.mes = c.mes /\ k.keys = c.keys /\ k.keyers = keyers
      /\ k.snaps = c.snaps /\ k.startup = c.startup
  BY DEF IsConsole, Fields
<1>2. d = [k EXCEPT !.panels = panels]
  BY <1>1 DEF SyncKeyers, OldKey
<1> HIDE DEF k, panels, keyers, d
<1>3. /\ IsConsole(d) /\ d.inputs = k.inputs /\ d.main = k.main /\ d.panels = panels
      /\ d.count = k.count /\ d.mes = k.mes /\ d.keys = k.keys /\ d.keyers = k.keyers
      /\ d.snaps = k.snaps /\ d.startup = k.startup
  BY <1>1, <1>2 DEF IsConsole, Fields
<1>4. \A n : Keys(d, n) = Keys(k, n)
  BY <1>3 DEF Keys
<1>5. panels = [n \in DOMAIN c.panels |->
                [c.panels[n] EXCEPT !.ties = @ \cap Keys(d, n),
                                    !.bkgd = @ \/ c.panels[n].ties \cap Keys(d, n) = {}]]
  <2>1. \A n : Left(n) = c.panels[n].ties \cap Keys(d, n)
    BY <1>4
  <2> HIDE DEF Left
  <2> QED BY <2>1 DEF panels
<1> QED BY <1>1, <1>3, <1>5 DEF keyers, d

-----------------------------------------------------------------------------
(* A layout and a load leave a console sound *)

BusesHigher(c) ==
  \A n \in DOMAIN c.panels : Higher(n, c.panels[n].pgm) /\ Higher(n, c.panels[n].pvw)

MainInput(c) ==
  /\ c.main.pgm = None \/ c.main.pgm \in Idents
  /\ c.main.pvw = None \/ c.main.pvw \in Idents

\* A panel with other buses.
LEMMA BusesSet ==
  ASSUME NEW p, IsPanel(p), NEW a, NEW b
  PROVE  LET q == WithBuses(p, a, b) IN
           IsPanel(q) /\ q.pgm = a /\ q.pvw = b /\ q.ties = p.ties /\ q.bkgd = p.bkgd
<1> DEFINE q == WithBuses(p, a, b)
<1>0. q = [p EXCEPT !.pgm = a, !.pvw = b]
  BY DEF WithBuses
<1> HIDE DEF q
<1>1. DOMAIN p = {"pgm", "pvw", "ties", "bkgd"}
  BY DEF IsPanel
<1>2. DOMAIN q = {"pgm", "pvw", "ties", "bkgd"} /\ q = [x \in DOMAIN q |-> q[x]]
  BY <1>0, <1>1
<1>3. q.pgm = a /\ q.pvw = b /\ q.ties = p.ties /\ q.bkgd = p.bkgd
  BY <1>0, <1>1
<1> QED BY <1>2, <1>3 DEF IsPanel, q

\* The numbers of a layout.
LEMMA LayoutIs ==
  ASSUME NEW c, Loose(c)
  PROVE  /\ c.count \in Nat \ {0} /\ c.mes \in 1 .. Len(Mes) /\ c.mes \in Nat \ {0} /\ c.keys \in Nat
         /\ Len(c.panels) \in Nat /\ DOMAIN c.panels = 1 .. Len(c.panels)
<1>1. c.mes \in 1 .. 4
  BY WorkspaceAssumption, MesAre DEF Loose
<1>2. DOMAIN c.panels = 1 .. Len(c.panels) /\ Len(c.panels) \in Nat
  BY DEF Loose, IsSeq
<1>3. c.count \in Nat \ {0} /\ c.keys \in Nat
  BY WorkspaceAssumption DEF Loose
<1> QED BY <1>1, <1>2, <1>3, MesAre

\* After the sources, every bus names an input or a higher ME.
LEMMA SourcesLoose ==
  ASSUME NEW c, Loose(c)
  PROVE  LET d == SyncSources(c) IN
           /\ Loose(d) /\ Renumbered(d.inputs) = d.inputs /\ BusesHigher(d)
           /\ Len(d.panels) = Len(c.panels)
           /\ MainInput(d)
<1> DEFINE d == SyncSources(c)
           i == [c EXCEPT !.inputs = Fitted(c)]
<1>1. /\ IsConsole(d) /\ d.inputs = Fitted(c) /\ d.count = c.count /\ d.mes = c.mes
      /\ d.keys = c.keys /\ d.keyers = c.keyers /\ d.snaps = c.snaps /\ d.startup = c.startup
      /\ d.main = [pgm |-> KeptMain(c, c.main.pgm), pvw |-> KeptMain(c, c.main.pvw)]
      /\ d.panels = [n \in DOMAIN c.panels |->
           WithBuses(c.panels[n], Kept1(c, n, c.panels[n].pgm), Kept1(c, n, c.panels[n].pvw))]
  BY SourcesAre DEF Loose
<1> HIDE DEF d
<1>2. Listed(Fitted(c)) /\ Renumbered(Fitted(c)) = Fitted(c)
  BY FittedListed DEF Loose
<1>3. i.inputs = Fitted(c) /\ i.panels = c.panels
  BY DEF Loose, IsConsole, Fields
<1>4. IsSeq(d.panels) /\ Len(d.panels) = Len(c.panels) /\ DOMAIN d.panels = DOMAIN c.panels
  BY <1>1, AsLong DEF Loose
<1>5. ASSUME NEW n \in DOMAIN c.panels, NEW s PROVE Higher(n, Kept1(c, n, s))
  <2>1. n \in Nat
    BY LayoutIs
  <2>2. CASE Known(i, n, s)
    <3>1. Kept1(c, n, s) = s
      BY <2>2 DEF Kept1
    <3> HIDE DEF i
    <3> QED BY <1>2, <1>3, <2>1, <2>2, <3>1, KnownHigher DEF Loose
  <2>3. CASE ~Known(i, n, s)
    <3>1. Kept1(c, n, s) = None
      BY <2>3 DEF Kept1
    <3> QED BY <3>1, InputHigher
  <2> QED BY <2>2, <2>3
<1>6. \A n \in DOMAIN c.panels :
        /\ IsPanel(d.panels[n])
        /\ d.panels[n].pgm = Kept1(c, n, c.panels[n].pgm)
        /\ d.panels[n].pvw = Kept1(c, n, c.panels[n].pvw)
  BY <1>1, BusesSet DEF Loose
<1>7. BusesHigher(d)
  BY <1>4, <1>5, <1>6 DEF BusesHigher
<1>8. IsMain(d.main)
  BY <1>1 DEF IsMain
<1>9. \A s : KeptMain(c, s) = None \/ KeptMain(c, s) \in Idents
  <2>1. IdsOf(Fitted(c)) \subseteq Idents
    BY <1>2, ListCount, InputsAre DEF IdsOf, Listed
  <2> QED BY <2>1 DEF KeptMain
<1>10. MainInput(d)
  <2>1. d.main.pgm = KeptMain(c, c.main.pgm) /\ d.main.pvw = KeptMain(c, c.main.pvw)
    BY <1>1
  <2> QED BY <1>9, <2>1 DEF MainInput
<1>11. Stored(d)
  BY <1>1 DEF Loose, Stored
<1>12. Loose(d)
  BY <1>1, <1>2, <1>4, <1>6, <1>8, <1>11 DEF Loose
<1> QED BY <1>1, <1>2, <1>4, <1>7, <1>10, <1>12 DEF d

\* After the panels, there are as many as the layout says.
LEMMA PanelsLoose ==
  ASSUME NEW c, Loose(c), Renumbered(c.inputs) = c.inputs, BusesHigher(c),
         MainInput(c)
  PROVE  LET d == SyncPanels(c) IN
           /\ Loose(d) /\ Renumbered(d.inputs) = d.inputs /\ BusesHigher(d)
           /\ Len(d.panels) = d.mes
<1> DEFINE d == SyncPanels(c)
           first == FirstPanel(c)
<1>1. c.mes \in 1 .. Len(Mes) /\ c.mes \in Nat \ {0}
  BY LayoutIs
<1>2. /\ IsConsole(d) /\ d.inputs = c.inputs /\ d.count = c.count /\ d.mes = c.mes
      /\ d.keys = c.keys /\ d.keyers = c.keyers /\ d.snaps = c.snaps /\ d.startup = c.startup
      /\ d.main = c.main
      /\ d.panels = [n \in 1 .. c.mes |-> IF n = 1 THEN first ELSE OldPanel(c, n)]
  BY <1>1, PanelsAre DEF Loose
<1> HIDE DEF d
<1>3. \A n : /\ IsPanel(OldPanel(c, n))
             /\ Higher(n, OldPanel(c, n).pgm) /\ Higher(n, OldPanel(c, n).pvw)
  <2>1. \A n : Higher(n, c.main.pgm) /\ Higher(n, c.main.pvw)
    BY InputHigher DEF MainInput
  <2> QED BY <2>1 DEF OldPanel, NewPanel, IsPanel, Loose, BusesHigher
<1>4. IsPanel(first) /\ Higher(1, first.pgm) /\ Higher(1, first.pvw)
  <2> DEFINE p == OldPanel(c, 1)
  <2>1. IsPanel(p) /\ Higher(1, p.pgm) /\ Higher(1, p.pvw)
    BY <1>3
  <2> HIDE DEF p
  <2>2. \A own : Higher(1, own) => Higher(1, Bus1(c.main.pgm, own)) /\ Higher(1, Bus1(c.main.pvw, own))
    BY InputHigher DEF Bus1, MainInput
  <2>3. first = WithBuses(p, Bus1(c.main.pgm, p.pgm), Bus1(c.main.pvw, p.pvw))
    BY DEF p, FirstPanel
  <2> HIDE DEF first
  <2>4. IsPanel(first) /\ first.pgm = Bus1(c.main.pgm, p.pgm) /\ first.pvw = Bus1(c.main.pvw, p.pvw)
    BY <2>1, <2>3, BusesSet
  <2> QED BY <2>1, <2>2, <2>4
<1> HIDE DEF first
<1>5. d.panels = [n \in 1 .. c.mes |-> d.panels[n]]
  BY <1>2
<1>6. IsSeq(d.panels) /\ Len(d.panels) = c.mes
  BY <1>1, <1>5, LenIs
<1>7. DOMAIN d.panels = 1 .. c.mes
  BY <1>2
<1>8. \A n \in 1 .. c.mes : IsPanel(d.panels[n])
  BY <1>2, <1>3, <1>4
<1>9. BusesHigher(d)
  BY <1>2, <1>3, <1>4, <1>7 DEF BusesHigher
<1>10. Len(d.panels) <= Len(Mes)
  BY <1>1, <1>6, MesAre
<1>11. Stored(d)
  BY <1>2 DEF Loose, Stored
<1>12. Loose(d)
  BY <1>2, <1>6, <1>7, <1>8, <1>10, <1>11 DEF Loose
<1> QED BY <1>2, <1>6, <1>9, <1>12 DEF d

\* After the keyers, the console is sound.
LEMMA KeyersSound ==
  ASSUME NEW c, Loose(c), Renumbered(c.inputs) = c.inputs, BusesHigher(c), Len(c.panels) = c.mes
  PROVE  Sound(SyncKeyers(c))
<1> DEFINE d == SyncKeyers(c)
<1>1. /\ IsConsole(d) /\ d.inputs = c.inputs /\ d.count = c.count /\ d.mes = c.mes
      /\ d.keys = c.keys /\ d.main = c.main /\ d.snaps = c.snaps /\ d.startup = c.startup
      /\ d.keyers = [n \in 1 .. Render(c) |-> [k \in 1 .. c.keys |-> OldKey(c, n, k)]]
      /\ d.panels = [n \in DOMAIN c.panels |->
           [c.panels[n] EXCEPT !.ties = @ \cap Keys(d, n),
                               !.bkgd = @ \/ c.panels[n].ties \cap Keys(d, n) = {}]]
  BY KeyersAre DEF Loose
<1> HIDE DEF d
<1>2. IsSeq(d.panels) /\ Len(d.panels) = Len(c.panels) /\ DOMAIN d.panels = DOMAIN c.panels
  BY <1>1, AsLong DEF Loose
<1>3. Render(c) \in Nat /\ Render(d) = Render(c)
  <2>1. Render(d) = Render(c)
    BY <1>2 DEF Render
  <2> QED BY <2>1, RenderIs DEF Loose
<1>4. c.keys \in Nat
  BY LayoutIs
<1>5. IsSeq(d.keyers) /\ Len(d.keyers) = Render(c) /\ DOMAIN d.keyers = 1 .. Render(c)
  <2>1. d.keyers = [n \in 1 .. Render(c) |-> d.keyers[n]]
    BY <1>1
  <2> QED BY <1>3, <2>1, LenIs
<1>6. \A n \in 1 .. Render(c) : d.keyers[n] = [k \in 1 .. c.keys |-> OldKey(c, n, k)]
  BY <1>1
<1>7. ASSUME NEW n \in 1 .. Render(c) PROVE IsSeq(d.keyers[n]) /\ Len(d.keyers[n]) = c.keys
  <2> DEFINE s == d.keyers[n]
  <2>1. s = [k \in 1 .. c.keys |-> s[k]]
    BY <1>6
  <2> HIDE DEF s
  <2>2. IsSeq(s) /\ Len(s) = c.keys
    BY <1>4, <2>1, LenIs
  <2> QED BY <2>2 DEF s
<1>8. ASSUME NEW n \in 1 .. Render(c), NEW k \in 1 .. c.keys PROVE KeyFits(n, d.keyers[n][k])
  <2>1. d.keyers[n][k] = OldKey(c, n, k)
    BY <1>6
  <2>2. CASE k \in Keys(c, n)
    <3>1. n \in DOMAIN c.keyers /\ k \in DOMAIN c.keyers[n]
      BY <2>2 DEF Keys
    <3> QED BY <2>1, <2>2, <3>1 DEF OldKey, Loose
  <2>3. CASE k \notin Keys(c, n)
    BY <2>1, <2>3 DEF OldKey, NewKeyer, KeyFits, IsKey
  <2> QED BY <2>2, <2>3
<1>9. \A n \in DOMAIN d.keyers : DOMAIN d.keyers[n] = 1 .. c.keys
  BY <1>5, <1>6
<1>10. ASSUME NEW n \in DOMAIN c.panels PROVE PanelFits(d, n, d.panels[n])
  <2> DEFINE p == c.panels[n]
             K == Keys(d, n)
             q == d.panels[n]
  <2>1. IsPanel(p) /\ Higher(n, p.pgm) /\ Higher(n, p.pvw)
    BY DEF Loose, BusesHigher
  <2>2. q = [p EXCEPT !.ties = @ \cap K, !.bkgd = @ \/ p.ties \cap K = {}]
    BY <1>1
  <2> HIDE DEF p, K, q
  <2>3. /\ IsPanel(q) /\ q.pgm = p.pgm /\ q.pvw = p.pvw /\ q.ties = p.ties \cap K
        /\ q.bkgd = (p.bkgd \/ p.ties \cap K = {})
    BY <2>1, <2>2 DEF IsPanel
  <2>4. q.bkgd \in BOOLEAN
    BY <2>3
  <2>5. q.bkgd \/ q.ties # {}
    BY <2>3
  <2> QED BY <2>1, <2>3, <2>4, <2>5 DEF PanelFits, q, K
<1>11. Stored(d)
  BY <1>1 DEF Loose, Stored
<1>12. \A n \in DOMAIN d.panels : IsPanel(d.panels[n])
  BY <1>2, <1>10 DEF PanelFits
<1>13. Loose(d)
  BY <1>1, <1>2, <1>5, <1>8, <1>9, <1>11, <1>12 DEF Loose
<1>14. Sound(d)
  BY <1>1, <1>2, <1>3, <1>5, <1>7, <1>10, <1>13 DEF Sound
<1> QED BY <1>14 DEF d

\* A layout leaves a console sound.
LEMMA SettledSound ==
  ASSUME NEW c, Loose(c)
  PROVE  Sound(Settled(c))
<1> DEFINE d == SyncSources(c)
           e == SyncPanels(d)
<1>1. /\ Loose(d) /\ Renumbered(d.inputs) = d.inputs /\ BusesHigher(d)
      /\ MainInput(d)
  BY SourcesLoose
<1> HIDE DEF d
<1>2. Loose(e) /\ Renumbered(e.inputs) = e.inputs /\ BusesHigher(e) /\ Len(e.panels) = e.mes
  BY <1>1, PanelsLoose
<1> HIDE DEF e
<1>3. Sound(SyncKeyers(e))
  BY <1>2, KeyersSound
<1> QED BY <1>3 DEF Settled, d, e

\* Another mirror of ME 1's buses leaves it sound.
LEMMA MainSound ==
  ASSUME NEW c, NEW m, IsMain(m)
  PROVE  LET d == [c EXCEPT !.main = m] IN
           /\ Loose(c) => Loose(d)
           /\ Sound(c) => Sound(d)
<1> DEFINE d == [c EXCEPT !.main = m]
<1>1. ASSUME Loose(c)
      PROVE  /\ IsConsole(d) /\ d.inputs = c.inputs /\ d.count = c.count /\ d.mes = c.mes
             /\ d.keys = c.keys /\ d.main = m /\ d.snaps = c.snaps /\ d.startup = c.startup
             /\ d.keyers = c.keyers /\ d.panels = c.panels
  BY <1>1 DEF Loose, IsConsole, Fields
<1> HIDE DEF d
<1>2. Loose(c) => Loose(d)
  BY <1>1 DEF Loose, Stored
<1>3. ASSUME Sound(c) PROVE Sound(d)
  <2>1. Loose(c)
    BY <1>3 DEF Sound
  <2>2. \A n : Keys(d, n) = Keys(c, n)
    BY <1>1, <2>1 DEF Keys
  <2>3. Render(d) = Render(c)
    BY <1>1, <2>1 DEF Render
  <2> QED BY <1>1, <1>2, <1>3, <2>1, <2>2, <2>3 DEF Sound, PanelFits
<1> QED BY <1>2, <1>3 DEF d

\* A load leaves a console sound.
LEMMA LoadedSound ==
  ASSUME NEW c, \A m : IsMain(m) => Loose([c EXCEPT !.main = m])
  PROVE  Sound(Loaded(c))
<1> DEFINE m == [pgm |-> c.panels[1].pgm, pvw |-> c.panels[1].pvw]
           d == [c EXCEPT !.main = m]
           s == Settled(d)
           l == [pgm |-> s.panels[1].pgm, pvw |-> s.panels[1].pvw]
<1>1. IsMain(m) /\ IsMain(l)
  BY DEF IsMain
<1>2. Loaded(c) = [s EXCEPT !.main = l]
  BY DEF Loaded
<1> HIDE DEF m, l
<1>3. Loose(d)
  BY <1>1
<1> HIDE DEF d
<1>4. Sound(s)
  BY <1>3, SettledSound
<1> HIDE DEF s
<1> QED BY <1>1, <1>2, <1>4, MainSound

-----------------------------------------------------------------------------
(* Buses that are set *)

\* A sound console has the shape that the engine's structure needs.
LEMMA SoundShape ==
  ASSUME NEW c, Sound(c)
  PROVE  /\ Shape(c) /\ 1 \in DOMAIN c.panels /\ DOMAIN c.panels = 1 .. c.mes
         /\ DOMAIN c.keyers = 1 .. Render(c)
         /\ \A n \in DOMAIN c.panels : n \in Nat
<1>1. Loose(c) /\ IsSeq(c.keyers) /\ Len(c.panels) = c.mes
  BY DEF Sound
<1>2. c.mes \in Nat \ {0} /\ c.keys \in Nat
  BY <1>1, LayoutIs
<1>3. DOMAIN c.panels = 1 .. c.mes
  BY <1>1 DEF Loose, IsSeq
<1>4. DOMAIN c.keyers = 1 .. Render(c)
  BY DEF Sound, IsSeq
<1> QED BY <1>1, <1>2, <1>3, <1>4 DEF Shape, Sound, Loose

\* d sets on c only what fits.
Fits(c, d) ==
  /\ Alike(c, d) /\ d.count = c.count /\ IsMain(d.main) /\ Stored(d)
  /\ \A n \in DOMAIN c.panels : PanelFits(c, n, d.panels[n])
  /\ \A n \in DOMAIN c.keyers : \A k \in DOMAIN c.keyers[n] : KeyFits(n, d.keyers[n][k])

\* What fits leaves it sound.
LEMMA FitsSound ==
  ASSUME NEW c, NEW d, Sound(c), Fits(c, d)
  PROVE  Sound(d)
<1>1. Shape(c) /\ Loose(c)
  BY SoundShape DEF Sound
<1>2. IsSeq(d.panels) /\ Len(d.panels) = Len(c.panels) /\ DOMAIN d.panels = DOMAIN c.panels
  BY <1>1, AsLong DEF Fits, Alike, Shape
<1>3. IsSeq(d.keyers) /\ Len(d.keyers) = Len(c.keyers) /\ DOMAIN d.keyers = DOMAIN c.keyers
  BY <1>1, AsLong DEF Fits, Alike, Shape
<1>4. \A n \in DOMAIN c.keyers : /\ IsSeq(d.keyers[n]) /\ Len(d.keyers[n]) = Len(c.keyers[n])
                                 /\ DOMAIN d.keyers[n] = DOMAIN c.keyers[n]
  BY <1>1, AsLong DEF Fits, Alike, Shape
<1>5. Render(d) = Render(c)
  BY <1>2 DEF Render
<1>6. \A n : Keys(d, n) = Keys(c, n)
  BY <1>3, <1>4 DEF Keys
<1>7. \A n \in DOMAIN d.panels : PanelFits(d, n, d.panels[n])
  BY <1>2, <1>6 DEF Fits, PanelFits
<1>8. IsConsole(d) /\ d.inputs = c.inputs /\ d.mes = c.mes /\ d.keys = c.keys /\ d.count = c.count
  BY DEF Fits, Alike
<1>9. \A n \in DOMAIN d.panels : IsPanel(d.panels[n])
  BY <1>7 DEF PanelFits
<1>10. \A n \in DOMAIN d.keyers : \A k \in DOMAIN d.keyers[n] : KeyFits(n, d.keyers[n][k])
  BY <1>3, <1>4 DEF Fits
<1>11. Loose(d)
  BY <1>1, <1>2, <1>8, <1>9, <1>10 DEF Loose, Fits
<1> QED BY <1>2, <1>3, <1>4, <1>5, <1>7, <1>8, <1>11 DEF Sound

\* It is on air when ME 1's buses are taken and mirrored.
LEMMA OnAirAgain ==
  ASSUME NEW c, NEW d, d.inputs = c.inputs, Len(d.panels) = Len(c.panels), IsMain(d.main),
         d.main.pgm = d.panels[1].pgm, d.main.pvw = d.panels[1].pvw,
         Takes(c, 1, d.panels[1].pgm), Takes(c, 1, d.panels[1].pvw)
  PROVE  OnAir(d)
BY KnownSame DEF OnAir, IsMain

WithPgm(p, s) == [p EXCEPT !.pgm = s]
WithPvw(p, s) == [p EXCEPT !.pvw = s]

\* A panel with a source that its ME may take fits.
LEMMA PanelAgain ==
  ASSUME NEW c, NEW n, NEW p, PanelFits(c, n, p), NEW s, Higher(n, s)
  PROVE  LET q == WithPgm(p, s)
             r == WithPvw(p, s)
         IN /\ PanelFits(c, n, q) /\ q.pgm = s /\ q.pvw = p.pvw
            /\ PanelFits(c, n, r) /\ r.pvw = s /\ r.pgm = p.pgm
<1>1. IsPanel(p)
  BY DEF PanelFits
<1> DEFINE q == WithPgm(p, s)
           r == WithPvw(p, s)
<1>2. IsPanel(q) /\ q.pgm = s /\ q.pvw = p.pvw /\ q.ties = p.ties /\ q.bkgd = p.bkgd
  BY <1>1 DEF IsPanel, WithPgm
<1>3. IsPanel(r) /\ r.pgm = p.pgm /\ r.pvw = s /\ r.ties = p.ties /\ r.bkgd = p.bkgd
  BY <1>1 DEF IsPanel, WithPvw
<1> HIDE DEF q, r
<1>4. PanelFits(c, n, q) /\ PanelFits(c, n, r)
  BY <1>2, <1>3 DEF PanelFits
<1> QED BY <1>2, <1>3, <1>4 DEF q, r

\* What a bus of ME n and the mirror are after a source is put on it.
LEMMA OnProgramIs ==
  ASSUME NEW c, Sound(c), NEW n \in DOMAIN c.panels, NEW s
  PROVE  LET d == OnProgram(c, n, s) IN
           /\ Alike(c, d) /\ d.count = c.count /\ d.snaps = c.snaps /\ d.startup = c.startup
           /\ d.keyers = c.keyers /\ IsMain(d.main)
           /\ d.panels = [c.panels EXCEPT ![n] = WithPgm(c.panels[n], s)]
           /\ d.main.pgm = (IF n = 1 THEN s ELSE c.main.pgm) /\ d.main.pvw = c.main.pvw
<1>1. Shape(c) /\ IsConsole(c) /\ IsMain(c.main) /\ IsSeq(c.panels)
  BY SoundShape DEF Sound, Loose
<1> DEFINE d == OnProgram(c, n, s)
<1>2. Alike(c, d)
  BY <1>1, OnProgramAlike
<1>3. /\ d.count = c.count /\ d.snaps = c.snaps /\ d.startup = c.startup
      /\ d.keyers = c.keyers
      /\ d.panels = [c.panels EXCEPT ![n] = WithPgm(c.panels[n], s)]
      /\ d.main = [c.main EXCEPT !.pgm = IF n = 1 THEN s ELSE @]
  BY <1>1 DEF OnProgram, WithPgm, IsConsole, Fields
<1> HIDE DEF d
<1>4. IsMain(d.main) /\ d.main.pgm = (IF n = 1 THEN s ELSE c.main.pgm) /\ d.main.pvw = c.main.pvw
  BY <1>1, <1>3 DEF IsMain
<1> QED BY <1>2, <1>3, <1>4 DEF d

\* The same for Preview.
LEMMA OnPreviewIs ==
  ASSUME NEW c, Sound(c), NEW n \in DOMAIN c.panels, NEW s
  PROVE  LET d == OnPreview(c, n, s) IN
           /\ Alike(c, d) /\ d.count = c.count /\ d.snaps = c.snaps /\ d.startup = c.startup
           /\ d.keyers = c.keyers /\ IsMain(d.main)
           /\ d.panels = [c.panels EXCEPT ![n] = WithPvw(c.panels[n], s)]
           /\ d.main.pvw = (IF n = 1 THEN s ELSE c.main.pvw) /\ d.main.pgm = c.main.pgm
<1>1. Shape(c) /\ IsConsole(c) /\ IsMain(c.main) /\ IsSeq(c.panels)
  BY SoundShape DEF Sound, Loose
<1> DEFINE d == OnPreview(c, n, s)
<1>2. Alike(c, d)
  BY <1>1, OnPreviewAlike
<1>3. /\ d.count = c.count /\ d.snaps = c.snaps /\ d.startup = c.startup
      /\ d.keyers = c.keyers
      /\ d.panels = [c.panels EXCEPT ![n] = WithPvw(c.panels[n], s)]
      /\ d.main = [c.main EXCEPT !.pvw = IF n = 1 THEN s ELSE @]
  BY <1>1 DEF OnPreview, WithPvw, IsConsole, Fields
<1> HIDE DEF d
<1>4. IsMain(d.main) /\ d.main.pvw = (IF n = 1 THEN s ELSE c.main.pvw) /\ d.main.pgm = c.main.pgm
  BY <1>1, <1>3 DEF IsMain
<1> QED BY <1>2, <1>3, <1>4 DEF d

\* A console whose panels, main and keyers fit.
LEMMA BusSound ==
  ASSUME NEW c, Sound(c), NEW d, Alike(c, d), d.count = c.count, d.snaps = c.snaps,
         d.startup = c.startup, d.keyers = c.keyers, IsMain(d.main),
         NEW n \in DOMAIN c.panels, NEW p, PanelFits(c, n, p),
         d.panels = [c.panels EXCEPT ![n] = p]
  PROVE  Sound(d)
<1>1. Stored(d)
  BY DEF Sound, Loose, Stored
<1>2. \A m \in DOMAIN c.panels : PanelFits(c, m, d.panels[m])
  BY DEF Sound
<1>3. Fits(c, d)
  BY <1>1, <1>2 DEF Fits, Sound, Loose
<1> QED BY <1>3, FitsSound

\* A source that an ME may take leaves a console sound, and on air.
LEMMA OnProgramSound ==
  ASSUME NEW c, Sound(c), NEW n \in DOMAIN c.panels, NEW s, Higher(n, s)
  PROVE  LET d == OnProgram(c, n, s) IN
           /\ Alike(c, d) /\ Sound(d) /\ DOMAIN d.panels = DOMAIN c.panels
           /\ d.inputs = c.inputs /\ Len(d.panels) = Len(c.panels)
           /\ OnAir(c) /\ (n = 1 => Takes(c, 1, s)) => OnAir(d)
<1> DEFINE d == OnProgram(c, n, s)
           p == WithPgm(c.panels[n], s)
<1>1. /\ Alike(c, d) /\ d.count = c.count /\ d.snaps = c.snaps /\ d.startup = c.startup
      /\ d.keyers = c.keyers /\ IsMain(d.main) /\ d.panels = [c.panels EXCEPT ![n] = p]
      /\ d.main.pgm = (IF n = 1 THEN s ELSE c.main.pgm) /\ d.main.pvw = c.main.pvw
  BY OnProgramIs
<1> HIDE DEF d
<1>2. PanelFits(c, n, p) /\ p.pgm = s /\ p.pvw = c.panels[n].pvw
  <2>1. PanelFits(c, n, c.panels[n])
    BY DEF Sound
  <2> QED BY <2>1, PanelAgain
<1> HIDE DEF p
<1>3. Sound(d)
  BY <1>1, <1>2, BusSound
<1>4. d.inputs = c.inputs /\ DOMAIN d.panels = DOMAIN c.panels
  BY <1>1 DEF Alike
<1>5. Len(d.panels) = Len(c.panels)
  BY <1>1, AsLong DEF Alike, Sound, Loose
<1>6. ASSUME OnAir(c), n = 1 => Takes(c, 1, s) PROVE OnAir(d)
  <2>1. 1 \in DOMAIN c.panels
    BY SoundShape
  <2>2. d.panels[1].pgm = (IF n = 1 THEN s ELSE c.panels[1].pgm) /\ d.panels[1].pvw = c.panels[1].pvw
    BY <1>1, <1>2, <2>1
  <2>3. c.main.pgm = c.panels[1].pgm /\ c.main.pvw = c.panels[1].pvw
        /\ Takes(c, 1, c.panels[1].pgm) /\ Takes(c, 1, c.panels[1].pvw)
    BY <1>6 DEF OnAir
  <2>4. d.main.pgm = d.panels[1].pgm /\ d.main.pvw = d.panels[1].pvw
    BY <1>1, <2>2, <2>3
  <2>5. Takes(c, 1, d.panels[1].pgm) /\ Takes(c, 1, d.panels[1].pvw)
    BY <1>6, <2>2, <2>3
  <2> QED BY <1>1, <1>4, <1>5, <2>4, <2>5, OnAirAgain
<1> QED BY <1>1, <1>3, <1>4, <1>5, <1>6 DEF d

\* The same for Preview.
LEMMA OnPreviewSound ==
  ASSUME NEW c, Sound(c), NEW n \in DOMAIN c.panels, NEW s, Higher(n, s)
  PROVE  LET d == OnPreview(c, n, s) IN
           /\ Alike(c, d) /\ Sound(d) /\ DOMAIN d.panels = DOMAIN c.panels
           /\ d.inputs = c.inputs /\ Len(d.panels) = Len(c.panels)
           /\ OnAir(c) /\ (n = 1 => Takes(c, 1, s)) => OnAir(d)
<1> DEFINE d == OnPreview(c, n, s)
           p == WithPvw(c.panels[n], s)
<1>1. /\ Alike(c, d) /\ d.count = c.count /\ d.snaps = c.snaps /\ d.startup = c.startup
      /\ d.keyers = c.keyers /\ IsMain(d.main) /\ d.panels = [c.panels EXCEPT ![n] = p]
      /\ d.main.pvw = (IF n = 1 THEN s ELSE c.main.pvw) /\ d.main.pgm = c.main.pgm
  BY OnPreviewIs
<1> HIDE DEF d
<1>2. PanelFits(c, n, p) /\ p.pvw = s /\ p.pgm = c.panels[n].pgm
  <2>1. PanelFits(c, n, c.panels[n])
    BY DEF Sound
  <2> QED BY <2>1, PanelAgain
<1> HIDE DEF p
<1>3. Sound(d)
  BY <1>1, <1>2, BusSound
<1>4. d.inputs = c.inputs /\ DOMAIN d.panels = DOMAIN c.panels
  BY <1>1 DEF Alike
<1>5. Len(d.panels) = Len(c.panels)
  BY <1>1, AsLong DEF Alike, Sound, Loose
<1>6. ASSUME OnAir(c), n = 1 => Takes(c, 1, s) PROVE OnAir(d)
  <2>1. 1 \in DOMAIN c.panels
    BY SoundShape
  <2>2. d.panels[1].pvw = (IF n = 1 THEN s ELSE c.panels[1].pvw) /\ d.panels[1].pgm = c.panels[1].pgm
    BY <1>1, <1>2, <2>1
  <2>3. c.main.pgm = c.panels[1].pgm /\ c.main.pvw = c.panels[1].pvw
        /\ Takes(c, 1, c.panels[1].pgm) /\ Takes(c, 1, c.panels[1].pvw)
    BY <1>6 DEF OnAir
  <2>4. d.main.pgm = d.panels[1].pgm /\ d.main.pvw = d.panels[1].pvw
    BY <1>1, <2>2, <2>3
  <2>5. Takes(c, 1, d.panels[1].pgm) /\ Takes(c, 1, d.panels[1].pvw)
    BY <1>6, <2>2, <2>3
  <2> QED BY <1>1, <1>4, <1>5, <2>4, <2>5, OnAirAgain
<1> QED BY <1>1, <1>3, <1>4, <1>5, <1>6 DEF d

\* ME 1's buses at a start.
LEMMA BusesOnAir ==
  ASSUME NEW c, Sound(c), NEW a, NEW b, Takes(c, 1, a), Takes(c, 1, b)
  PROVE  LET d == OnPreview(OnProgram(c, 1, a), 1, b) IN Sound(d) /\ OnAir(d)
<1> DEFINE e == OnProgram(c, 1, a)
           d == OnPreview(e, 1, b)
           p == WithPgm(c.panels[1], a)
           q == WithPvw(e.panels[1], b)
<1>1. 1 \in DOMAIN c.panels
  BY SoundShape
<1>2. Higher(1, a) /\ Higher(1, b)
  BY KnownHigher DEF Takes, Sound, Loose
<1>3. Sound(e) /\ 1 \in DOMAIN e.panels /\ e.inputs = c.inputs /\ Len(e.panels) = Len(c.panels)
  BY <1>1, <1>2, OnProgramSound
<1>4. e.panels = [c.panels EXCEPT ![1] = p] /\ e.main.pgm = a
  BY <1>1, OnProgramIs
<1>5. p.pgm = a
  BY <1>1, <1>2, PanelAgain DEF Sound
<1>6. e.panels[1].pgm = a
  BY <1>1, <1>4, <1>5
<1> HIDE DEF e
<1>7. Sound(d) /\ d.inputs = e.inputs /\ Len(d.panels) = Len(e.panels)
  BY <1>2, <1>3, OnPreviewSound
<1>8. /\ d.panels = [e.panels EXCEPT ![1] = q] /\ IsMain(d.main)
      /\ d.main.pvw = b /\ d.main.pgm = e.main.pgm
  BY <1>3, OnPreviewIs
<1>9. q.pgm = e.panels[1].pgm /\ q.pvw = b
  BY <1>2, <1>3, PanelAgain DEF Sound
<1> HIDE DEF d, q
<1>10. d.panels[1].pgm = a /\ d.panels[1].pvw = b
  BY <1>3, <1>6, <1>8, <1>9
<1>11. OnAir(d)
  BY <1>3, <1>4, <1>7, <1>8, <1>10, OnAirAgain
<1> QED BY <1>7, <1>11 DEF d, e

-----------------------------------------------------------------------------
(* Keys that are set, and recalls *)

\* Keyers that are set, and nothing else.
LEMMA KeysSound ==
  ASSUME NEW c, Sound(c), NEW d, Alike(c, d), d.count = c.count, d.snaps = c.snaps,
         d.startup = c.startup, d.panels = c.panels, d.main = c.main,
         \A n \in DOMAIN c.keyers : \A k \in DOMAIN c.keyers[n] : KeyFits(n, d.keyers[n][k])
  PROVE  Sound(d) /\ (OnAir(c) => OnAir(d))
<1>1. Stored(d) /\ IsMain(d.main)
  BY DEF Sound, Loose, Stored
<1>2. Fits(c, d)
  BY <1>1 DEF Fits, Sound
<1>3. Sound(d)
  BY <1>2, FitsSound
<1>4. ASSUME OnAir(c) PROVE OnAir(d)
  BY <1>4, KnownSame DEF OnAir, Alike
<1> QED BY <1>3, <1>4

SwitchedKey(key) == [key EXCEPT !.on = ~@]

\* A key switched on or off fits.
LEMMA SwitchedFits ==
  ASSUME NEW n, NEW key, KeyFits(n, key)
  PROVE  KeyFits(n, SwitchedKey(key))
BY DEF KeyFits, IsKey, SwitchedKey

\* The cut of tied keys.
LEMMA KeysCutSound ==
  ASSUME NEW c, Sound(c), NEW n
  PROVE  LET d == KeysCut(c, n) IN Sound(d) /\ (OnAir(c) => OnAir(d))
<1> DEFINE d == KeysCut(c, n)
           K(m, k) == IF m = n /\ k \in c.panels[n].ties
                      THEN SwitchedKey(c.keyers[m][k]) ELSE c.keyers[m][k]
<1>1. Shape(c) /\ IsConsole(c)
  BY SoundShape DEF Sound, Loose
<1>2. Alike(c, d)
  BY <1>1, KeysCutAlike
<1>3. /\ d.count = c.count /\ d.snaps = c.snaps /\ d.startup = c.startup
      /\ d.panels = c.panels /\ d.main = c.main
      /\ d.keyers = [m \in DOMAIN c.keyers |-> [k \in DOMAIN c.keyers[m] |-> K(m, k)]]
  BY <1>1 DEF KeysCut, IsConsole, Fields, SwitchedKey
<1> HIDE DEF d
<1>4. ASSUME NEW m \in DOMAIN c.keyers, NEW k \in DOMAIN c.keyers[m]
      PROVE  KeyFits(m, d.keyers[m][k])
  <2>1. KeyFits(m, c.keyers[m][k])
    BY DEF Sound, Loose
  <2>2. d.keyers[m][k] = K(m, k)
    BY <1>3
  <2> QED BY <2>1, <2>2, SwitchedFits
<1>5. Sound(d) /\ (OnAir(c) => OnAir(d))
  BY <1>2, <1>3, <1>4, KeysSound
<1> QED BY <1>5 DEF d

\* One keyer set.
LEMMA KeySound ==
  ASSUME NEW c, Sound(c), NEW n, NEW k \in Keys(c, n), NEW key, KeyFits(n, key)
  PROVE  LET d == [c EXCEPT !.keyers[n][k] = key] IN Sound(d) /\ (OnAir(c) => OnAir(d))
<1> DEFINE d == [c EXCEPT !.keyers[n][k] = key]
<1>1. Shape(c) /\ IsConsole(c) /\ n \in DOMAIN c.keyers /\ k \in DOMAIN c.keyers[n]
  BY SoundShape DEF Sound, Loose, Keys
<1>2. Alike(c, d)
  BY <1>1 DEF Shape, Alike, IsConsole, Fields, IsSeq
<1>3. /\ d.count = c.count /\ d.snaps = c.snaps /\ d.startup = c.startup
      /\ d.panels = c.panels /\ d.main = c.main
      /\ d.keyers = [c.keyers EXCEPT ![n][k] = key]
  BY <1>1 DEF IsConsole, Fields
<1> HIDE DEF d
<1>4. ASSUME NEW m \in DOMAIN c.keyers, NEW j \in DOMAIN c.keyers[m]
      PROVE  KeyFits(m, d.keyers[m][j])
  <2>1. KeyFits(m, c.keyers[m][j])
    BY DEF Sound, Loose
  <2>2. d.keyers[m][j] = IF m = n /\ j = k THEN key ELSE c.keyers[m][j]
    BY <1>1, <1>3
  <2> QED BY <2>1, <2>2
<1>5. Sound(d) /\ (OnAir(c) => OnAir(d))
  BY <1>2, <1>3, <1>4, KeysSound
<1> QED BY <1>5 DEF d

\* A key that the console takes.
LEMMA KeySetFits ==
  ASSUME NEW c, Sound(c), NEW n \in DOMAIN c.keyers, NEW k \in DOMAIN c.keyers[n], NEW key,
         KeyTaken(c, n, KeySet(c, n, k, key))
  PROVE  KeyFits(n, KeySet(c, n, k, key))
<1> DEFINE old == c.keyers[n][k]
           new == KeySet(c, n, k, key)
<1>1. IsKey(old)
  BY DEF Sound, Loose, KeyFits
<1>2. n \in Nat
  BY DEF Sound, IsSeq
<1>3. IsKey(new)
  <2> DEFINE src == IF key.src = None THEN old.src ELSE key.src
  <2>1. new = [old EXCEPT !.mode = key.mode, !.src = src]
    BY DEF KeySet
  <2> HIDE DEF src, old, new
  <2> QED BY <1>1, <2>1 DEF IsKey
<1> HIDE DEF new
<1>4. new.mode # "linear" => Higher(n, new.src)
  BY <1>2, KnownHigher DEF new, KeyTaken, Takes, Sound, Loose
<1> QED BY <1>3, <1>4 DEF KeyFits, new

WithOn(key, on) == [key EXCEPT !.on = on]

\* A recalled key fits: it stays or is taken.
LEMMA KeyRecalledFits ==
  ASSUME NEW c, Sound(c), NEW n \in DOMAIN c.keyers, NEW k \in DOMAIN c.keyers[n],
         NEW stored, NEW air
  PROVE  KeyFits(n, KeyRecalled(c, n, k, stored, air))
<1> DEFINE now == c.keyers[n][k]
           new == KeySet(c, n, k, stored)
           set == IF (now.on /\ ~air) \/ ~KeyTaken(c, n, new) THEN now ELSE new
<1>1. KeyFits(n, now)
  BY DEF Sound, Loose
<1>2. KeyTaken(c, n, new) => KeyFits(n, new)
  BY KeySetFits
<1>3. KeyRecalled(c, n, k, stored, air) = IF air THEN WithOn(set, stored.on) ELSE set
  BY DEF KeyRecalled, WithOn
<1> HIDE DEF now, new
<1>4. KeyFits(n, set)
  BY <1>1, <1>2
<1> HIDE DEF set
<1>5. KeyFits(n, WithOn(set, stored.on))
  BY <1>4 DEF KeyFits, IsKey, WithOn
<1> QED BY <1>3, <1>4, <1>5

\* A recalled panel fits: what does not is skipped.
LEMMA BusRecalledFits ==
  ASSUME NEW c, Sound(c), NEW n \in DOMAIN c.panels, NEW stored, NEW air
  PROVE  PanelFits(c, n, BusRecalled(c, n, stored, air))
<1> DEFINE b == BusRecalled(c, n, stored, air)
           p == c.panels[n]
           ties == stored.ties \cap Keys(c, n)
<1>1. PanelFits(c, n, p) /\ n \in Nat
  BY SoundShape DEF Sound
<1>2. \A s, now : Higher(n, now) => Higher(n, Fit(c, n, s, now))
  BY <1>1, KnownHigher DEF Fit, Sound, Loose
<1>3. /\ b = [pgm |-> b.pgm, pvw |-> b.pvw, ties |-> b.ties, bkgd |-> b.bkgd]
      /\ b.pgm = (IF air THEN Fit(c, n, stored.pgm, p.pgm) ELSE p.pgm)
      /\ b.pvw = Fit(c, n, stored.pvw, p.pvw)
      /\ b.ties = ties /\ b.bkgd = (stored.bkgd \/ ties = {})
  BY DEF BusRecalled, TransitionRecalled
<1> HIDE DEF b, p
<1>4. Higher(n, b.pgm) /\ Higher(n, b.pvw)
  BY <1>1, <1>2, <1>3 DEF PanelFits
<1> HIDE DEF Keys
<1>5. b.ties \subseteq Keys(c, n)
  BY <1>3
<1> HIDE DEF ties
<1>6. b.bkgd \in BOOLEAN
  BY <1>3
<1>7. b.bkgd \/ b.ties # {}
  BY <1>3
<1> QED BY <1>3, <1>4, <1>5, <1>6, <1>7 DEF PanelFits, IsPanel, b

\* The parts of what a recall leaves.
RecKey(c, snap, air, n, k) ==
  IF n \in DOMAIN snap.mes /\ k \in DOMAIN snap.mes[n].keys
  THEN KeyRecalled(c, n, k, snap.mes[n].keys[k], air) ELSE c.keyers[n][k]
RecPanel(c, snap, air, n) ==
  IF n \in DOMAIN snap.mes THEN BusRecalled(c, n, snap.mes[n].bus, air) ELSE c.panels[n]
RecMain(now, old, main) == IF now = old THEN main ELSE now

\* What a recall leaves, part by part.
LEMMA RecalledIs ==
  ASSUME NEW c, Sound(c), NEW snap, NEW air
  PROVE  LET d == Recalled(c, snap, air) IN
           /\ d.panels = [n \in DOMAIN c.panels |-> RecPanel(c, snap, air, n)]
           /\ d.keyers = [n \in DOMAIN c.keyers |->
                            [k \in DOMAIN c.keyers[n] |-> RecKey(c, snap, air, n, k)]]
           /\ d.main = [pgm |-> RecMain(d.panels[1].pgm, c.panels[1].pgm, c.main.pgm),
                        pvw |-> RecMain(d.panels[1].pvw, c.panels[1].pvw, c.main.pvw)]
           /\ d.inputs = c.inputs /\ d.count = c.count /\ d.mes = c.mes /\ d.keys = c.keys
           /\ d.snaps = c.snaps /\ d.startup = c.startup /\ IsConsole(d)
<1> DEFINE panels == [n \in DOMAIN c.panels |-> RecPanel(c, snap, air, n)]
           keyers == [n \in DOMAIN c.keyers |->
                        [k \in DOMAIN c.keyers[n] |-> RecKey(c, snap, air, n, k)]]
           main == [pgm |-> RecMain(panels[1].pgm, c.panels[1].pgm, c.main.pgm),
                    pvw |-> RecMain(panels[1].pvw, c.panels[1].pvw, c.main.pvw)]
           d == Recalled(c, snap, air)
<1>1. d = [c EXCEPT !.panels = panels, !.main = main, !.keyers = keyers]
  BY DEF Recalled, RecPanel, RecKey, RecMain
<1>2. IsConsole(c)
  BY DEF Sound, Loose
<1> HIDE DEF d, panels, keyers
<1>3. d.panels = panels /\ d.main = main /\ d.keyers = keyers
  BY <1>1, <1>2 DEF IsConsole, Fields
<1>4. /\ d.inputs = c.inputs /\ d.count = c.count /\ d.mes = c.mes /\ d.keys = c.keys
      /\ d.snaps = c.snaps /\ d.startup = c.startup /\ IsConsole(d)
  BY <1>1, <1>2 DEF IsConsole, Fields
<1> QED BY <1>3, <1>4 DEF d, panels, keyers

\* A recall leaves a console sound, and on air, whatever was stored.
LEMMA RecalledSound ==
  ASSUME NEW c, Sound(c), NEW snap, NEW air
  PROVE  LET d == Recalled(c, snap, air) IN Alike(c, d) /\ Sound(d) /\ (OnAir(c) => OnAir(d))
<1> DEFINE d == Recalled(c, snap, air)
<1>1. /\ d.panels = [n \in DOMAIN c.panels |-> RecPanel(c, snap, air, n)]
      /\ d.keyers = [n \in DOMAIN c.keyers |->
                       [k \in DOMAIN c.keyers[n] |-> RecKey(c, snap, air, n, k)]]
      /\ d.main = [pgm |-> RecMain(d.panels[1].pgm, c.panels[1].pgm, c.main.pgm),
                   pvw |-> RecMain(d.panels[1].pvw, c.panels[1].pvw, c.main.pvw)]
      /\ d.inputs = c.inputs /\ d.count = c.count /\ d.mes = c.mes /\ d.keys = c.keys
      /\ d.snaps = c.snaps /\ d.startup = c.startup /\ IsConsole(d)
  BY RecalledIs
<1>2. Alike(c, d)
  BY SoundShape, RecalledAlike
<1> HIDE DEF d
<1>3. IsMain(d.main) /\ Stored(d)
  BY <1>1 DEF IsMain, Stored, Sound, Loose
<1>4. ASSUME NEW n \in DOMAIN c.panels PROVE PanelFits(c, n, d.panels[n])
  <2>1. d.panels[n] = RecPanel(c, snap, air, n)
    BY <1>1
  <2>2. PanelFits(c, n, c.panels[n])
    BY DEF Sound
  <2> QED BY <2>1, <2>2, BusRecalledFits DEF RecPanel
<1>5. ASSUME NEW n \in DOMAIN c.keyers, NEW k \in DOMAIN c.keyers[n]
      PROVE  KeyFits(n, d.keyers[n][k])
  <2>1. d.keyers[n][k] = RecKey(c, snap, air, n, k)
    BY <1>1
  <2>2. KeyFits(n, c.keyers[n][k])
    BY DEF Sound, Loose
  <2> QED BY <2>1, <2>2, KeyRecalledFits DEF RecKey
<1>6. Sound(d)
  BY <1>1, <1>2, <1>3, <1>4, <1>5, FitsSound DEF Fits
<1>7. ASSUME OnAir(c) PROVE OnAir(d)
  <2> DEFINE p == c.panels[1]
             q == d.panels[1]
  <2>1. 1 \in DOMAIN c.panels
    BY SoundShape
  <2>2. c.main.pgm = p.pgm /\ c.main.pvw = p.pvw /\ Takes(c, 1, p.pgm) /\ Takes(c, 1, p.pvw)
    BY <1>7 DEF OnAir
  <2>3. d.main.pgm = RecMain(q.pgm, p.pgm, c.main.pgm) /\ d.main.pvw = RecMain(q.pvw, p.pvw, c.main.pvw)
    BY <1>1
  <2>4. q = RecPanel(c, snap, air, 1)
    BY <1>1, <2>1
  <2>5. \A s, now : Takes(c, 1, now) => Takes(c, 1, Fit(c, 1, s, now))
    BY DEF Fit, Takes
  <2>6. ASSUME NEW stored PROVE LET b == BusRecalled(c, 1, stored, air) IN
                                  Takes(c, 1, b.pgm) /\ Takes(c, 1, b.pvw)
    <3> DEFINE b == BusRecalled(c, 1, stored, air)
    <3>1. /\ b.pgm = (IF air THEN Fit(c, 1, stored.pgm, p.pgm) ELSE p.pgm)
          /\ b.pvw = Fit(c, 1, stored.pvw, p.pvw)
      BY DEF BusRecalled
    <3> HIDE DEF b, p
    <3> QED BY <2>2, <2>5, <3>1 DEF b
  <2> HIDE DEF p, q
  <2>7. Takes(c, 1, q.pgm) /\ Takes(c, 1, q.pvw)
    BY <2>2, <2>4, <2>6 DEF RecPanel, p
  <2>8. d.main.pgm = q.pgm /\ d.main.pvw = q.pvw
    BY <2>2, <2>3 DEF RecMain
  <2>9. Len(d.panels) = Len(c.panels)
    BY <1>2, AsLong DEF Alike, Sound, Loose
  <2> QED BY <1>1, <1>3, <2>7, <2>8, <2>9, OnAirAgain DEF q
<1> QED BY <1>2, <1>6, <1>7 DEF d

\* So does the recall that a start makes.
LEMMA StartupSound ==
  ASSUME NEW c, Sound(c)
  PROVE  LET d == StartupRecalled(c) IN Sound(d) /\ (OnAir(c) => OnAir(d))
BY RecalledSound DEF StartupRecalled

-----------------------------------------------------------------------------
(* Snapshots, ties and inputs *)

\* Other snapshots.
LEMMA SnapsSound ==
  ASSUME NEW c, Sound(c), NEW snaps, NEW startup, snaps = [n \in Numbers |-> snaps[n]],
         startup # None => startup \in Numbers /\ (NoneApart => snaps[startup] # None)
  PROVE  LET d == [c EXCEPT !.snaps = snaps, !.startup = startup] IN
           Sound(d) /\ (OnAir(c) => OnAir(d))
<1> DEFINE d == [c EXCEPT !.snaps = snaps, !.startup = startup]
<1>1. Shape(c) /\ IsConsole(c)
  BY SoundShape DEF Sound, Loose
<1>2. /\ IsConsole(d) /\ d.inputs = c.inputs /\ d.count = c.count /\ d.mes = c.mes
      /\ d.keys = c.keys /\ d.panels = c.panels /\ d.keyers = c.keyers /\ d.main = c.main
      /\ d.snaps = snaps /\ d.startup = startup
  BY <1>1 DEF IsConsole, Fields
<1> HIDE DEF d
<1>3. Alike(c, d)
  BY <1>1, <1>2 DEF Shape, Alike, IsSeq
<1>4. Stored(d)
  BY <1>2 DEF Stored
<1>5. Fits(c, d)
  BY <1>2, <1>3, <1>4 DEF Fits, Sound, Loose
<1>6. Sound(d)
  BY <1>5, FitsSound
<1>7. ASSUME OnAir(c) PROVE OnAir(d)
  BY <1>2, <1>7, KnownSame DEF OnAir
<1> QED BY <1>6, <1>7 DEF d

\* A snapshot stored.
LEMMA StoreSound ==
  ASSUME NEW c, Sound(c), NEW number, NEW all, NEW air, NEW mes
  PROVE  LET d == [c EXCEPT !.snaps[number] = [all |-> all, air |-> air, mes |-> mes]] IN
           Sound(d) /\ (OnAir(c) => OnAir(d))
<1> DEFINE snap == [all |-> all, air |-> air, mes |-> mes]
           snaps == [c.snaps EXCEPT ![number] = snap]
           d == [c EXCEPT !.snaps[number] = snap]
<1>1. IsConsole(c) /\ Stored(c)
  BY DEF Sound, Loose
<1>2. NoneApart => snap # None
  BY DEF NoneApart
<1> HIDE DEF snap
<1>3. snaps = [n \in Numbers |-> snaps[n]]
  BY <1>1 DEF Stored
<1>4. c.startup # None => c.startup \in Numbers /\ (NoneApart => snaps[c.startup] # None)
  BY <1>1, <1>2 DEF Stored
<1>5. d = [c EXCEPT !.snaps = snaps, !.startup = c.startup]
  BY <1>1 DEF IsConsole, Fields
<1> HIDE DEF d, snaps
<1>6. Sound(d) /\ (OnAir(c) => OnAir(d))
  BY <1>3, <1>4, <1>5, SnapsSound
<1> QED BY <1>6 DEF d, snap

\* A snapshot deleted, as the start-up one if it is.
LEMMA DeleteSound ==
  ASSUME NEW c, Sound(c), NEW number
  PROVE  LET d == [c EXCEPT !.snaps[number] = None, !.startup = IF @ = number THEN None ELSE @] IN
           Sound(d) /\ (OnAir(c) => OnAir(d))
<1> DEFINE snaps == [c.snaps EXCEPT ![number] = None]
           startup == IF c.startup = number THEN None ELSE c.startup
           d == [c EXCEPT !.snaps[number] = None, !.startup = IF @ = number THEN None ELSE @]
<1>1. IsConsole(c) /\ Stored(c)
  BY DEF Sound, Loose
<1>2. snaps = [n \in Numbers |-> snaps[n]]
  BY <1>1 DEF Stored
<1>3. startup # None => startup \in Numbers /\ (NoneApart => snaps[startup] # None)
  BY <1>1 DEF Stored
<1>4. d = [c EXCEPT !.snaps = snaps, !.startup = startup]
  BY <1>1 DEF IsConsole, Fields
<1> HIDE DEF d, snaps, startup
<1>5. Sound(d) /\ (OnAir(c) => OnAir(d))
  BY <1>2, <1>3, <1>4, SnapsSound
<1> QED BY <1>5 DEF d

\* Another start-up snapshot.
LEMMA StartupSetSound ==
  ASSUME NEW c, Sound(c), NEW number \in Numbers \cup {None},
         number # None => c.snaps[number] # None
  PROVE  LET d == [c EXCEPT !.startup = number] IN Sound(d) /\ (OnAir(c) => OnAir(d))
<1> DEFINE d == [c EXCEPT !.startup = number]
<1>1. IsConsole(c) /\ Stored(c)
  BY DEF Sound, Loose
<1>2. d = [c EXCEPT !.snaps = c.snaps, !.startup = number]
  BY <1>1 DEF IsConsole, Fields
<1> HIDE DEF d
<1>3. c.snaps = [n \in Numbers |-> c.snaps[n]]
  BY <1>1 DEF Stored
<1>4. Sound(d) /\ (OnAir(c) => OnAir(d))
  BY <1>2, <1>3, SnapsSound
<1> QED BY <1>4 DEF d

\* Ties and BKGD of an ME.
WithTies(p, ties, bkgd) == [p EXCEPT !.ties = ties, !.bkgd = bkgd]

\* Ties to keyers that are there.
LEMMA TiesSound ==
  ASSUME NEW c, Sound(c), NEW n \in DOMAIN c.panels, NEW ties, ties \subseteq Keys(c, n),
         NEW bkgd \in BOOLEAN, bkgd \/ ties # {}
  PROVE  LET d == [c EXCEPT !.panels[n].ties = ties, !.panels[n].bkgd = bkgd] IN
           Sound(d) /\ (OnAir(c) => OnAir(d))
<1> DEFINE p == WithTies(c.panels[n], ties, bkgd)
           d == [c EXCEPT !.panels[n].ties = ties, !.panels[n].bkgd = bkgd]
           old == c.panels[n]
<1>1. Shape(c) /\ IsConsole(c) /\ IsSeq(c.panels)
  BY SoundShape DEF Sound, Loose
<1>2. /\ IsConsole(d) /\ d.inputs = c.inputs /\ d.count = c.count /\ d.mes = c.mes
      /\ d.keys = c.keys /\ d.keyers = c.keyers /\ d.main = c.main
      /\ d.snaps = c.snaps /\ d.startup = c.startup
      /\ d.panels = [c.panels EXCEPT ![n] = p]
  BY <1>1 DEF IsConsole, Fields, WithTies, IsSeq
<1> HIDE DEF d
<1>3. PanelFits(c, n, old)
  BY DEF Sound
<1>4. IsPanel(p) /\ p.pgm = old.pgm /\ p.pvw = old.pvw /\ p.ties = ties /\ p.bkgd = bkgd
  <2> HIDE DEF old
  <2> DEFINE q == WithTies(old, ties, bkgd)
  <2>1. IsPanel(q) /\ q.pgm = old.pgm /\ q.pvw = old.pvw /\ q.ties = ties /\ q.bkgd = bkgd
    <3>0. q = [old EXCEPT !.ties = ties, !.bkgd = bkgd]
      BY DEF WithTies
    <3> HIDE DEF q
    <3>1. DOMAIN old = {"pgm", "pvw", "ties", "bkgd"}
      BY <1>3 DEF PanelFits, IsPanel
    <3>2. DOMAIN q = {"pgm", "pvw", "ties", "bkgd"} /\ q = [x \in DOMAIN q |-> q[x]]
      BY <3>0, <3>1
    <3>3. q.pgm = old.pgm /\ q.pvw = old.pvw /\ q.ties = ties /\ q.bkgd = bkgd
      BY <3>0, <3>1
    <3> QED BY <3>2, <3>3 DEF IsPanel
  <2> QED BY <2>1 DEF old
<1> HIDE DEF p, old
<1>5. PanelFits(c, n, p)
  BY <1>3, <1>4 DEF PanelFits
<1>6. Alike(c, d)
  BY <1>1, <1>2 DEF Shape, Alike, IsSeq
<1>7. IsMain(d.main)
  BY <1>2 DEF Sound, Loose
<1>8. Sound(d)
  BY <1>2, <1>5, <1>6, <1>7, BusSound
<1>9. ASSUME OnAir(c) PROVE OnAir(d)
  <2>1. 1 \in DOMAIN c.panels
    BY SoundShape
  <2>2. d.panels[1].pgm = c.panels[1].pgm /\ d.panels[1].pvw = c.panels[1].pvw
    BY <1>2, <1>4, <2>1 DEF old
  <2>3. Len(d.panels) = Len(c.panels)
    BY <1>6, AsLong DEF Alike, Sound, Loose
  <2>4. c.main.pgm = c.panels[1].pgm /\ c.main.pvw = c.panels[1].pvw
    BY <1>9 DEF OnAir
  <2> QED BY <1>2, <1>7, <1>9, <2>2, <2>3, <2>4, OnAirAgain DEF OnAir
<1> QED BY <1>8, <1>9 DEF d

\* Other inputs.
LEMMA InputsSound ==
  ASSUME NEW c, Sound(c), NEW inputs, Listed(inputs), Renumbered(inputs) = inputs
  PROVE  Sound([c EXCEPT !.inputs = inputs])
<1> DEFINE d == [c EXCEPT !.inputs = inputs]
<1>1. IsConsole(c) /\ Loose(c)
  BY DEF Sound, Loose
<1>2. /\ IsConsole(d) /\ d.inputs = inputs /\ d.count = c.count /\ d.mes = c.mes
      /\ d.keys = c.keys /\ d.keyers = c.keyers /\ d.main = c.main
      /\ d.snaps = c.snaps /\ d.startup = c.startup /\ d.panels = c.panels
  BY <1>1 DEF IsConsole, Fields
<1> HIDE DEF d
<1>3. Loose(d)
  BY <1>1, <1>2 DEF Loose, Stored
<1>4. Render(d) = Render(c) /\ \A n : Keys(d, n) = Keys(c, n)
  BY <1>2 DEF Render, Keys
<1>5. Sound(d)
  BY <1>2, <1>3, <1>4 DEF Sound, PanelFits
<1> QED BY <1>5 DEF d

\* A new id is one input more.
LEMMA RegisteredListed ==
  ASSUME NEW s, Listed(s), NEW i \in Registrable, i.id \notin IdsOf(s)
  PROVE  Listed(Append(s, i))
<1>1. i \in Inputs
  <2>1. IsInput(i)
    BY WorkspaceAssumption
  <2>2. i.id \in Idents
    BY DEF Idents
  <2> QED BY <2>1, <2>2 DEF IsInput, Inputs
<1>2. \A j \in ToSet(s) : j.id # i.id
  BY DEF IdsOf
<1>3. /\ IsList(Append(s, i)) /\ ToSet(Append(s, i)) = ToSet(s) \cup {i}
      /\ IsInjective(s) /\ i \notin ToSet(s) => IsInjective(Append(s, i))
  BY <1>1, ListAppend DEF Listed
<1>4. NoTwins(ToSet(s) \cup {i})
  BY <1>2 DEF NoTwins, Listed
<1> QED BY <1>2, <1>3, <1>4 DEF Listed

\* No two places have one id.
LEMMA ListedBy ==
  ASSUME NEW N \in Nat, NEW s, s = [k \in 1 .. N |-> s[k]], \A k \in 1 .. N : s[k] \in Inputs,
         \A k, l \in 1 .. N : s[k].id = s[l].id => k = l
  PROVE  Listed(s) /\ Len(s) = N /\ ToSet(s) = {s[k] : k \in 1 .. N}
<1>1. s \in [1 .. N -> Inputs]
  OBVIOUS
<1>2. s \in Seq(Inputs)
  BY <1>1, SeqDef
<1>3. Len(s) = N
  BY LenIs
<1>4. IsList(s)
  BY <1>2 DEF IsList
<1>5. DOMAIN s = 1 .. N
  OBVIOUS
<1>6. ToSet(s) = {s[k] : k \in 1 .. N}
  BY <1>3, <1>4, ListCount
<1>7. NoTwins(ToSet(s))
  BY <1>6 DEF NoTwins
<1>8. IsInjective(s)
  BY <1>5 DEF IsInjective
<1> QED BY <1>3, <1>4, <1>6, <1>7, <1>8 DEF Listed

\* No two places of what is listed have one id.
LEMMA ListedPlaces ==
  ASSUME NEW s, Listed(s)
  PROVE  \A k, l \in DOMAIN s : s[k].id = s[l].id => k = l
<1>1. \A k \in DOMAIN s : s[k] \in ToSet(s)
  BY ListCount DEF Listed
<1> QED BY <1>1 DEF Listed, NoTwins, IsInjective

\* An input of another kind keeps its place and id.
LEMMA RekindedListed ==
  ASSUME NEW s, Listed(s), NEW i \in Rekinds, i.id \in IdsOf(s)
  PROVE  Listed([k \in DOMAIN s |-> IF s[k].id = i.id THEN i ELSE s[k]])
<1> DEFINE t == [k \in DOMAIN s |-> IF s[k].id = i.id THEN i ELSE s[k]]
<1>1. Len(s) \in Nat /\ DOMAIN s = 1 .. Len(s) /\ ToSet(s) \subseteq Inputs
      /\ \A k \in DOMAIN s : s[k] \in ToSet(s)
  BY ListCount DEF Listed
<1>2. i \in Inputs
  <2>1. IsInput(i)
    BY WorkspaceAssumption
  <2>2. i.id \in Idents
    BY <1>1, InputsAre DEF IdsOf
  <2> QED BY <2>1, <2>2 DEF IsInput, Inputs
<1>3. \A k \in DOMAIN s : t[k] \in Inputs /\ t[k].id = s[k].id
  BY <1>1, <1>2
<1>4. t = [k \in DOMAIN s |-> t[k]]
  OBVIOUS
<1> HIDE DEF t
<1>5. \A k, l \in DOMAIN s : t[k].id = t[l].id => k = l
  BY <1>3, ListedPlaces
<1>6. Listed(t)
  BY <1>1, <1>3, <1>4, <1>5, ListedBy
<1> QED BY <1>6 DEF t

-----------------------------------------------------------------------------
(* Changes of the structure *)

\* A layout.
LEMMA LayoutSound ==
  ASSUME NEW c, Sound(c), NEW count \in Counts, NEW mes \in MeCounts, NEW keys \in KeyCounts
  PROVE  Sound(Settled([c EXCEPT !.count = count, !.mes = mes, !.keys = keys]))
<1> DEFINE d == [c EXCEPT !.count = count, !.mes = mes, !.keys = keys]
<1>1. Loose(c) /\ IsConsole(c)
  BY DEF Sound, Loose
<1>2. /\ IsConsole(d) /\ d.inputs = c.inputs /\ d.count = count /\ d.mes = mes
      /\ d.keys = keys /\ d.keyers = c.keyers /\ d.main = c.main
      /\ d.snaps = c.snaps /\ d.startup = c.startup /\ d.panels = c.panels
  BY <1>1 DEF IsConsole, Fields
<1>3. mes \in 1 .. Len(Mes)
  BY WorkspaceAssumption
<1> HIDE DEF d
<1>4. Loose(d)
  BY <1>1, <1>2, <1>3 DEF Loose, Stored
<1> QED BY <1>4, SettledSound DEF d

\* The inputs of a document.
LEMMA DocListed ==
  ASSUME NEW doc \in Docs
  PROVE  Listed(doc.inputs)
<1> DEFINE s == doc.inputs
<1>1. /\ s \in Seq(ToSet(s)) /\ \A i \in ToSet(s) : IsInput(i)
      /\ \A n, m \in DOMAIN s : s[n].id = s[m].id => n = m
  BY DocsAssumption
<1>2. ToSet(s) \subseteq Inputs
  <2>1. \A i \in ToSet(s) : i.id \in Idents
    BY DEF Idents
  <2> QED BY <1>1, <2>1 DEF IsInput, Inputs
<1> HIDE DEF s
<1>3. Len(s) \in Nat /\ DOMAIN s = 1 .. Len(s) /\ s = [k \in 1 .. Len(s) |-> s[k]]
  BY <1>1, LenProperties
<1>4. \A k \in 1 .. Len(s) : s[k] \in Inputs
  BY <1>1, <1>2, <1>3, ElementOfSeq
<1>5. Listed(s)
  BY <1>1, <1>3, <1>4, ListedBy
<1> QED BY <1>5 DEF s

\* An import.
LEMMA DocSound ==
  ASSUME NEW doc \in Docs
  PROVE  Sound(Loaded(doc))
<1>1. /\ IsConsole(doc) /\ doc.count \in Counts /\ doc.mes \in MeCounts /\ doc.keys \in KeyCounts
      /\ doc.panels = [n \in 1 .. doc.mes |-> doc.panels[n]]
      /\ doc.snaps = [n \in Numbers |-> doc.snaps[n]]
      /\ doc.startup # None => doc.startup \in Numbers /\ doc.snaps[doc.startup] # None
  BY DocsAssumption DEF IsConsole
<1>2. \A n \in 1 .. doc.mes : IsPanel(doc.panels[n])
  BY DocsAssumption DEF IsPanel
<1>3. \A n \in DOMAIN doc.keyers : \A k \in DOMAIN doc.keyers[n] : KeyFits(n, doc.keyers[n][k])
  <2>1. DOMAIN Mes = 1 .. Len(Mes)
    BY MesAre
  <2>2. \A n \in DOMAIN doc.keyers : \A k \in DOMAIN doc.keyers[n] : LET key == doc.keyers[n][k] IN
          /\ key = [mode |-> key.mode, src |-> key.src, on |-> key.on]
          /\ key.mode # "linear" /\ key.src \notin InputIds =>
               \A m \in DOMAIN Mes : m <= n => key.src # Mes[m]
    BY DocsAssumption
  <2> SUFFICES ASSUME NEW n \in DOMAIN doc.keyers, NEW k \in DOMAIN doc.keyers[n]
               PROVE  KeyFits(n, doc.keyers[n][k])
    OBVIOUS
  <2> DEFINE key == doc.keyers[n][k]
  <2>3. /\ key = [mode |-> key.mode, src |-> key.src, on |-> key.on]
        /\ key.mode # "linear" /\ key.src \notin InputIds =>
             \A m \in DOMAIN Mes : m <= n => key.src # Mes[m]
    BY <2>2
  <2> HIDE DEF key
  <2>4. KeyFits(n, key)
    BY <2>1, <2>3 DEF KeyFits, IsKey, Higher
  <2> QED BY <2>4 DEF key
<1>4. doc.mes \in Nat /\ doc.mes \in 1 .. Len(Mes) /\ doc.mes <= Len(Mes)
  <2>1. doc.mes \in 1 .. Len(Mes)
    BY <1>1, WorkspaceAssumption
  <2>2. Len(Mes) = 4
    BY MesAre
  <2> QED BY <2>1, <2>2
<1>5. IsSeq(doc.panels) /\ Len(doc.panels) = doc.mes /\ DOMAIN doc.panels = 1 .. doc.mes
  BY <1>1, <1>4, LenIs
<1>6. ASSUME NEW m, IsMain(m) PROVE Loose([doc EXCEPT !.main = m])
  <2> DEFINE d == [doc EXCEPT !.main = m]
  <2>1. /\ IsConsole(d) /\ d.inputs = doc.inputs /\ d.count = doc.count /\ d.mes = doc.mes
        /\ d.keys = doc.keys /\ d.keyers = doc.keyers /\ d.main = m
        /\ d.snaps = doc.snaps /\ d.startup = doc.startup /\ d.panels = doc.panels
    BY <1>1 DEF IsConsole, Fields
  <2> HIDE DEF d
  <2>2. Stored(d)
    BY <1>1, <2>1 DEF Stored
  <2>3. Loose(d)
    BY <1>1, <1>2, <1>3, <1>4, <1>5, <1>6, <2>1, <2>2, DocListed DEF Loose
  <2> QED BY <2>3 DEF d
<1> QED BY <1>6, LoadedSound

\* A restart.
LEMMA AgainSound ==
  ASSUME NEW c, Sound(c)
  PROVE  Sound(Loaded(c))
<1>1. \A m : IsMain(m) => Loose([c EXCEPT !.main = m])
  BY MainSound DEF Sound
<1> QED BY <1>1, LoadedSound

\* The first console.
LEMMA DefaultsSound == Sound(Defaults(Max(Counts)))
<1> DEFINE c == [inputs |-> << >>, count |-> Max(Counts), mes |-> 1, keys |-> Max(KeyCounts),
                 panels |-> << >>, keyers |-> << >>, main |-> [pgm |-> None, pvw |-> None],
                 snaps |-> [n \in Numbers |-> None], startup |-> None]
<1>1. Defaults(Max(Counts)) = Settled(c)
  BY DEF Defaults
<1>2. /\ IsConsole(c) /\ c.inputs = << >> /\ c.count = Max(Counts) /\ c.mes = 1
      /\ c.keys = Max(KeyCounts) /\ c.panels = << >> /\ c.keyers = << >>
      /\ c.main = [pgm |-> None, pvw |-> None] /\ c.snaps = [n \in Numbers |-> None]
      /\ c.startup = None
  BY DEF IsConsole, Fields
<1> HIDE DEF c
<1>3. Listed(<< >>)
  BY ListEmpty DEF Listed, NoTwins
<1>4. IsSeq(<< >>) /\ Len(<< >>) = 0 /\ DOMAIN << >> = {}
  BY DEF IsSeq
<1>5. IsMain(c.main) /\ Stored(c)
  BY <1>2 DEF IsMain, Stored
<1>6. Max(Counts) \in Counts /\ Max(KeyCounts) \in KeyCounts /\ 1 \in 1 .. Len(Mes) /\ 0 <= Len(Mes)
  BY WorkspaceAssumption, MesAre
<1>7. Loose(c)
  BY <1>2, <1>3, <1>4, <1>5, <1>6 DEF Loose
<1> QED BY <1>1, <1>7, SettledSound

-----------------------------------------------------------------------------
(* The steps *)

\* A call that sets something.
LEMMA SetSounds ==
  ASSUME SoundInv, NEW c, Set(c), Sound(c), OnAir(console) => OnAir(c)
  PROVE  SoundInv'
<1>1. /\ console' = c /\ UNCHANGED <<state, booting, engine, stopping, crossed, asked>>
      /\ changes < MaxChanges /\ changes' = changes + 1
  BY DEF Set, Kept, Call
<1>2. Sound(console)' /\ (OnAir(console) => OnAir(console)')
  BY <1>1
<1>3. changes' \in 0 .. MaxChanges
  BY <1>1, WorkspaceAssumption DEF SoundInv
<1> QED BY <1>1, <1>2, <1>3 DEF SoundInv

\* A call that changes the structure.
LEMMA RestructuredSounds ==
  ASSUME SoundInv, NEW c, Restructured(c), Sound(c)
  PROVE  SoundInv'
<1>1. /\ state # "running" /\ console' = c /\ UNCHANGED <<state, booting, engine, stopping, asked>>
      /\ crossed' = (IF booting # None THEN crossed \cup {"structure"} ELSE crossed)
      /\ changes < MaxChanges /\ changes' = changes + 1
  BY DEF Restructured, Kept, Call
<1>2. Sound(console)'
  BY <1>1
<1>3. changes' \in 0 .. MaxChanges
  BY <1>1, WorkspaceAssumption DEF SoundInv
<1> QED BY <1>1, <1>2, <1>3 DEF SoundInv

\* The calls that change the structure.
LEMMA StructureSounds ==
  ASSUME SoundInv,
         \/ \E count \in Counts, mes \in MeCounts, keys \in KeyCounts :
              ApplyWorkspace(count, mes, keys)
         \/ \E i \in Registrable : RegisterInput(i)
         \/ \E id \in Chosen : DeleteInput(id)
         \/ \E i \in Rekinds : ChangeKind(i)
         \/ \E doc \in Docs : Import(doc)
  PROVE  SoundInv'
<1>1. Sound(console) /\ Listed(console.inputs) /\ Renumbered(console.inputs) = console.inputs
  BY DEF SoundInv, Sound, Loose
<1>2. Ids(console) = IdsOf(console.inputs)
  BY DEF Ids, IdsOf
<1>3. ASSUME NEW inputs, Restructured([console EXCEPT !.inputs = inputs]),
             Listed(inputs), Renumbered(inputs) = inputs
      PROVE  SoundInv'
  BY <1>1, <1>3, InputsSound, RestructuredSounds
<1>4. ASSUME NEW i \in Registrable, RegisterInput(i) PROVE SoundInv'
  <2> DEFINE s == Append(console.inputs, i)
             t == Renumbered(s)
  <2>1. Restructured([console EXCEPT !.inputs = t]) /\ i.id \notin Ids(console)
    BY <1>4 DEF RegisterInput
  <2>2. Listed(s)
    BY <1>1, <1>2, <2>1, RegisteredListed
  <2> HIDE DEF s
  <2>3. Listed(t) /\ Renumbered(t) = t
    BY <2>2, RenumberedListed
  <2> HIDE DEF t
  <2> QED BY <1>3, <2>1, <2>3
<1>5. ASSUME NEW id, DeleteInput(id) PROVE SoundInv'
  <2> DEFINE t == Without(console.inputs, id)
  <2>1. Restructured([console EXCEPT !.inputs = t])
    BY <1>5 DEF DeleteInput
  <2>2. Listed(t)
    BY <1>1, WithoutListed
  <2>3. Renumbered(t) = t
    BY <1>1, NumberedThose DEF Without, Listed
  <2> HIDE DEF t
  <2> QED BY <1>3, <2>1, <2>2, <2>3
<1>6. ASSUME NEW i \in Rekinds, ChangeKind(i) PROVE SoundInv'
  <2> DEFINE s == [k \in DOMAIN console.inputs |->
                     IF console.inputs[k].id = i.id THEN i ELSE console.inputs[k]]
             t == Renumbered(s)
  <2>1. Restructured([console EXCEPT !.inputs = t]) /\ i.id \in Ids(console)
    BY <1>6 DEF ChangeKind, Ids
  <2>2. Listed(s)
    BY <1>1, <1>2, <2>1, RekindedListed
  <2> HIDE DEF s
  <2>3. Listed(t) /\ Renumbered(t) = t
    BY <2>2, RenumberedListed
  <2> HIDE DEF t
  <2> QED BY <1>3, <2>1, <2>3
<1>7. ASSUME NEW count \in Counts, NEW mes \in MeCounts, NEW keys \in KeyCounts,
             ApplyWorkspace(count, mes, keys)
      PROVE  SoundInv'
  BY <1>1, <1>7, LayoutSound, RestructuredSounds DEF ApplyWorkspace
<1>8. ASSUME NEW doc \in Docs, Import(doc) PROVE SoundInv'
  BY <1>8, DocSound, RestructuredSounds DEF Import
<1> QED BY <1>4, <1>5, <1>6, <1>7, <1>8

\* The operator's calls on an ME.
LEMMA PanelSounds ==
  ASSUME SoundInv, NEW n,
         \/ \E source \in Chosen : Take(n, source) \/ SetPreview(n, source)
         \/ Cut(n)
         \/ \E ties, bkgd : bkgd \in BOOLEAN /\ UpdateTransition(n, ties, bkgd)
         \/ \E k : SwitchKey(n, k) \/ \E key \in Keyed : SetKey(n, k, key)
  PROVE  SoundInv'
<1> DEFINE c == console
<1>1. Sound(c) /\ Loose(c)
  BY DEF SoundInv, Sound
<1>2. \A m \in DOMAIN c.panels : \A s : Takes(c, m, s) => Higher(m, s)
  BY <1>1, SoundShape, KnownHigher DEF Takes, Loose
<1>3. CASE \E source \in Chosen : Take(n, source) \/ SetPreview(n, source)
  BY <1>1, <1>2, <1>3, OnProgramSound, OnPreviewSound, SetSounds DEF Take, SetPreview
<1>4. CASE Cut(n)
  <2> DEFINE p == c.panels[n]
             turned == IF p.pgm \in {None, p.pvw} THEN c ELSE OnPreview(c, n, p.pgm)
             swapped == OnProgram(turned, n, p.pvw)
  <2>1. n \in DOMAIN c.panels
    BY <1>4 DEF Cut
  <2>2. PanelFits(c, n, p)
    BY <1>1, <2>1 DEF Sound
  <2>3. OnAir(c) /\ n = 1 => Takes(c, n, p.pgm) /\ Takes(c, n, p.pvw)
    BY DEF OnAir
  <2>4. Set(KeysCut(c, n)) \/ (Set(KeysCut(swapped, n)) /\ Takes(c, n, p.pvw))
    BY <1>4 DEF Cut
  <2> HIDE DEF p
  <2>5. /\ Sound(turned) /\ (OnAir(c) => OnAir(turned)) /\ DOMAIN turned.panels = DOMAIN c.panels
        /\ turned.inputs = c.inputs /\ Len(turned.panels) = Len(c.panels)
    BY <1>1, <2>1, <2>2, <2>3, OnPreviewSound DEF PanelFits
  <2> HIDE DEF turned
  <2>6. Takes(turned, n, p.pvw) <=> Takes(c, n, p.pvw)
    BY <2>5, KnownSame
  <2>7. Sound(swapped) /\ (OnAir(c) /\ Takes(c, n, p.pvw) => OnAir(swapped))
    BY <2>1, <2>2, <2>5, <2>6, OnProgramSound DEF PanelFits
  <2> HIDE DEF swapped
  <2>8. CASE Set(KeysCut(c, n))
    BY <1>1, <2>8, KeysCutSound, SetSounds
  <2>9. CASE Set(KeysCut(swapped, n)) /\ Takes(c, n, p.pvw)
    BY <2>7, <2>9, KeysCutSound, SetSounds
  <2> QED BY <2>4, <2>8, <2>9
<1>5. ASSUME NEW ties, NEW bkgd \in BOOLEAN, UpdateTransition(n, ties, bkgd) PROVE SoundInv'
  BY <1>1, <1>5, TiesSound, SetSounds DEF UpdateTransition
<1>6. ASSUME NEW k, SwitchKey(n, k) PROVE SoundInv'
  <2> DEFINE key == SwitchedKey(c.keyers[n][k])
  <2>1. k \in Keys(c, n) /\ n \in DOMAIN c.keyers /\ k \in DOMAIN c.keyers[n]
    BY <1>6 DEF SwitchKey, Keys
  <2>2. Set([c EXCEPT !.keyers[n][k] = key])
    BY <1>6 DEF SwitchKey, SwitchedKey
  <2>3. KeyFits(n, key)
    BY <1>1, <2>1, SwitchedFits DEF Loose
  <2> HIDE DEF key
  <2> QED BY <1>1, <2>1, <2>2, <2>3, KeySound, SetSounds
<1>7. ASSUME NEW k, NEW new \in Keyed, SetKey(n, k, new) PROVE SoundInv'
  <2> DEFINE key == KeySet(c, n, k, new)
  <2>1. k \in Keys(c, n) /\ n \in DOMAIN c.keyers /\ k \in DOMAIN c.keyers[n]
    BY <1>7 DEF SetKey, Keys
  <2>2. Set([c EXCEPT !.keyers[n][k] = key])
    BY <1>7 DEF SetKey
  <2>3. KeyFits(n, key)
    BY <1>1, <1>7, <2>1, KeySetFits DEF SetKey
  <2> HIDE DEF key
  <2> QED BY <1>1, <2>1, <2>2, <2>3, KeySound, SetSounds
<1> QED BY <1>3, <1>4, <1>5, <1>6, <1>7

\* The calls on snapshots.
LEMMA SnapshotSounds ==
  ASSUME SoundInv,
         \/ \E number, n, air : StoreSnapshot(number, n, air)
         \/ \E number \in Numbers : DeleteSnapshot(number)
         \/ \E number \in Numbers \cup {None} : SetStartup(number)
         \/ \E number \in Numbers, air \in BOOLEAN : RecallSnapshot(number, air)
  PROVE  SoundInv'
<1>1. Sound(console)
  BY DEF SoundInv
<1>2. ASSUME NEW number, NEW n, NEW air, StoreSnapshot(number, n, air) PROVE SoundInv'
  <2>1. PICK all, mes :
          Set([console EXCEPT !.snaps[number] = [all |-> all, air |-> air, mes |-> mes]])
    BY <1>2 DEF StoreSnapshot
  <2> QED BY <1>1, <2>1, StoreSound, SetSounds
<1>3. ASSUME NEW number, DeleteSnapshot(number) PROVE SoundInv'
  BY <1>1, <1>3, DeleteSound, SetSounds DEF DeleteSnapshot
<1>4. ASSUME NEW number \in Numbers \cup {None}, SetStartup(number) PROVE SoundInv'
  BY <1>1, <1>4, StartupSetSound, SetSounds DEF SetStartup
<1>5. ASSUME NEW number, NEW air, RecallSnapshot(number, air) PROVE SoundInv'
  BY <1>1, <1>5, RecalledSound, SetSounds DEF RecallSnapshot
<1> QED BY <1>2, <1>3, <1>4, <1>5

\* A start puts on ME 1's buses what it can take.
LEMMA StartSounds ==
  ASSUME SoundInv, NEW request, Start(request)
  PROVE  SoundInv'
<1> DEFINE b == StartBuses(console, request)
           d == OnPreview(OnProgram(console, 1, b.pgm), 1, b.pvw)
           ready == StartupRecalled(d)
<1>1. /\ state # "running" /\ console' = ready /\ asked' = "start" /\ crossed' = {}
      /\ changes < MaxChanges /\ changes' = changes + 1 /\ UNCHANGED <<state, engine, stopping>>
      /\ Takes(console, 1, b.pgm) /\ Takes(console, 1, b.pvw)
  BY DEF Start, Call
<1> HIDE DEF b
<1>2. Sound(d) /\ OnAir(d)
  BY <1>1, BusesOnAir DEF SoundInv
<1> HIDE DEF d
<1>3. Sound(ready) /\ OnAir(ready)
  BY <1>2, StartupSound
<1> HIDE DEF ready
<1>4. Sound(console)' /\ OnAir(console)'
  BY <1>1, <1>3
<1>5. changes' \in 0 .. MaxChanges
  BY <1>1, WorkspaceAssumption DEF SoundInv
<1> QED BY <1>1, <1>4, <1>5 DEF SoundInv

\* The end of a start, a stop and a restart.
LEMMA EndsSound ==
  ASSUME SoundInv, Started \/ Stop \/ StopEnds \/ Restart
  PROVE  SoundInv'
<1>1. CASE Started
  <2>1. console' = console
    BY <1>1 DEF Started
  <2>2. Sound(console)' /\ (OnAir(console) => OnAir(console)')
    BY <2>1 DEF SoundInv
  <2> QED BY <1>1, <2>2 DEF Started, SoundInv
<1>2. CASE Stop
  <2>1. console' = console /\ changes < MaxChanges /\ changes' = changes + 1
    BY <1>2 DEF Stop, Call
  <2>2. Sound(console)' /\ (OnAir(console) => OnAir(console)')
    BY <2>1 DEF SoundInv
  <2>3. changes' \in 0 .. MaxChanges
    BY <2>1, WorkspaceAssumption DEF SoundInv
  <2> QED BY <1>2, <2>2, <2>3 DEF Stop, SoundInv
<1>3. CASE StopEnds
  <2>1. console' = console
    BY <1>3 DEF StopEnds
  <2>2. Sound(console)' /\ (OnAir(console) => OnAir(console)')
    BY <2>1 DEF SoundInv
  <2> QED BY <1>3, <2>2 DEF StopEnds, SoundInv
<1>4. CASE Restart
  <2>1. Sound(Loaded(console))
    BY AgainSound DEF SoundInv
  <2>2. Sound(console)'
    BY <1>4, <2>1 DEF Restart
  <2> QED BY <1>4, <2>2 DEF Restart, SoundInv
<1> QED BY <1>1, <1>2, <1>3, <1>4

\* The first state.
LEMMA InitSound == Init => SoundInv
<1> SUFFICES ASSUME Init PROVE SoundInv
  OBVIOUS
<1>1. Sound(console)
  BY DefaultsSound DEF Init
<1> QED BY <1>1, WorkspaceAssumption DEF Init, SoundInv

\* Every step.
LEMMA StepSound == SoundInv /\ [Next]_vars => SoundInv'
<1> SUFFICES ASSUME SoundInv, [Next]_vars PROVE SoundInv'
  OBVIOUS
<1>1. CASE UNCHANGED vars
  <2>1. console' = console
    BY <1>1 DEF vars
  <2>2. Sound(console)' /\ (OnAir(console) => OnAir(console)')
    BY <2>1 DEF SoundInv
  <2> QED BY <1>1, <2>2 DEF vars, SoundInv
<1>2. CASE \/ \E n \in MeCounts, source \in Chosen : Take(n, source) \/ SetPreview(n, source)
           \/ \E n \in MeCounts : Cut(n)
           \/ \E n \in MeCounts, ties \in SUBSET (1 .. Max(KeyCounts)), bkgd \in BOOLEAN :
                UpdateTransition(n, ties, bkgd)
           \/ \E n \in MeCounts, k \in 1 .. Max(KeyCounts) :
                SwitchKey(n, k) \/ \E key \in Keyed : SetKey(n, k, key)
  BY <1>2, PanelSounds
<1>3. CASE \/ \E number \in Numbers, n \in {0} \cup MeCounts, air \in BOOLEAN :
                StoreSnapshot(number, n, air)
           \/ \E number \in Numbers : DeleteSnapshot(number) \/ SetStartup(number)
           \/ SetStartup(None)
           \/ \E number \in Numbers, air \in BOOLEAN : RecallSnapshot(number, air)
  BY <1>3, SnapshotSounds
<1>4. CASE \E request \in Requests : Start(request)
  BY <1>4, StartSounds
<1> QED BY <1>1, <1>2, <1>3, <1>4, StructureSounds, EndsSound DEF Next

-----------------------------------------------------------------------------
(* What the properties follow from *)

\* There are as many ids as inputs.
LEMMA IdsCount ==
  ASSUME NEW s, Listed(s)
  PROVE  Cardinality(IdsOf(s)) = Len(s)
<1> DEFINE t == [k \in DOMAIN s |-> s[k].id]
<1>1. Len(s) \in Nat /\ DOMAIN s = 1 .. Len(s) /\ ToSet(s) = {s[k] : k \in 1 .. Len(s)}
      /\ ToSet(s) \subseteq Inputs
  BY ListCount DEF Listed
<1>2. \A k \in DOMAIN s : s[k].id \in Idents
  BY <1>1, InputsAre
<1>3. t \in [1 .. Len(s) -> Idents]
  BY <1>1, <1>2
<1>4. t \in Seq(Idents) /\ DOMAIN t = 1 .. Len(s) /\ Len(t) = Len(s)
  BY <1>1, <1>3, SeqDef, LenProperties
<1>5. IsInjective(t)
  BY <1>1, ListedPlaces DEF IsInjective
<1>6. ToSet(t) = IdsOf(s)
  <2>1. ToSet(t) = {t[k] : k \in DOMAIN t}
    BY DEF ToSet
  <2> QED BY <1>1, <2>1 DEF IdsOf
<1> HIDE DEF t
<1> QED BY <1>4, <1>5, <1>6, CountElements

\* The properties of the console follow.
LEMMA SoundConsole ==
  ASSUME NoneApart, SoundInv
  PROVE  ConsoleInv
<1> DEFINE c == console
<1>1. Sound(c) /\ Loose(c)
  BY DEF SoundInv, Sound
<1>2. TypeOK
  <2>1. Cardinality(Ids(c)) = Len(c.inputs)
    BY <1>1, IdsCount DEF Ids, IdsOf, Loose
  <2> QED BY <2>1 DEF TypeOK, SoundInv, Sound
<1>3. NoRenderLoop
  <2> SUFFICES ASSUME NEW n \in DOMAIN c.panels, NEW m \in 1 .. n, Mes[m] \notin InputIds
               PROVE  Mes[m] \notin Named(c, n)
    BY DEF NoRenderLoop
  <2>1. n \in Nat /\ n <= Len(Mes)
    BY <1>1, MesAre DEF Loose, IsSeq
  <2>2. m \in 1 .. Len(Mes) /\ m <= n
    BY <2>1, MesAre
  <2>3. \A s : Higher(n, s) => s # Mes[m]
    BY <2>2 DEF Higher
  <2>4. Higher(n, c.panels[n].pgm) /\ Higher(n, c.panels[n].pvw)
    BY <1>1 DEF Sound, PanelFits
  <2>5. \A k \in Keys(c, n) : c.keyers[n][k].mode # "linear" => Higher(n, c.keyers[n][k].src)
    BY <1>1 DEF Loose, KeyFits, Keys
  <2> QED BY <2>3, <2>4, <2>5 DEF Named
<1>4. TiesHold
  BY <1>1 DEF TiesHold, Sound, PanelFits
<1>5. MirrorAgrees /\ OnAirKnown
  BY DEF MirrorAgrees, OnAirKnown, SoundInv, OnAir
<1>6. StartupExists
  BY <1>1 DEF StartupExists, Loose, Stored
<1> QED BY <1>2, <1>3, <1>4, <1>5, <1>6 DEF ConsoleInv

\* Ids are unique and slots numbered, no ME shows itself, ties name keyers that are
\* there, on air the mirror is ME 1's and its buses are sources that it takes, and
\* the start-up snapshot exists, whatever layouts, imports, recalls and restarts
\* came, and whatever ids clients give to inputs, when None is no snapshot.
THEOREM ConsoleHolds == NoneApart => (Spec => []ConsoleInv)
<1> SUFFICES ASSUME NoneApart PROVE Spec => []ConsoleInv
  OBVIOUS
<1>1. SoundInv => ConsoleInv
  BY SoundConsole
<1> QED BY <1>1, InitSound, StepSound, PTL DEF Spec

-----------------------------------------------------------------------------
(* A load, part by part *)

Buses1(c) == [pgm |-> c.panels[1].pgm, pvw |-> c.panels[1].pvw]

\* The console that a load makes a layout of.
Mirrored(c) == [c EXCEPT !.main = Buses1(c)]

\* Setting what is there changes nothing.
LEMMA BusesSame ==
  ASSUME NEW p, IsPanel(p)
  PROVE  WithBuses(p, p.pgm, p.pvw) = p
<1> DEFINE q == WithBuses(p, p.pgm, p.pvw)
<1>1. IsPanel(q) /\ q.pgm = p.pgm /\ q.pvw = p.pvw /\ q.ties = p.ties /\ q.bkgd = p.bkgd
  BY BusesSet
<1> HIDE DEF q
<1>2. q = p
  BY <1>1 DEF IsPanel
<1> QED BY <1>2 DEF q

\* Nor does keeping ties to keyers that are there.
LEMMA TiesSame ==
  ASSUME NEW p, IsPanel(p), NEW K, p.ties \subseteq K, p.bkgd \in BOOLEAN, p.bkgd \/ p.ties # {}
  PROVE  [p EXCEPT !.ties = @ \cap K, !.bkgd = @ \/ p.ties \cap K = {}] = p
<1> DEFINE ties == p.ties \cap K
           bkgd == p.bkgd \/ p.ties \cap K = {}
           q == [p EXCEPT !.ties = ties, !.bkgd = bkgd]
<1>1. ties = p.ties
  OBVIOUS
<1>2. bkgd = p.bkgd
  OBVIOUS
<1> HIDE DEF ties, bkgd
<1>3. q = p
  BY <1>1, <1>2 DEF IsPanel
<1> QED BY <1>3 DEF q, ties, bkgd

MirroredPanel(c, n) ==
  WithBuses(c.panels[n], Kept1(Mirrored(c), n, c.panels[n].pgm),
                         Kept1(Mirrored(c), n, c.panels[n].pvw))

\* A console with ME 1's buses mirrored.
LEMMA MirroredIs ==
  ASSUME NEW c, Sound(c)
  PROVE  LET d == Mirrored(c) IN
           /\ IsConsole(d) /\ d.inputs = c.inputs /\ d.count = c.count /\ d.mes = c.mes
           /\ d.keys = c.keys /\ d.keyers = c.keyers /\ d.main = Buses1(c)
           /\ d.snaps = c.snaps /\ d.startup = c.startup /\ d.panels = c.panels
           /\ Sound(d)
<1> DEFINE d == Mirrored(c)
<1>1. IsMain(Buses1(c))
  BY DEF IsMain, Buses1
<1>2. IsConsole(c)
  BY DEF Sound, Loose
<1>3. d = [c EXCEPT !.main = Buses1(c)]
  BY DEF Mirrored
<1>4. Sound(d)
  BY <1>1, <1>3, MainSound
<1> HIDE DEF d
<1>5. /\ IsConsole(d) /\ d.inputs = c.inputs /\ d.count = c.count /\ d.mes = c.mes
      /\ d.keys = c.keys /\ d.keyers = c.keyers /\ d.main = Buses1(c)
      /\ d.snaps = c.snaps /\ d.startup = c.startup /\ d.panels = c.panels
  BY <1>2, <1>3 DEF IsConsole, Fields
<1> QED BY <1>4, <1>5 DEF d

\* ME 1's mirror names what its buses do, so it changes none of them.
LEMMA LoadedFirst ==
  ASSUME NEW c, IsConsole(c), NEW s
  PROVE  Bus1(KeptMain(c, s), Kept1(c, 1, s)) = Kept1(c, 1, s)
<1> DEFINE i == [c EXCEPT !.inputs = Fitted(c)]
<1>1. CASE s \in IdsOf(Fitted(c))
  <2>1. i.inputs = Fitted(c)
    BY DEF IsConsole, Fields
  <2>2. Known(i, 1, s)
    BY <1>1, <2>1 DEF Known, Ids, IdsOf
  <2> QED BY <2>2 DEF Bus1, KeptMain, Kept1
<1>2. CASE s \notin IdsOf(Fitted(c))
  BY <1>2 DEF Bus1, KeptMain
<1> QED BY <1>1, <1>2

\* What a load of a sound console leaves: its inputs fitted, buses it does not know any
\* more let go, and all else as it was.
LEMMA LoadedIs ==
  ASSUME NEW c, Sound(c)
  PROVE  LET d == Loaded(c) IN
           /\ IsConsole(d) /\ d.inputs = Fitted(Mirrored(c)) /\ d.count = c.count /\ d.mes = c.mes
           /\ d.keys = c.keys /\ d.keyers = c.keyers
           /\ d.snaps = c.snaps /\ d.startup = c.startup
           /\ d.panels = [n \in DOMAIN c.panels |-> MirroredPanel(c, n)]
           /\ d.main = Buses1(d)
<1> DEFINE m == Mirrored(c)
           a == SyncSources(m)
           b == SyncPanels(a)
           s == SyncKeyers(b)
           d == Loaded(c)
           panels == [n \in DOMAIN c.panels |-> MirroredPanel(c, n)]
<1>1. d = [s EXCEPT !.main = Buses1(s)]
  BY DEF Loaded, Settled, Mirrored, Buses1
<1>2. /\ IsConsole(m) /\ m.inputs = c.inputs /\ m.count = c.count /\ m.mes = c.mes
      /\ m.keys = c.keys /\ m.keyers = c.keyers /\ m.main = Buses1(c)
      /\ m.snaps = c.snaps /\ m.startup = c.startup /\ m.panels = c.panels
      /\ Sound(m)
  BY MirroredIs
<1> DEFINE Panel(n) ==
             WithBuses(m.panels[n], Kept1(m, n, m.panels[n].pgm), Kept1(m, n, m.panels[n].pvw))
<1>3. /\ IsConsole(a) /\ a.inputs = Fitted(m) /\ a.count = m.count /\ a.mes = m.mes
      /\ a.keys = m.keys /\ a.keyers = m.keyers /\ a.snaps = m.snaps /\ a.startup = m.startup
      /\ a.main = [pgm |-> KeptMain(m, m.main.pgm), pvw |-> KeptMain(m, m.main.pvw)]
      /\ a.panels = [n \in DOMAIN m.panels |-> Panel(n)]
  BY <1>2, SourcesAre
<1>4. \A n : Panel(n) = MirroredPanel(c, n)
  BY <1>2 DEF MirroredPanel
<1>5. a.panels = panels
  BY <1>2, <1>3, <1>4
<1> HIDE DEF a, Panel
<1>6. 1 \in DOMAIN c.panels /\ DOMAIN c.panels = 1 .. c.mes /\ c.mes \in Nat \ {0} /\ IsSeq(c.panels)
      /\ Len(c.panels) = c.mes /\ Shape(c)
  BY SoundShape DEF Shape, Sound
<1>7. /\ IsConsole(b) /\ b.inputs = a.inputs /\ b.count = a.count /\ b.mes = a.mes
      /\ b.keys = a.keys /\ b.keyers = a.keyers /\ b.snaps = a.snaps /\ b.startup = a.startup
      /\ b.main = a.main
      /\ b.panels = [n \in 1 .. a.mes |-> IF n = 1 THEN FirstPanel(a) ELSE OldPanel(a, n)]
  BY <1>2, <1>3, <1>6, PanelsAre
<1> HIDE DEF b, m
<1>8. \A n \in DOMAIN c.panels : /\ IsPanel(panels[n])
                                 /\ panels[n].pgm = Kept1(m, n, c.panels[n].pgm)
                                 /\ panels[n].pvw = Kept1(m, n, c.panels[n].pvw)
                                 /\ panels[n].ties = c.panels[n].ties
                                 /\ panels[n].bkgd = c.panels[n].bkgd
  BY BusesSet DEF Sound, Loose, MirroredPanel, m
<1>9. \A n \in DOMAIN c.panels : OldPanel(a, n) = panels[n]
  BY <1>5 DEF OldPanel
<1>10. FirstPanel(a) = panels[1]
  <2>1. m.main.pgm = c.panels[1].pgm /\ m.main.pvw = c.panels[1].pvw
    BY <1>2 DEF Buses1
  <2>2. a.main.pgm = KeptMain(m, c.panels[1].pgm) /\ a.main.pvw = KeptMain(m, c.panels[1].pvw)
    BY <1>3, <2>1
  <2>3. Bus1(a.main.pgm, panels[1].pgm) = panels[1].pgm /\ Bus1(a.main.pvw, panels[1].pvw) = panels[1].pvw
    BY <1>2, <1>6, <1>8, <2>2, LoadedFirst
  <2>4. FirstPanel(a) = WithBuses(panels[1], panels[1].pgm, panels[1].pvw)
    BY <1>6, <1>9, <2>3 DEF FirstPanel
  <2> HIDE DEF panels
  <2> QED BY <1>6, <1>8, <2>4, BusesSame
<1>11. b.panels = panels
  <2> DEFINE P(n) == IF n = 1 THEN FirstPanel(a) ELSE OldPanel(a, n)
  <2>1. \A n \in DOMAIN c.panels : P(n) = panels[n]
    BY <1>9, <1>10
  <2>2. b.panels = [n \in DOMAIN c.panels |-> P(n)]
    BY <1>2, <1>3, <1>6, <1>7
  <2> HIDE DEF P
  <2>3. panels = [n \in DOMAIN c.panels |-> panels[n]]
    OBVIOUS
  <2> HIDE DEF panels
  <2> QED BY <2>1, <2>2, <2>3
<1>12. /\ IsConsole(s) /\ s.inputs = b.inputs /\ s.count = b.count /\ s.mes = b.mes
       /\ s.keys = b.keys /\ s.main = b.main /\ s.snaps = b.snaps /\ s.startup = b.startup
       /\ s.keyers = [n \in 1 .. Render(b) |-> [k \in 1 .. b.keys |-> OldKey(b, n, k)]]
       /\ s.panels = [n \in DOMAIN b.panels |->
            [b.panels[n] EXCEPT !.ties = @ \cap Keys(s, n),
                                !.bkgd = @ \/ b.panels[n].ties \cap Keys(s, n) = {}]]
  BY <1>7, KeyersAre
<1> HIDE DEF s
<1>13. Render(b) = Render(c)
  <2>1. panels = [n \in DOMAIN c.panels |-> panels[n]]
    OBVIOUS
  <2> HIDE DEF panels
  <2>2. Len(panels) = Len(c.panels)
    BY <1>6, <2>1, AsLong
  <2> QED BY <1>11, <2>2 DEF Render
<1>14. b.keys = c.keys /\ b.keyers = c.keyers
  BY <1>2, <1>3, <1>7
<1>15. s.keyers = c.keyers
  <2>1. DOMAIN c.keyers = 1 .. Render(c) /\ IsSeq(c.keyers)
    BY SoundShape DEF Sound
  <2>2. \A n \in 1 .. Render(c) : DOMAIN c.keyers[n] = 1 .. c.keys /\ IsSeq(c.keyers[n])
    BY <2>1 DEF Sound, IsSeq
  <2>3. \A n \in 1 .. Render(c) : \A k \in 1 .. c.keys : OldKey(b, n, k) = c.keyers[n][k]
    BY <1>14, <2>1, <2>2 DEF OldKey, Keys
  <2>4. \A n \in 1 .. Render(c) : [k \in 1 .. c.keys |-> OldKey(b, n, k)] = c.keyers[n]
    BY <2>2, <2>3 DEF IsSeq
  <2>5. c.keyers = [n \in 1 .. Render(c) |-> c.keyers[n]]
    BY <2>1 DEF IsSeq
  <2>6. s.keyers = [n \in 1 .. Render(c) |-> [k \in 1 .. c.keys |-> OldKey(b, n, k)]]
    BY <1>12, <1>13, <1>14
  <2> QED BY <2>4, <2>5, <2>6
<1>16. s.panels = panels
  <2>1. \A n : Keys(s, n) = Keys(c, n)
    BY <1>15 DEF Keys
  <2> DEFINE P(n) == [b.panels[n] EXCEPT !.ties = @ \cap Keys(s, n),
                                !.bkgd = @ \/ b.panels[n].ties \cap Keys(s, n) = {}]
  <2>2. s.panels = [n \in DOMAIN panels |-> P(n)]
    BY <1>11, <1>12
  <2>3. panels = [n \in DOMAIN c.panels |-> panels[n]]
    OBVIOUS
  <2> HIDE DEF panels
  <2>4. ASSUME NEW n \in DOMAIN c.panels PROVE P(n) = panels[n]
    <3> DEFINE p == panels[n]
               K == Keys(s, n)
    <3>1. PanelFits(c, n, c.panels[n])
      BY DEF Sound
    <3>2. IsPanel(p) /\ p.ties \subseteq K /\ p.bkgd \in BOOLEAN /\ (p.bkgd \/ p.ties # {})
      BY <1>8, <2>1, <3>1 DEF PanelFits
    <3>3. P(n) = [p EXCEPT !.ties = @ \cap K, !.bkgd = @ \/ p.ties \cap K = {}]
      BY <1>11
    <3> HIDE DEF p, K, P
    <3>4. [p EXCEPT !.ties = @ \cap K, !.bkgd = @ \/ p.ties \cap K = {}] = p
      BY <3>2, TiesSame
    <3> QED BY <3>3, <3>4 DEF p
  <2> HIDE DEF P
  <2> QED BY <2>2, <2>3, <2>4
<1> HIDE DEF panels, d
<1>17. /\ IsConsole(d) /\ d.inputs = s.inputs /\ d.count = s.count /\ d.mes = s.mes
       /\ d.keys = s.keys /\ d.keyers = s.keyers /\ d.snaps = s.snaps /\ d.startup = s.startup
       /\ d.panels = s.panels /\ d.main = Buses1(s)
  BY <1>1, <1>12 DEF IsConsole, Fields
<1>18. d.main = Buses1(d)
  BY <1>17 DEF Buses1
<1>19. d.inputs = Fitted(Mirrored(c))
  BY <1>3, <1>7, <1>12, <1>17 DEF m
<1>20. d.count = c.count /\ d.mes = c.mes /\ d.keys = c.keys /\ d.snaps = c.snaps /\ d.startup = c.startup
  BY <1>2, <1>3, <1>7, <1>12, <1>17
<1>21. d.panels = panels /\ d.keyers = c.keyers
  BY <1>15, <1>16, <1>17
<1> QED BY <1>17, <1>18, <1>19, <1>20, <1>21 DEF d, panels

-----------------------------------------------------------------------------
(* A second load *)

\* Inputs that are as many as the layout says stay, in their order.
LEMMA FittedSame ==
  ASSUME NEW c, Sound(c), Len(c.inputs) = c.count
  PROVE  Fitted(c) = c.inputs
BY FittedListed DEF Sound, Loose

\* What a load leaves, a load fits again to the same.
LEMMA FittedTwice ==
  ASSUME NEW c, Sound(c), NEW d, Sound(d), d.inputs = Fitted(c), d.count = c.count,
         c.main.pgm \in Ids(d) => d.main.pgm = c.main.pgm,
         c.main.pvw \in Ids(d) => d.main.pvw = c.main.pvw
  PROVE  Fitted(d) = d.inputs
<1>1. /\ Listed(c.inputs) /\ Listed(d.inputs) /\ c.count \in Counts
      /\ Renumbered(d.inputs) = d.inputs
  BY DEF Sound, Loose
<1>2. \/ Len(d.inputs) = d.count
      \/ /\ Len(d.inputs) > d.count
         /\ \A i \in ToSet(d.inputs) : i.kind = "black" \/ i.id \in {c.main.pgm, c.main.pvw}
  BY <1>1, FittedListed
<1>3. CASE Len(d.inputs) = d.count
  BY <1>3, FittedSame
<1>4. CASE /\ Len(d.inputs) > d.count
           /\ \A i \in ToSet(d.inputs) : i.kind = "black" \/ i.id \in {c.main.pgm, c.main.pvw}
  <2>1. \A i \in ToSet(d.inputs) : i.id \in Ids(d)
    BY DEF Ids
  <2>2. \A i \in ToSet(d.inputs) : i.kind = "black" \/ i.id \in {d.main.pgm, d.main.pvw}
    BY <1>4, <2>1
  <2>3. d.count \in Nat /\ Len(d.inputs) \in Nat
    BY <1>1, WorkspaceAssumption, ListCount DEF Listed
  <2>4. Surplus(d) = {}
    BY <1>1, <1>4, <2>2, <2>3, SurplusIs
  <2>5. Trimmed(d) = d.inputs
    <3>1. Trimmed(d) = Those(d.inputs, ToSet(d.inputs) \ Surplus(d))
      BY <1>4, <2>3 DEF Trimmed
    <3>2. ToSet(d.inputs) \ Surplus(d) = ToSet(d.inputs)
      BY <2>4
    <3> QED BY <1>1, <3>1, <3>2, ListThoseAll DEF Listed
  <2>6. Grown(d.inputs, d.count) = d.inputs
    BY <1>1, <1>4, <2>3, GrownEnough DEF Listed
  <2> QED BY <1>1, <2>5, <2>6 DEF Fitted
<1> QED BY <1>2, <1>3, <1>4

\* Fields of consoles that are the same make the same console.
LEMMA SameConsole ==
  ASSUME NEW c, NEW d, IsConsole(c), IsConsole(d), d.inputs = c.inputs, d.count = c.count,
         d.mes = c.mes, d.keys = c.keys, d.keyers = c.keyers, d.snaps = c.snaps,
         d.startup = c.startup, d.panels = c.panels, d.main = c.main
  PROVE  d = c
BY DEF IsConsole, Fields

\* A source that is known is kept.
LEMMA KeptSame ==
  ASSUME NEW c, IsConsole(c), Fitted(c) = c.inputs, NEW n, NEW s, Known(c, n, s)
  PROVE  Kept1(c, n, s) = s
<1> DEFINE i == [c EXCEPT !.inputs = Fitted(c)]
<1>1. i.inputs = c.inputs /\ i.panels = c.panels
  BY DEF IsConsole, Fields
<1> HIDE DEF i
<1>2. Known(i, n, s)
  BY <1>1, KnownSame
<1> QED BY <1>2 DEF Kept1, i

\* What a load keeps on a bus the console knows.
LEMMA KeptKnown ==
  ASSUME NEW c, IsConsole(c), NEW d, d.inputs = Fitted(c), Len(d.panels) = Len(c.panels),
         NEW n, NEW s
  PROVE  /\ Known(d, n, s) => Kept1(c, n, s) = s
         /\ ~Known(d, n, s) => Kept1(c, n, s) = None
         /\ Known(d, n, Kept1(c, n, s))
<1> DEFINE i == [c EXCEPT !.inputs = Fitted(c)]
<1>1. i.inputs = d.inputs /\ i.panels = c.panels
  BY DEF IsConsole, Fields
<1>2. Kept1(c, n, s) = IF Known(i, n, s) THEN s ELSE None
  BY DEF Kept1
<1> HIDE DEF i
<1>3. \A x : Known(i, n, x) <=> Known(d, n, x)
  BY <1>1, KnownSame
<1>4. Known(d, n, None)
  BY DEF Known
<1> QED BY <1>2, <1>3, <1>4

\* A load of what is known changes nothing.
LEMMA LoadedSame ==
  ASSUME NEW d, Sound(d), d.main = Buses1(d), Fitted(d) = d.inputs,
         \A n \in DOMAIN d.panels : Known(d, n, d.panels[n].pgm) /\ Known(d, n, d.panels[n].pvw)
  PROVE  Loaded(d) = d
<1> DEFINE l == Loaded(d)
<1>1. IsConsole(d) /\ IsSeq(d.panels)
  BY DEF Sound, Loose
<1>2. Mirrored(d) = d
  BY <1>1 DEF Mirrored, IsConsole, Fields
<1>3. /\ IsConsole(l) /\ l.inputs = Fitted(Mirrored(d)) /\ l.count = d.count /\ l.mes = d.mes
      /\ l.keys = d.keys /\ l.keyers = d.keyers /\ l.snaps = d.snaps /\ l.startup = d.startup
      /\ l.panels = [n \in DOMAIN d.panels |-> MirroredPanel(d, n)]
      /\ l.main = Buses1(l)
  BY LoadedIs
<1> HIDE DEF l
<1>4. l.inputs = d.inputs
  BY <1>2, <1>3
<1>5. ASSUME NEW n \in DOMAIN d.panels PROVE MirroredPanel(d, n) = d.panels[n]
  <2> DEFINE p == d.panels[n]
  <2>1. Kept1(d, n, p.pgm) = p.pgm /\ Kept1(d, n, p.pvw) = p.pvw
    BY <1>1, KeptSame
  <2>2. MirroredPanel(d, n) = WithBuses(p, p.pgm, p.pvw)
    BY <1>2, <2>1 DEF MirroredPanel
  <2>3. IsPanel(p)
    BY DEF Sound, Loose
  <2> HIDE DEF p
  <2>4. MirroredPanel(d, n) = p
    BY <2>2, <2>3, BusesSame
  <2> QED BY <2>4 DEF p
<1>6. l.panels = d.panels
  <2>1. d.panels = [n \in DOMAIN d.panels |-> d.panels[n]]
    BY <1>1 DEF IsSeq
  <2> QED BY <1>3, <1>5, <2>1
<1>7. l.main = d.main
  BY <1>3, <1>6 DEF Buses1
<1>8. l = d
  BY <1>1, <1>3, <1>4, <1>6, <1>7, SameConsole
<1> QED BY <1>8 DEF l

\* A second load changes nothing more.
LEMMA LoadedTwice ==
  ASSUME NEW c, Sound(c)
  PROVE  Loaded(Loaded(c)) = Loaded(c)
<1> DEFINE m == Mirrored(c)
           d == Loaded(c)
<1>1. /\ IsConsole(d) /\ d.inputs = Fitted(m) /\ d.count = c.count /\ d.mes = c.mes
      /\ d.keys = c.keys /\ d.keyers = c.keyers /\ d.snaps = c.snaps /\ d.startup = c.startup
      /\ d.panels = [n \in DOMAIN c.panels |-> MirroredPanel(c, n)]
      /\ d.main = Buses1(d)
  BY LoadedIs
<1>2. /\ IsConsole(m) /\ m.count = c.count /\ m.main = Buses1(c) /\ m.panels = c.panels /\ Sound(m)
  BY MirroredIs
<1>3. Sound(d)
  BY AgainSound
<1>4. 1 \in DOMAIN c.panels /\ IsSeq(c.panels)
  BY SoundShape DEF Shape
<1> HIDE DEF m, d
<1>5. Len(d.panels) = Len(m.panels) /\ DOMAIN d.panels = DOMAIN c.panels
  BY <1>1, <1>2, <1>4, AsLong
<1>6. \A n \in DOMAIN c.panels : /\ d.panels[n].pgm = Kept1(m, n, c.panels[n].pgm)
                                 /\ d.panels[n].pvw = Kept1(m, n, c.panels[n].pvw)
  <2>1. \A n \in DOMAIN c.panels : /\ MirroredPanel(c, n).pgm = Kept1(m, n, c.panels[n].pgm)
                                   /\ MirroredPanel(c, n).pvw = Kept1(m, n, c.panels[n].pvw)
    BY BusesSet DEF Sound, Loose, MirroredPanel, m
  <2> QED BY <1>1, <2>1
<1>7. \A n \in DOMAIN d.panels : Known(d, n, d.panels[n].pgm) /\ Known(d, n, d.panels[n].pvw)
  <2>1. \A n, s : Known(d, n, Kept1(m, n, s))
    BY <1>1, <1>2, <1>5, KeptKnown
  <2> QED BY <1>5, <1>6, <2>1
<1>8. d.main.pgm = Kept1(m, 1, m.main.pgm) /\ d.main.pvw = Kept1(m, 1, m.main.pvw)
  BY <1>1, <1>2, <1>4, <1>6 DEF Buses1
<1>9. \A s : s \in Ids(d) => Kept1(m, 1, s) = s
  BY <1>1, <1>2, <1>5, KeptKnown DEF Known
<1>10. Fitted(d) = d.inputs
  BY <1>1, <1>2, <1>3, <1>8, <1>9, FittedTwice
<1>11. Loaded(d) = d
  BY <1>1, <1>3, <1>7, <1>10, LoadedSame
<1> QED BY <1>11 DEF d

\* A restart keeps the buses that it still knows, the keyers and the snapshots, and
\* inputs that are as many as the layout says.
LEMMA LoadedKeeps ==
  ASSUME NEW c, Sound(c)
  PROVE  LET d == Loaded(c) IN
           /\ \A n \in DOMAIN c.panels, bus \in {"pgm", "pvw"} :
                Known(d, n, c.panels[n][bus]) => d.panels[n][bus] = c.panels[n][bus]
           /\ d.keyers = c.keyers /\ d.snaps = c.snaps
           /\ Len(c.inputs) = c.count => d.inputs = c.inputs
<1> DEFINE m == Mirrored(c)
           d == Loaded(c)
<1>1. /\ IsConsole(d) /\ d.inputs = Fitted(m) /\ d.keyers = c.keyers /\ d.snaps = c.snaps
      /\ d.panels = [n \in DOMAIN c.panels |-> MirroredPanel(c, n)]
  BY LoadedIs
<1>2. /\ IsConsole(m) /\ m.inputs = c.inputs /\ m.count = c.count /\ m.panels = c.panels /\ Sound(m)
  BY MirroredIs
<1>3. IsSeq(c.panels)
  BY DEF Sound, Loose
<1> HIDE DEF m, d
<1>4. Len(d.panels) = Len(m.panels) /\ DOMAIN d.panels = DOMAIN c.panels
  BY <1>1, <1>2, <1>3, AsLong
<1>5. \A n \in DOMAIN c.panels : /\ MirroredPanel(c, n).pgm = Kept1(m, n, c.panels[n].pgm)
                                 /\ MirroredPanel(c, n).pvw = Kept1(m, n, c.panels[n].pvw)
  BY BusesSet DEF Sound, Loose, MirroredPanel, m
<1>6. ASSUME NEW n \in DOMAIN c.panels
      PROVE  /\ Known(d, n, c.panels[n].pgm) => d.panels[n].pgm = c.panels[n].pgm
             /\ Known(d, n, c.panels[n].pvw) => d.panels[n].pvw = c.panels[n].pvw
  <2>1. /\ d.panels[n].pgm = Kept1(m, n, c.panels[n].pgm)
        /\ d.panels[n].pvw = Kept1(m, n, c.panels[n].pvw)
    BY <1>1, <1>5
  <2> QED BY <1>1, <1>2, <1>4, <2>1, KeptKnown
<1>7. ASSUME NEW n \in DOMAIN c.panels, NEW bus \in {"pgm", "pvw"}, Known(d, n, c.panels[n][bus])
      PROVE  d.panels[n][bus] = c.panels[n][bus]
  <2>1. CASE bus = "pgm"
    BY <1>6, <1>7, <2>1
  <2>2. CASE bus = "pvw"
    BY <1>6, <1>7, <2>2
  <2> QED BY <2>1, <2>2
<1>8. Len(c.inputs) = c.count => d.inputs = c.inputs
  BY <1>1, <1>2, FittedSame
<1> QED BY <1>1, <1>7, <1>8 DEF d

-----------------------------------------------------------------------------
(* Recalls *)

\* What a recall leaves is known alike, and has the keyers that there were.
LEMMA RecalledKnows ==
  ASSUME NEW c, Sound(c), NEW snap, NEW air
  PROVE  LET d == Recalled(c, snap, air) IN
           /\ Sound(d)
           /\ \A n, s : Known(d, n, s) <=> Known(c, n, s)
           /\ \A n : Keys(d, n) = Keys(c, n)
           /\ DOMAIN d.panels = DOMAIN c.panels /\ DOMAIN d.keyers = DOMAIN c.keyers
           /\ \A n \in DOMAIN c.keyers : DOMAIN d.keyers[n] = DOMAIN c.keyers[n]
<1> DEFINE d == Recalled(c, snap, air)
<1>1. Alike(c, d) /\ Sound(d)
  BY RecalledSound
<1> HIDE DEF d
<1>2. DOMAIN d.panels = DOMAIN c.panels /\ DOMAIN d.keyers = DOMAIN c.keyers
  BY <1>1 DEF Alike
<1>3. \A n \in DOMAIN c.keyers : DOMAIN d.keyers[n] = DOMAIN c.keyers[n]
  BY <1>1 DEF Alike
<1>4. \A n : Keys(d, n) = Keys(c, n)
  BY <1>2, <1>3 DEF Keys
<1>5. d.inputs = c.inputs /\ Len(d.panels) = Len(c.panels)
  BY <1>1, AsLong DEF Alike, Sound, Loose
<1>6. \A n, s : Known(d, n, s) <=> Known(c, n, s)
  BY <1>5, KnownSame
<1> QED BY <1>1, <1>2, <1>3, <1>4, <1>6 DEF d

\* Panels, keyers and mirror of a recall that are those there were.
LEMMA RecalledSame ==
  ASSUME NEW c, Sound(c), NEW snap, NEW air,
         \A n \in DOMAIN c.panels : RecPanel(c, snap, air, n) = c.panels[n],
         \A n \in DOMAIN c.keyers : \A k \in DOMAIN c.keyers[n] :
           RecKey(c, snap, air, n, k) = c.keyers[n][k]
  PROVE  Recalled(c, snap, air) = c
<1> DEFINE d == Recalled(c, snap, air)
<1>1. /\ d.panels = [n \in DOMAIN c.panels |-> RecPanel(c, snap, air, n)]
      /\ d.keyers = [n \in DOMAIN c.keyers |->
                       [k \in DOMAIN c.keyers[n] |-> RecKey(c, snap, air, n, k)]]
      /\ d.main = [pgm |-> RecMain(d.panels[1].pgm, c.panels[1].pgm, c.main.pgm),
                   pvw |-> RecMain(d.panels[1].pvw, c.panels[1].pvw, c.main.pvw)]
      /\ d.inputs = c.inputs /\ d.count = c.count /\ d.mes = c.mes /\ d.keys = c.keys
      /\ d.snaps = c.snaps /\ d.startup = c.startup /\ IsConsole(d)
  BY RecalledIs
<1> HIDE DEF d
<1>2. /\ IsConsole(c) /\ IsMain(c.main) /\ IsSeq(c.panels) /\ IsSeq(c.keyers)
      /\ \A n \in DOMAIN c.keyers : IsSeq(c.keyers[n])
  BY DEF Sound, Loose
<1>3. d.panels = c.panels
  <2>1. c.panels = [n \in DOMAIN c.panels |-> c.panels[n]]
    BY <1>2 DEF IsSeq
  <2> QED BY <1>1, <2>1
<1>4. d.keyers = c.keyers
  <2>1. c.keyers = [n \in DOMAIN c.keyers |-> c.keyers[n]]
    BY <1>2 DEF IsSeq
  <2>2. \A n \in DOMAIN c.keyers : c.keyers[n] = [k \in DOMAIN c.keyers[n] |-> c.keyers[n][k]]
    BY <1>2 DEF IsSeq
  <2>3. \A n \in DOMAIN c.keyers :
          [k \in DOMAIN c.keyers[n] |-> RecKey(c, snap, air, n, k)] = c.keyers[n]
    BY <2>2
  <2> QED BY <1>1, <2>1, <2>3
<1>5. d.main = c.main
  BY <1>1, <1>2, <1>3 DEF RecMain, IsMain
<1>6. d = c
  BY <1>1, <1>2, <1>3, <1>4, <1>5, SameConsole
<1> QED BY <1>6 DEF d

\* (The provers look into TRUE when they see it.)
IsTrue(b) == b = TRUE

Now(c) == [all |-> TRUE, air |-> TRUE, mes |-> [n \in DOMAIN c.panels |-> Captured(c, n)]]

\* Recalling what is there changes nothing.
LEMMA NowSame ==
  ASSUME NEW c, Sound(c), NEW air, IsTrue(air)
  PROVE  Recalled(c, Now(c), air) = c
<1>1. DOMAIN Now(c).mes = DOMAIN c.panels
      /\ \A n \in DOMAIN c.panels : Now(c).mes[n] = Captured(c, n)
  BY DEF Now
<1>2. ASSUME NEW n \in DOMAIN c.panels PROVE RecPanel(c, Now(c), air, n) = c.panels[n]
  <2> DEFINE p == c.panels[n]
             b == BusRecalled(c, n, p, air)
  <2>1. RecPanel(c, Now(c), air, n) = b
    <3>1. Captured(c, n).bus = p
      BY DEF Captured
    <3> HIDE DEF p
    <3> QED BY <1>1, <3>1 DEF RecPanel
  <2>2. PanelFits(c, n, p)
    BY DEF Sound
  <2>3. /\ b = [pgm |-> b.pgm, pvw |-> b.pvw, ties |-> b.ties, bkgd |-> b.bkgd]
        /\ b.pgm = Fit(c, n, p.pgm, p.pgm) /\ b.pvw = Fit(c, n, p.pvw, p.pvw)
        /\ b.ties = p.ties \cap Keys(c, n) /\ b.bkgd = (p.bkgd \/ p.ties \cap Keys(c, n) = {})
    BY DEF IsTrue, BusRecalled, TransitionRecalled
  <2> HIDE DEF b, p
  <2>4. b.pgm = p.pgm /\ b.pvw = p.pvw
    BY <2>3 DEF Fit
  <2>5. b.ties = p.ties
    BY <2>2, <2>3 DEF PanelFits
  <2>6. b.bkgd = p.bkgd
    BY <2>2, <2>3, <2>5 DEF PanelFits
  <2>7. b = p
    BY <2>2, <2>3, <2>4, <2>5, <2>6 DEF PanelFits, IsPanel
  <2> QED BY <2>1, <2>7 DEF p
<1>3. ASSUME NEW n \in DOMAIN c.keyers, NEW k \in DOMAIN c.keyers[n]
      PROVE  RecKey(c, Now(c), air, n, k) = c.keyers[n][k]
  <2> DEFINE key == c.keyers[n][k]
             new == KeySet(c, n, k, key)
             set == IF (key.on /\ ~air) \/ ~KeyTaken(c, n, new) THEN key ELSE new
  <2>1. IsKey(key)
    BY DEF Sound, Loose, KeyFits
  <2>2. KeyRecalled(c, n, k, key, air) = [set EXCEPT !.on = key.on]
    BY DEF IsTrue, KeyRecalled
  <2>3. new = key
    <3>1. new = [key EXCEPT !.mode = key.mode, !.src = IF key.src = None THEN @ ELSE key.src]
      BY DEF KeySet
    <3> HIDE DEF new, key
    <3> QED BY <2>1, <3>1 DEF IsKey
  <2>4. set = key
    BY <2>3
  <2> HIDE DEF set
  <2>5. KeyRecalled(c, n, k, key, air) = key
    BY <2>1, <2>2, <2>4 DEF IsKey
  <2>6. n \in DOMAIN c.panels => Now(c).mes[n].keys = c.keyers[n]
    <3>1. Captured(c, n).keys = c.keyers[n]
      BY DEF Captured
    <3> QED BY <1>1, <3>1
  <2> QED BY <1>1, <2>5, <2>6 DEF RecKey
<1> QED BY <1>2, <1>3, RecalledSame

\* A key recalled, by what it is and what it takes.
LEMMA KeyRecalledIs ==
  ASSUME NEW c, Sound(c), NEW n \in DOMAIN c.keyers, NEW k \in DOMAIN c.keyers[n],
         NEW stored, NEW air, IsTrue(air)
  PROVE  LET now == c.keyers[n][k]
             key == KeyRecalled(c, n, k, stored, air)
             src == IF stored.src = None THEN now.src ELSE stored.src
             taken == stored.mode = "linear" \/ Takes(c, n, src)
         IN IsKey(key) /\ key.on = stored.on
            /\ key.mode = (IF taken THEN stored.mode ELSE now.mode)
            /\ key.src = (IF taken THEN src ELSE now.src)
<1> DEFINE now == c.keyers[n][k]
           new == KeySet(c, n, k, stored)
           src == IF stored.src = None THEN now.src ELSE stored.src
           taken == stored.mode = "linear" \/ Takes(c, n, src)
           set == IF taken THEN new ELSE now
           key == KeyRecalled(c, n, k, stored, air)
<1>1. IsKey(now)
  BY DEF Sound, Loose, KeyFits
<1>2. IsKey(new) /\ new.mode = stored.mode /\ new.src = src
  <2>1. new = [now EXCEPT !.mode = stored.mode, !.src = src]
    BY DEF KeySet
  <2> HIDE DEF now, src, new
  <2> QED BY <1>1, <2>1 DEF IsKey
<1>3. KeyTaken(c, n, new) <=> taken
  BY <1>2 DEF KeyTaken
<1>4. key = WithOn(set, stored.on)
  BY <1>3 DEF IsTrue, KeyRecalled, WithOn
<1> HIDE DEF now, new, src, taken, key
<1>5. IsKey(set) /\ set.mode = (IF taken THEN stored.mode ELSE now.mode)
                 /\ set.src = (IF taken THEN src ELSE now.src)
  BY <1>1, <1>2
<1> HIDE DEF set
<1>6. IsKey(key) /\ key.on = stored.on /\ key.mode = set.mode /\ key.src = set.src
  BY <1>4, <1>5 DEF WithOn, IsKey
<1> QED BY <1>5, <1>6 DEF key, now, src, taken

\* A key recalled again is the same key.
LEMMA KeyTwice ==
  ASSUME NEW c, Sound(c), NEW d, Sound(d), NEW n \in DOMAIN c.keyers, NEW k \in DOMAIN c.keyers[n],
         n \in DOMAIN d.keyers, k \in DOMAIN d.keyers[n], \A s : Takes(d, n, s) <=> Takes(c, n, s),
         NEW air, IsTrue(air), NEW stored, d.keyers[n][k] = KeyRecalled(c, n, k, stored, air)
  PROVE  KeyRecalled(d, n, k, stored, air) = d.keyers[n][k]
<1> DEFINE now == c.keyers[n][k]
           key == d.keyers[n][k]
           again == KeyRecalled(d, n, k, stored, air)
           src == IF stored.src = None THEN now.src ELSE stored.src
           src2 == IF stored.src = None THEN key.src ELSE stored.src
           taken == stored.mode = "linear" \/ Takes(c, n, src)
           taken2 == stored.mode = "linear" \/ Takes(d, n, src2)
<1>1. /\ IsKey(key) /\ key.on = stored.on
      /\ key.mode = (IF taken THEN stored.mode ELSE now.mode)
      /\ key.src = (IF taken THEN src ELSE now.src)
  BY KeyRecalledIs
<1>2. /\ IsKey(again) /\ again.on = stored.on
      /\ again.mode = (IF taken2 THEN stored.mode ELSE key.mode)
      /\ again.src = (IF taken2 THEN src2 ELSE key.src)
  BY KeyRecalledIs
<1> HIDE DEF key, now, again
<1>3. src2 = src
  BY <1>1
<1>4. taken2 <=> taken
  BY <1>3
<1> HIDE DEF src, src2, taken, taken2
<1>5. again.mode = key.mode /\ again.src = key.src /\ again.on = key.on
  BY <1>1, <1>2, <1>3, <1>4
<1>6. again = key
  BY <1>1, <1>2, <1>5 DEF IsKey
<1> QED BY <1>6 DEF again, key

\* A panel recalled again is the same panel.
LEMMA BusTwice ==
  ASSUME NEW c, NEW d, NEW n, NEW air, IsTrue(air), NEW stored,
         d.panels[n] = BusRecalled(c, n, stored, air),
         Keys(d, n) = Keys(c, n), \A s : Known(d, n, s) <=> Known(c, n, s)
  PROVE  BusRecalled(d, n, stored, air) = d.panels[n]
<1> DEFINE b == BusRecalled(c, n, stored, air)
           e == BusRecalled(d, n, stored, air)
<1>1. /\ b = [pgm |-> b.pgm, pvw |-> b.pvw, ties |-> b.ties, bkgd |-> b.bkgd]
      /\ b.pgm = Fit(c, n, stored.pgm, c.panels[n].pgm)
      /\ b.pvw = Fit(c, n, stored.pvw, c.panels[n].pvw)
      /\ b.ties = stored.ties \cap Keys(c, n)
      /\ b.bkgd = (stored.bkgd \/ stored.ties \cap Keys(c, n) = {})
  BY DEF IsTrue, BusRecalled, TransitionRecalled
<1>2. /\ e = [pgm |-> e.pgm, pvw |-> e.pvw, ties |-> e.ties, bkgd |-> e.bkgd]
      /\ e.pgm = Fit(d, n, stored.pgm, b.pgm)
      /\ e.pvw = Fit(d, n, stored.pvw, b.pvw)
      /\ e.ties = stored.ties \cap Keys(c, n)
      /\ e.bkgd = (stored.bkgd \/ stored.ties \cap Keys(c, n) = {})
  BY DEF IsTrue, BusRecalled, TransitionRecalled
<1> HIDE DEF b, e
<1>3. \A s, now : Fit(d, n, s, Fit(c, n, s, now)) = Fit(c, n, s, now)
  BY DEF Fit
<1>4. e.pgm = b.pgm /\ e.pvw = b.pvw
  BY <1>1, <1>2, <1>3
<1>5. e = b
  BY <1>1, <1>2, <1>4
<1> QED BY <1>5 DEF b, e

\* Recalling a snapshot twice is recalling it once.
LEMMA RecalledTwice ==
  ASSUME NEW c, Sound(c), NEW snap, NEW air, IsTrue(air)
  PROVE  LET d == Recalled(c, snap, air) IN Recalled(d, snap, air) = d
<1> DEFINE d == Recalled(c, snap, air)
<1>1. /\ d.panels = [n \in DOMAIN c.panels |-> RecPanel(c, snap, air, n)]
      /\ d.keyers = [n \in DOMAIN c.keyers |->
                       [k \in DOMAIN c.keyers[n] |-> RecKey(c, snap, air, n, k)]]
      /\ d.main = [pgm |-> RecMain(d.panels[1].pgm, c.panels[1].pgm, c.main.pgm),
                   pvw |-> RecMain(d.panels[1].pvw, c.panels[1].pvw, c.main.pvw)]
  BY RecalledIs
<1>2. /\ Sound(d)
      /\ \A n, s : Known(d, n, s) <=> Known(c, n, s)
      /\ \A n : Keys(d, n) = Keys(c, n)
      /\ DOMAIN d.panels = DOMAIN c.panels /\ DOMAIN d.keyers = DOMAIN c.keyers
      /\ \A n \in DOMAIN c.keyers : DOMAIN d.keyers[n] = DOMAIN c.keyers[n]
  BY RecalledKnows
<1> HIDE DEF d
<1>3. ASSUME NEW n \in DOMAIN d.panels PROVE RecPanel(d, snap, air, n) = d.panels[n]
  <2>1. d.panels[n] = RecPanel(c, snap, air, n)
    BY <1>1, <1>2
  <2>2. CASE n \in DOMAIN snap.mes
    BY <1>2, <2>1, <2>2, BusTwice DEF RecPanel
  <2>3. CASE n \notin DOMAIN snap.mes
    BY <2>3 DEF RecPanel
  <2> QED BY <2>2, <2>3
<1>4. ASSUME NEW n \in DOMAIN d.keyers, NEW k \in DOMAIN d.keyers[n]
      PROVE  RecKey(d, snap, air, n, k) = d.keyers[n][k]
  <2>1. d.keyers[n][k] = RecKey(c, snap, air, n, k)
    BY <1>1, <1>2
  <2>2. \A s : Takes(d, n, s) <=> Takes(c, n, s)
    BY <1>2 DEF Takes
  <2>3. CASE n \in DOMAIN snap.mes /\ k \in DOMAIN snap.mes[n].keys
    BY <1>2, <2>1, <2>2, <2>3, KeyTwice DEF RecKey
  <2>4. CASE ~(n \in DOMAIN snap.mes /\ k \in DOMAIN snap.mes[n].keys)
    BY <2>4 DEF RecKey
  <2> QED BY <2>3, <2>4
<1>5. Recalled(d, snap, air) = d
  BY <1>2, <1>3, <1>4, RecalledSame
<1> QED BY <1>5 DEF d

\* Loads and recalls have a fixed point.
LEMMA SoundSettles == SoundInv => Settles
<1> SUFFICES ASSUME SoundInv PROVE Settles
  OBVIOUS
<1>1. Sound(console)
  BY DEF SoundInv
<1>2. RestartSettles
  BY <1>1, LoadedTwice DEF RestartSettles
<1>3. RecallSettles
  <2> DEFINE on == TRUE
             now == Now(console)
  <2>1. IsTrue(on)
    BY DEF IsTrue
  <2> HIDE DEF on, now
  <2>2. Recalled(console, now, on) = console
    BY <1>1, <2>1, NowSame DEF now
  <2>3. \A snap : LET once == Recalled(console, snap, on) IN Recalled(once, snap, on) = once
    BY <1>1, <2>1, RecalledTwice
  <2>4. \A number : LET snap == console.snaps[number]
                        once == Recalled(console, snap, on)
                    IN Recalled(once, snap, on) = once
    BY <2>3
  <2> QED BY <2>2, <2>4 DEF RecallSettles, Now, on, now
<1> QED BY <1>2, <1>3 DEF Settles

\* A second restart changes nothing more, recalling what was just stored changes
\* nothing, and recalling a snapshot twice is recalling it once.
THEOREM LoadsSettle == Spec => []Settles
BY SoundSettles, InitSound, StepSound, PTL DEF Spec

-----------------------------------------------------------------------------
(* What recalls and restarts leave alone *)

IsFalse(b) == b = FALSE

\* Without Program/on-air a recall leaves the keys that are on as they are, and the
\* others off.
LEMMA KeyOff ==
  ASSUME NEW c, Sound(c), NEW n \in DOMAIN c.keyers, NEW k \in DOMAIN c.keyers[n],
         NEW stored, NEW air, IsFalse(air)
  PROVE  LET now == c.keyers[n][k]
             key == KeyRecalled(c, n, k, stored, air)
         IN (key.on <=> now.on) /\ (now.on => key = now)
<1> DEFINE now == c.keyers[n][k]
           new == KeySet(c, n, k, stored)
           key == KeyRecalled(c, n, k, stored, air)
<1>1. IsKey(now)
  BY DEF Sound, Loose, KeyFits
<1>2. new.on = now.on
  <2> DEFINE src == IF stored.src = None THEN now.src ELSE stored.src
  <2>1. new = [now EXCEPT !.mode = stored.mode, !.src = src]
    BY DEF KeySet
  <2> HIDE DEF now, src, new
  <2> QED BY <1>1, <2>1 DEF IsKey
<1>3. key = IF now.on \/ ~KeyTaken(c, n, new) THEN now ELSE new
  BY DEF IsFalse, KeyRecalled
<1> HIDE DEF now, new, key
<1> QED BY <1>2, <1>3 DEF now, key

\* Without Program/on-air a recall leaves Program.
LEMMA BusOff ==
  ASSUME NEW c, NEW n, NEW stored, NEW air, IsFalse(air)
  PROVE  BusRecalled(c, n, stored, air).pgm = c.panels[n].pgm
BY DEF IsFalse, BusRecalled

\* What an ME shows, by its keys and its Program.
LEMMA ShowsSame ==
  ASSUME NEW c, NEW d, NEW n, Keys(d, n) = Keys(c, n), d.panels[n].pgm = c.panels[n].pgm,
         \A k \in Keys(c, n) : /\ d.keyers[n][k].on <=> c.keyers[n][k].on
                               /\ c.keyers[n][k].on => d.keyers[n][k] = c.keyers[n][k]
  PROVE  Shows(d, n) = Shows(c, n)
<1> DEFINE on(x) == {k \in Keys(x, n) : x.keyers[n][k].on}
           covers(x) == {k \in on(x) : x.keyers[n][k].mode = "pip"}
           seen(x) == {k \in on(x) : x.keyers[n][k].mode # "linear" /\ \A j \in covers(x) : k >= j}
           keyed(x) == {x.keyers[n][k].src : k \in seen(x)}
<1>1. on(d) = on(c)
  OBVIOUS
<1>2. \A k \in on(c) : d.keyers[n][k] = c.keyers[n][k]
  OBVIOUS
<1> HIDE DEF on
<1>3. covers(d) = covers(c)
  BY <1>1, <1>2
<1> HIDE DEF covers
<1>4. seen(d) = seen(c) /\ seen(c) \subseteq on(c)
  BY <1>1, <1>2, <1>3
<1> HIDE DEF seen
<1>5. keyed(d) = keyed(c)
  BY <1>2, <1>4
<1> HIDE DEF keyed
<1>6. \A x : Shows(x, n) = (IF covers(x) = {} THEN {x.panels[n].pgm} \cup keyed(x) ELSE keyed(x)) \ {None}
  BY DEF Shows, keyed, seen, covers, on
<1> QED BY <1>3, <1>5, <1>6

\* A recall without Program/on-air leaves what every ME shows.
LEMMA RecalledOff ==
  ASSUME NEW c, Sound(c), NEW snap, NEW air, IsFalse(air)
  PROVE  Visible(Recalled(c, snap, air)) = Visible(c)
<1> DEFINE d == Recalled(c, snap, air)
<1>1. /\ d.panels = [n \in DOMAIN c.panels |-> RecPanel(c, snap, air, n)]
      /\ d.keyers = [n \in DOMAIN c.keyers |->
                       [k \in DOMAIN c.keyers[n] |-> RecKey(c, snap, air, n, k)]]
      /\ d.main = [pgm |-> RecMain(d.panels[1].pgm, c.panels[1].pgm, c.main.pgm),
                   pvw |-> RecMain(d.panels[1].pvw, c.panels[1].pvw, c.main.pvw)]
  BY RecalledIs
<1>2. (\A n : Keys(d, n) = Keys(c, n)) /\ DOMAIN d.panels = DOMAIN c.panels
  BY RecalledKnows
<1> HIDE DEF d
<1>3. ASSUME NEW n \in DOMAIN c.panels PROVE Shows(d, n) = Shows(c, n)
  <2>1. d.panels[n].pgm = c.panels[n].pgm
    <3>1. d.panels[n] = RecPanel(c, snap, air, n)
      BY <1>1
    <3> QED BY <3>1, BusOff DEF RecPanel
  <2>2. ASSUME NEW k \in Keys(c, n)
        PROVE  /\ d.keyers[n][k].on <=> c.keyers[n][k].on
               /\ c.keyers[n][k].on => d.keyers[n][k] = c.keyers[n][k]
    <3>1. n \in DOMAIN c.keyers /\ k \in DOMAIN c.keyers[n]
      BY DEF Keys
    <3>2. d.keyers[n][k] = RecKey(c, snap, air, n, k)
      BY <1>1, <3>1
    <3> QED BY <3>1, <3>2, KeyOff DEF RecKey
  <2> QED BY <1>2, <2>1, <2>2, ShowsSame
<1>4. [n \in DOMAIN d.panels |-> Shows(d, n)] = [n \in DOMAIN c.panels |-> Shows(c, n)]
  BY <1>2, <1>3
<1> HIDE DEF Shows
<1>5. Visible(d) = Visible(c)
  BY <1>4 DEF Visible
<1> QED BY <1>5 DEF d

\* The steps that keep.
OffKeeps ==
  \A number \in Numbers : RecallSnapshot(number, FALSE) => Visible(console') = Visible(console)
LoadKeeps ==
  Restart =>
       /\ \A n \in DOMAIN console.panels, bus \in {"pgm", "pvw"} :
            Known(console', n, console.panels[n][bus]) =>
              console'.panels[n][bus] = console.panels[n][bus]
       /\ console'.keyers = console.keyers /\ console'.snaps = console.snaps
       /\ Len(console.inputs) = console.count => console'.inputs = console.inputs

\* A recall without Program/on-air keeps what shows.
LEMMA OffStep == SoundInv => OffKeeps
<1> SUFFICES ASSUME SoundInv, NEW number \in Numbers, RecallSnapshot(number, FALSE)
             PROVE  Visible(console') = Visible(console)
  BY DEF OffKeeps
<1> DEFINE off == FALSE
           snap == console.snaps[number]
<1>1. IsFalse(off)
  BY DEF IsFalse
<1>2. console' = Recalled(console, snap, off)
  BY DEF RecallSnapshot, Set
<1> HIDE DEF off, snap
<1> QED BY <1>1, <1>2, RecalledOff DEF SoundInv

\* A restart keeps what it promises to.
LEMMA LoadStep == SoundInv => LoadKeeps
<1> SUFFICES ASSUME SoundInv, Restart PROVE LoadKeeps
  BY DEF LoadKeeps
<1>1. console' = Loaded(console) /\ Sound(console)
  BY DEF Restart, SoundInv
<1> QED BY <1>1, LoadedKeeps DEF LoadKeeps

\* A recall without Program/on-air leaves what every ME's Program shows; a restart
\* keeps the buses that it still knows, the keyers, the snapshots, and inputs that
\* are as many as the layout says.
THEOREM RecallsKeep == Spec => Keeps
<1>1. SoundInv => [OffKeeps]_vars /\ [LoadKeeps]_vars
  BY OffStep, LoadStep
<1>2. Spec => [][OffKeeps]_vars /\ [][LoadKeeps]_vars
  BY <1>1, InitSound, StepSound, PTL DEF Spec
<1> QED BY <1>2 DEF Keeps, OffKeepsAir, RestartKeeps, OffKeeps, LoadKeeps
=============================================================================
