---------------------------- MODULE TallyProofs ----------------------------
(***************************************************************************)
(* The tally, for any number of sources, receivers, calls and failed       *)
(* sends: its shutdown, while publishes of calls and timers run or wait    *)
(* for the lock (nothing is sent once the service is closed, and every     *)
(* lamp that could be reached is off by then), then what is shown while    *)
(* Program runs.                                                           *)
(***************************************************************************)
EXTENDS Tally, TLAPS

\* The kinds of what the proofs reason about.
AirKinds ==
    /\ running \in BOOLEAN /\ program \in Sources
    /\ mix # None => mix \in [out : Sources, left : Int]
PublishKinds ==
    /\ notices \in Nat /\ publishers \in Nat
    /\ receivers \subseteq Receivers
    /\ shown \in [Receivers -> SUBSET (Sources \cup {Key})]
    /\ publish # None => publish \in Publishes
ExportKinds ==
    /\ retry \in Nat /\ failing \in BOOLEAN
    /\ thread \in [at : {"begin", "send", "wait", "ended"}, closing : BOOLEAN]
Kinds == AirKinds /\ PublishKinds /\ ExportKinds

\* The service closes after the shutdown's publish, and under the lock.
ClosedLast == closed => down = "closed" /\ publish = None

\* The receivers whose last send was made are dark.
AllDark == \A r \in receivers \ error : shown[r] = {}

\* The shutdown's publish: its lamps are off, it was made for all receivers, and whom it has
\* reached is dark.
Darkens(p) ==
    /\ p.lamps = {} /\ p.made = receivers
    /\ p.left # None => /\ p.left \subseteq receivers
                        /\ \A r \in receivers \ (p.left \cup error) : shown[r] = {}

\* From the stop on every publish that begins is dark; a lit one that began before it is over when
\* the shutdown's own begins, and after that no lamp goes on any more.
DarkReceivers ==
    down # "up" =>
        /\ ~running
        /\ down = "sending" => publish # None /\ Darkens(publish)
        /\ down \in {"dark", "closed"} => AllDark /\ (publish # None => publish.lamps = {})

\* The export's last round began after the close; a backoff is known as a failure.
DarkExport ==
    /\ thread.closing => down = "closed"
    /\ thread.at = "ended" => thread.closing
    /\ retry > 0 => failing
    /\ thread.at = "ended" /\ ~failing => exported = {}

ShutdownInv == Kinds /\ ClosedLast /\ DarkReceivers /\ DarkExport

-----------------------------------------------------------------------------
\* What is lit are sources and the key.
LEMMA LampsKind == ASSUME AirKinds PROVE Lamps \in SUBSET (Sources \cup {Key})
BY DEF AirKinds, Lamps

\* Nothing is lit while Program is stopped.
LEMMA StoppedIsDark == ASSUME ~running PROVE Lamps = {}
BY DEF Lamps

\* At the start nothing is shut down.
LEMMA ShutdownInit == Init => ShutdownInv
<1> SUFFICES ASSUME Init PROVE ShutdownInv
  OBVIOUS
<1> USE TallyAssumption DEF Init
<1>1. AirKinds
  BY DEF AirKinds
<1>2. PublishKinds
  BY <1>1, LampsKind DEF PublishKinds
<1>3. ExportKinds
  BY DEF ExportKinds
<1>4. ClosedLast /\ DarkReceivers /\ DarkExport
  BY DEF ClosedLast, DarkReceivers, DarkExport
<1> QED BY <1>1, <1>2, <1>3, <1>4 DEF ShutdownInv, Kinds

\* A call of the operator comes before the shutdown.
LEMMA CallStep == ASSUME ShutdownInv, Operator PROVE ShutdownInv'
<1> USE DEF ShutdownInv, Kinds
<1>1. Call /\ down' = down /\ closed' = closed
  BY DEF Operator, Cut, Mix, SwitchKey, Replace, StartProgram, StopProgram, Call
<1>2. /\ UNCHANGED <<publish, shown, publishers, thread, retry, failing, exported>>
      /\ receivers' \subseteq Receivers
  BY DEF Operator, Cut, Mix, SwitchKey, Replace, StartProgram, StopProgram, Call, service, export,
         PublishKinds
<1>3. AirKinds'
  <2>1. ASSUME NEW source \in Sources, Cut(source) PROVE AirKinds'
    BY <2>1 DEF Cut, AirKinds
  <2>2. ASSUME NEW source \in Sources, Mix(source) PROVE AirKinds'
    <3>1. MixTicks \in Int
      BY TallyAssumption
    <3> QED BY <2>2, <3>1 DEF Mix, AirKinds
  <2>3. CASE SwitchKey \/ StartProgram \/ StopProgram
    BY <2>3 DEF SwitchKey, StartProgram, StopProgram, Stopped, AirKinds
  <2>4. ASSUME NEW set \in SUBSET Receivers, Replace(set) PROVE AirKinds'
    BY <2>4 DEF Replace, AirKinds, air
  <2> QED BY <2>1, <2>2, <2>3, <2>4 DEF Operator
<1>4. PublishKinds' /\ ExportKinds'
  BY <1>1, <1>2 DEF PublishKinds, ExportKinds, Call
<1>5. ClosedLast' /\ DarkReceivers' /\ DarkExport'
  BY <1>1, <1>2 DEF Call, ClosedLast, DarkReceivers, DarkExport
<1> QED BY <1>3, <1>4, <1>5

\* The steps of the receivers' publishes.
LEMMA AnnounceStep == ASSUME ShutdownInv, Announce PROVE ShutdownInv'
<1> USE DEF ShutdownInv, Kinds, Announce, air, service, export
<1>1. AirKinds' /\ ExportKinds'
  BY DEF AirKinds, ExportKinds
<1>2. PublishKinds'
  BY DEF PublishKinds
<1>3. ClosedLast' /\ DarkExport'
  BY DEF ClosedLast, DarkExport
<1>4. DarkReceivers'
  BY DEF DarkReceivers, AllDark, PublishKinds, Darkens
<1> QED BY <1>1, <1>2, <1>3, <1>4

LEMMA TimerStep == ASSUME ShutdownInv, TimerFires PROVE ShutdownInv'
<1> USE DEF ShutdownInv, Kinds
<1>1. /\ UNCHANGED <<air, service, receivers, closed, down, export>>
      /\ \/ notices' = notices + 1 /\ publishers' = publishers
         \/ notices' = notices /\ publishers' = publishers + 1
  BY DEF TimerFires
<1>2. AirKinds' /\ ExportKinds'
  BY <1>1 DEF AirKinds, ExportKinds, air, export
<1>3. PublishKinds'
  BY <1>1 DEF PublishKinds, service
<1>4. ClosedLast' /\ DarkExport'
  BY <1>1 DEF ClosedLast, DarkExport, service, export
<1>5. DarkReceivers'
  BY <1>1 DEF DarkReceivers, AllDark, PublishKinds, Darkens, air, service
<1> QED BY <1>2, <1>3, <1>4, <1>5

LEMMA BeginStep == ASSUME ShutdownInv, NEW own \in BOOLEAN, Begin(own) PROVE ShutdownInv'
<1> USE DEF ShutdownInv, Kinds
<1> DEFINE new == [lamps |-> Lamps, blind |-> untimed > 0, made |-> receivers, left |-> None]
<1>1. /\ UNCHANGED <<air, notices, shown, error, receivers, closed, export>>
      /\ publish = None /\ publish' = IF closed THEN None ELSE new
      /\ \/ down = "waiting" /\ down' = "sending" /\ publishers' = publishers
         \/ down' = down /\ publishers > 0 /\ publishers' = publishers - 1
  BY DEF Begin
<1>2. new \in Publishes
  BY LampsKind DEF PublishKinds, Publishes
<1>3. new # None
  BY <1>2, TallyAssumption
<1>4. AirKinds' /\ ExportKinds'
  BY <1>1 DEF AirKinds, ExportKinds, air, export
<1>5. PublishKinds'
  BY <1>1, <1>2 DEF PublishKinds
<1>6. ClosedLast' /\ DarkExport'
  BY <1>1 DEF ClosedLast, DarkExport, export
<1>7. DarkReceivers'
  <2> SUFFICES ASSUME down # "up" PROVE DarkReceivers'
    BY <1>1 DEF DarkReceivers
  <2>1. ~running /\ ~running'
    BY <1>1 DEF DarkReceivers, air
  <2>2. new.lamps = {} /\ new.made = receivers' /\ new.left = None
    BY <2>1, <1>1, StoppedIsDark
  <2>3. ~closed => publish' = new
    BY <1>1
  <2> HIDE DEF new
  <2>4. down' = "sending" => publish' # None /\ Darkens(publish)'
    BY <2>2, <2>3, <1>1, <1>3 DEF Darkens, ClosedLast, DarkReceivers
  <2>5. down' \in {"dark", "closed"} => AllDark' /\ (publish' # None => publish'.lamps = {})
    BY <2>2, <2>3, <1>1 DEF DarkReceivers, AllDark
  <2> QED BY <2>1, <2>4, <2>5 DEF DarkReceivers
<1> QED BY <1>4, <1>5, <1>6, <1>7

LEMMA TurnStep == ASSUME ShutdownInv, Turn PROVE ShutdownInv'
<1> USE DEF ShutdownInv, Kinds
<1>1. /\ UNCHANGED <<air, notices, publishers, shown, error, receivers, closed, down, export>>
      /\ publish # None /\ publish.left = None
      /\ publish' = [publish EXCEPT !.left = receivers]
  BY DEF Turn
<1>2. publish \in Publishes /\ receivers \in SUBSET Receivers
  BY <1>1 DEF PublishKinds
<1>3. publish' \in Publishes /\ publish' # None
  BY <1>1, <1>2, TallyAssumption DEF Publishes
<1>4. /\ publish'.lamps = publish.lamps /\ publish'.made = publish.made
      /\ publish'.left = receivers
  BY <1>1, <1>2 DEF Publishes
<1>5. AirKinds' /\ ExportKinds'
  BY <1>1 DEF AirKinds, ExportKinds, air, export
<1>6. PublishKinds'
  BY <1>1, <1>3 DEF PublishKinds
<1>7. ClosedLast' /\ DarkExport'
  BY <1>1 DEF ClosedLast, DarkExport, export
<1>8. DarkReceivers'
  BY <1>1, <1>3, <1>4 DEF DarkReceivers, AllDark, Darkens, air
<1> QED BY <1>5, <1>6, <1>7, <1>8

LEMMA SendStep ==
  ASSUME ShutdownInv, NEW r \in Receivers, NEW ok \in BOOLEAN, Send(r, ok) PROVE ShutdownInv'
<1> USE DEF ShutdownInv, Kinds
<1> DEFINE left == publish.left \ {r}
<1>1. /\ UNCHANGED <<air, notices, publishers, receivers, closed, down, export>>
      /\ publish # None /\ publish.left # None /\ r \in publish.left /\ r \in publish.made
      /\ publish' = [publish EXCEPT !.left = left]
      /\ shown' = IF ok THEN [shown EXCEPT ![r] = publish.lamps] ELSE shown
      /\ error' = IF ok THEN error \ {r} ELSE error \cup {r}
  BY DEF Send
<1>2. publish \in Publishes /\ left \in SUBSET Receivers
  BY <1>1 DEF PublishKinds, Publishes
<1>3. publish' \in Publishes /\ publish' # None
  BY <1>1, <1>2, TallyAssumption DEF Publishes
<1>4. /\ publish'.lamps = publish.lamps /\ publish'.made = publish.made
      /\ publish'.left = left
  BY <1>1, <1>2 DEF Publishes
<1>5. shown' \in [Receivers -> SUBSET (Sources \cup {Key})]
  BY <1>1, <1>2 DEF PublishKinds, Publishes
<1>6. AirKinds' /\ ExportKinds' /\ PublishKinds'
  BY <1>1, <1>3, <1>5 DEF AirKinds, ExportKinds, PublishKinds, air, export
<1>7. ClosedLast' /\ DarkExport'
  BY <1>1 DEF ClosedLast, DarkExport, export
<1>8. DarkReceivers'
  <2> SUFFICES ASSUME down # "up" PROVE DarkReceivers'
    BY <1>1 DEF DarkReceivers
  <2>1. ~running'
    BY <1>1 DEF DarkReceivers, air
  <2>2. ASSUME down = "sending" PROVE Darkens(publish)'
    <3>1. Darkens(publish)
      BY <2>2 DEF DarkReceivers
    <3>2. \A q \in receivers \ (left \cup error') : shown'[q] = {}
      <4> TAKE q \in receivers \ (left \cup error')
      <4>1. CASE q = r
        BY <4>1, <1>1, <3>1 DEF Darkens, PublishKinds
      <4>2. CASE q # r
        BY <4>2, <1>1, <3>1 DEF Darkens, PublishKinds
      <4> QED BY <4>1, <4>2
    <3> QED BY <3>1, <3>2, <1>1, <1>4 DEF Darkens
  <2>3. ASSUME down \in {"dark", "closed"} PROVE AllDark' /\ publish'.lamps = {}
    <3>1. AllDark /\ publish.lamps = {}
      BY <2>3, <1>1 DEF DarkReceivers
    <3>2. \A q \in receivers \ error' : shown'[q] = {}
      <4> TAKE q \in receivers \ error'
      <4>1. CASE q = r
        BY <4>1, <1>1, <3>1 DEF PublishKinds
      <4>2. CASE q # r
        BY <4>2, <1>1, <3>1 DEF AllDark, PublishKinds
      <4> QED BY <4>1, <4>2
    <3> QED BY <3>1, <3>2, <1>1, <1>4 DEF AllDark
  <2> QED BY <2>1, <2>2, <2>3, <1>1, <1>3 DEF DarkReceivers
<1> QED BY <1>6, <1>7, <1>8

LEMMA DoneStep == ASSUME ShutdownInv, Done PROVE ShutdownInv'
<1> USE DEF ShutdownInv, Kinds
<1>1. /\ UNCHANGED <<air, notices, publishers, shown, error, receivers, closed, export>>
      /\ publish # None /\ publish.left # None /\ publish' = None
      /\ publish.left = {} \/ publish.left \ publish.made # {}
      /\ down' = IF down = "sending" THEN "dark" ELSE down
  BY DEF Done
<1>2. AirKinds' /\ ExportKinds' /\ PublishKinds'
  BY <1>1 DEF AirKinds, ExportKinds, PublishKinds, air, export
<1>3. ClosedLast' /\ DarkExport'
  BY <1>1 DEF ClosedLast, DarkExport, export
<1>4. down = "sending" => AllDark
  BY <1>1 DEF DarkReceivers, AllDark, Darkens
<1>5. DarkReceivers'
  BY <1>1, <1>4 DEF DarkReceivers, AllDark, air
<1> QED BY <1>2, <1>3, <1>5

\* The steps of the export's thread.
LEMMA RoundStep == ASSUME ShutdownInv, Round PROVE ShutdownInv'
<1> USE DEF ShutdownInv, Kinds
<1>1. /\ UNCHANGED <<air, notices, publishers, service, receivers, closed, down, retry, failing,
                     exported>>
      /\ thread' = [at |-> "send", closing |-> down = "closed"]
  BY DEF Round, Clear
<1>2. AirKinds' /\ ExportKinds' /\ PublishKinds'
  BY <1>1 DEF AirKinds, ExportKinds, PublishKinds, air, service
<1>3. ClosedLast' /\ DarkExport'
  BY <1>1 DEF ClosedLast, DarkExport, service
<1>4. DarkReceivers'
  BY <1>1 DEF DarkReceivers, AllDark, Darkens, air, service
<1> QED BY <1>2, <1>3, <1>4

LEMMA ExportSendStep ==
  ASSUME ShutdownInv, NEW ok \in BOOLEAN, ExportSend(ok) PROVE ShutdownInv'
<1> USE DEF ShutdownInv, Kinds
<1>1. /\ UNCHANGED <<air, notices, publishers, service, receivers, closed, down>>
      /\ thread.at = "send" /\ (~ok => retry = 0)
      /\ exported' = IF ok /\ retry = 0 THEN Lamps ELSE exported
      /\ retry' = IF ok THEN retry ELSE Backoff
      /\ failing' = (IF retry = 0 THEN ~ok ELSE failing)
      /\ thread' = [thread EXCEPT !.at = IF thread.closing THEN "ended" ELSE "wait"]
  BY DEF ExportSend, RetryAfter
<1>2. thread' = [at |-> IF thread.closing THEN "ended" ELSE "wait", closing |-> thread.closing]
  BY <1>1 DEF ExportKinds
<1>3. Backoff \in Nat
  BY TallyAssumption
<1>4. AirKinds' /\ ExportKinds' /\ PublishKinds'
  BY <1>1, <1>2, <1>3 DEF AirKinds, ExportKinds, PublishKinds, air, service
<1>5. ClosedLast'
  BY <1>1 DEF ClosedLast, service
<1>6. thread.closing => ~running
  BY DEF DarkExport, DarkReceivers
<1>7. DarkExport'
  <2>1. /\ thread'.closing = thread.closing
        /\ thread'.at = "ended" => thread.closing
    BY <1>2
  <2>2. CASE ~ok
    BY <2>1, <2>2, <1>1 DEF DarkExport
  <2>3. CASE ok /\ retry = 0
    <3>1. retry' = 0 /\ exported' = Lamps
      BY <2>3, <1>1
    <3> QED BY <3>1, <2>1, <1>1, <1>6, StoppedIsDark DEF DarkExport
  <2>4. CASE ok /\ retry # 0
    <3>1. retry > 0
      BY <2>4 DEF ExportKinds
    <3>2. failing' = failing /\ retry' = retry
      BY <2>4, <1>1
    <3> QED BY <3>1, <3>2, <2>1, <1>1 DEF DarkExport
  <2> QED BY <2>2, <2>3, <2>4
<1>8. DarkReceivers'
  BY <1>1 DEF DarkReceivers, AllDark, Darkens, air, service
<1> QED BY <1>4, <1>5, <1>7, <1>8

LEMMA WakeStep == ASSUME ShutdownInv, Wake PROVE ShutdownInv'
<1> USE DEF ShutdownInv, Kinds
<1>1. /\ UNCHANGED <<air, notices, publishers, service, receivers, closed, down, retry, failing,
                     exported>>
      /\ thread.at = "wait" /\ thread' = [thread EXCEPT !.at = "begin"]
  BY DEF Wake
<1>2. thread' = [at |-> "begin", closing |-> thread.closing]
  BY <1>1 DEF ExportKinds
<1>3. AirKinds' /\ ExportKinds' /\ PublishKinds'
  BY <1>1, <1>2 DEF AirKinds, ExportKinds, PublishKinds, air, service
<1>4. ClosedLast' /\ DarkExport'
  BY <1>1, <1>2 DEF ClosedLast, DarkExport, service
<1>5. DarkReceivers'
  BY <1>1 DEF DarkReceivers, AllDark, Darkens, air, service
<1> QED BY <1>3, <1>4, <1>5

\* The shutdown itself, and time.
LEMMA ShutDownStep == ASSUME ShutdownInv, ShutDown PROVE ShutdownInv'
<1> USE DEF ShutdownInv, Kinds
<1>1. /\ UNCHANGED <<notices, publishers, service, receivers, closed, export>>
      /\ down = "up" /\ down' = "stopped"
      /\ running' = FALSE /\ mix' = None /\ program' = program
  BY DEF ShutDown, Stopped
<1>2. AirKinds' /\ ExportKinds' /\ PublishKinds'
  BY <1>1 DEF AirKinds, ExportKinds, PublishKinds, export, service
<1>3. ClosedLast' /\ DarkExport'
  BY <1>1 DEF ClosedLast, DarkExport, export, service
<1>4. DarkReceivers'
  BY <1>1 DEF DarkReceivers
<1> QED BY <1>2, <1>3, <1>4

LEMMA DarkenStep == ASSUME ShutdownInv, Darken PROVE ShutdownInv'
<1> USE DEF ShutdownInv, Kinds
<1>1. /\ UNCHANGED <<air, notices, publishers, service, receivers, closed, export>>
      /\ down = "stopped" /\ down' = "waiting"
  BY DEF Darken
<1>2. AirKinds' /\ ExportKinds' /\ PublishKinds'
  BY <1>1 DEF AirKinds, ExportKinds, PublishKinds, air, export, service
<1>3. ClosedLast' /\ DarkExport'
  BY <1>1 DEF ClosedLast, DarkExport, export, service
<1>4. DarkReceivers'
  BY <1>1 DEF DarkReceivers, air
<1> QED BY <1>2, <1>3, <1>4

LEMMA CloseStep == ASSUME ShutdownInv, Close PROVE ShutdownInv'
<1> USE DEF ShutdownInv, Kinds
<1>1. /\ UNCHANGED <<air, notices, publishers, service, receivers, export>>
      /\ down = "dark" /\ publish = None
      /\ closed' = TRUE /\ down' = "closed"
  BY DEF Close, CloseWaits
<1>2. AirKinds' /\ ExportKinds' /\ PublishKinds'
  BY <1>1 DEF AirKinds, ExportKinds, PublishKinds, air, export, service
<1>3. ClosedLast' /\ DarkExport'
  BY <1>1 DEF ClosedLast, DarkExport, export, service
<1>4. DarkReceivers'
  BY <1>1 DEF DarkReceivers, AllDark, air, service
<1> QED BY <1>2, <1>3, <1>4

LEMMA TickStep == ASSUME ShutdownInv, Tick PROVE ShutdownInv'
<1> USE DEF ShutdownInv, Kinds
<1>1. /\ UNCHANGED <<running, program, notices, publishers, service, receivers, closed, down,
                     thread, failing, exported>>
      /\ mix' = IF mix = None \/ mix.left = 1 THEN None ELSE [mix EXCEPT !.left = @ - 1]
      /\ retry' = IF retry = 0 THEN 0 ELSE retry - 1
  BY DEF Tick, Less
<1>2. AirKinds'
  <2>1. CASE mix' = None
    BY <2>1, <1>1 DEF AirKinds
  <2>2. CASE mix # None /\ mix' = [mix EXCEPT !.left = @ - 1]
    BY <2>2, <1>1 DEF AirKinds
  <2> QED BY <2>1, <2>2, <1>1
<1>3. ExportKinds' /\ PublishKinds'
  BY <1>1 DEF ExportKinds, PublishKinds, service
<1>4. ClosedLast' /\ DarkExport'
  BY <1>1 DEF ClosedLast, DarkExport, ExportKinds, service
<1>5. DarkReceivers'
  BY <1>1 DEF DarkReceivers, AllDark, Darkens, service
<1> QED BY <1>2, <1>3, <1>4, <1>5

LEMMA ShutdownStutters == ASSUME ShutdownInv, UNCHANGED vars PROVE ShutdownInv'
BY DEF ShutdownInv, Kinds, AirKinds, PublishKinds, ExportKinds, ClosedLast, DarkReceivers, AllDark,
       Darkens, DarkExport, vars, air, service, export

\* Every step keeps the shutdown's invariant.
LEMMA ShutdownNext == ShutdownInv /\ [Next]_vars => ShutdownInv'
BY CallStep, AnnounceStep, TimerStep, BeginStep, TurnStep, SendStep, DoneStep, RoundStep,
   ExportSendStep, WakeStep, ShutDownStep, DarkenStep, CloseStep, TickStep, ShutdownStutters
DEF Next, Service, Export

-----------------------------------------------------------------------------
\* After the shutdown every lamp that could be reached is off, at the receivers and at the
\* calculator (engine/mixer.py shutdown(), engine/tally_export.py close()).
THEOREM EndsDark == Spec => []DarkAtTheEnd
<1>1. ShutdownInv => DarkAtTheEnd
  BY DEF ShutdownInv, ClosedLast, DarkReceivers, AllDark, DarkExport, DarkAtTheEnd
<1> QED BY <1>1, ShutdownInit, ShutdownNext, PTL DEF Spec

\* No step of a closed service sends: its last publish is over, the operator's last call too
\* (engine/tally.py close()).
LEMMA ClosedIsQuiet == ShutdownInv /\ [Next]_vars /\ closed => UNCHANGED <<shown, error>>
<1> SUFFICES ASSUME ShutdownInv, [Next]_vars, closed PROVE UNCHANGED <<shown, error>>
  OBVIOUS
<1>1. down = "closed" /\ publish = None
  BY DEF ShutdownInv, ClosedLast
<1>2. ~Operator
  BY <1>1 DEF Operator, Cut, Mix, SwitchKey, Replace, StartProgram, StopProgram, Call
<1>3. ASSUME NEW r \in Receivers, NEW ok \in BOOLEAN PROVE ~Send(r, ok)
  BY <1>1 DEF Send
<1>4. ASSUME NEW own \in BOOLEAN PROVE Begin(own) => UNCHANGED <<shown, error>>
  BY DEF Begin
<1> QED BY <1>2, <1>3, <1>4
  DEF Next, Service, Export, Announce, TimerFires, Darken, Turn, Done, Round, ExportSend, Wake,
      Tick, ShutDown, Close, vars, service

\* After the shutdown the lamps are off and nothing is sent any more.
THEOREM ClosesSilently == Spec => EndsSilent
<1>1. ShutdownInv' => DarkAtTheEnd'
  BY DEF ShutdownInv, ClosedLast, DarkReceivers, AllDark, DarkExport, DarkAtTheEnd
<1>2. ShutdownInv /\ [Next]_vars /\ ShutdownInv'
        => [DarkAtTheEnd' /\ (closed => UNCHANGED <<shown, error>>)]_vars
  BY <1>1, ClosedIsQuiet
<1> QED BY <1>2, ShutdownInit, ShutdownNext, PTL DEF Spec, EndsSilent

-----------------------------------------------------------------------------
(* What is shown while Program runs.  A change of the lamps is either      *)
(* announced (a notice, a publisher), or it is the end of a mix or a fade, *)
(* which a timer meets, or which is known to come untimed (EndsAreMet).    *)
(* Between the two a publish is still to begin, and nothing is claimed.    *)

BusTyped ==
    running \in BOOLEAN /\ program \in Sources /\ (mix # None => running /\ mix \in Mixes)
KeyTyped == key \in [on : BOOLEAN, left : 0..FadeTicks] /\ (key.on => key.left = 0)
EndTyped ==
    /\ timers \subseteq [left : 0..Later(MixTicks, FadeTicks), export : BOOLEAN]
    /\ untimed \in Nat /\ cancelled \in BOOLEAN
LoopTyped == wait \in 0..Refresh /\ retry \in 0..Backoff /\ wake \in BOOLEAN
Typed == BusTyped /\ KeyTyped /\ EndTyped /\ LoopTyped

\* The end of a mix and of a fade has a timer, or it is known to have none.
EndsAreMet ==
    /\ mix # None => mix.left <= untimed \/ \E t \in timers : t.left = mix.left
    /\ key.left > 0 => key.left <= untimed \/ \E t \in timers : t.left = key.left
    /\ key.left > 0 => cancelled \/ \E t \in timers : t.export /\ t.left = key.left

\* A publish is still to begin: of a call, a timer or the shutdown.
Coming == \/ notices > 0 \/ publishers > 0 \/ down \in {"stopped", "waiting"}
          \/ \E t \in timers : t.left = 0

\* The lamps stay until something is announced.
Lasting == untimed = 0 \/ ~running

\* The receivers rs show what is on air, but those that failed or may be blind to an end.
Showing(rs) == \A r \in rs \ (error \cup blind) : shown[r] = Lamps /\ Lasting

ReceiversFollow ==
    ~Coming =>
        /\ publish = None => Showing(receivers)
        /\ publish # None =>
             /\ publish.made = receivers
             /\ publish.blind \/ (publish.lamps = Lamps /\ Lasting)
             /\ publish.left # None =>
                  publish.left \subseteq receivers /\ Showing(receivers \ publish.left)

\* The calculator has what is on air, but for a key whose fade lost its timer.
Told == exported = Lamps \/ (cancelled /\ exported \ {Key} = Lamps \ {Key})

\* The export's thread sleeps: no call is on its way to it, and its last send was made.
Sleeps == thread.at = "wait" /\ ~wake /\ ~failing /\ notices = 0 /\ down # "stopped"

ExportFollows ==
    Sleeps =>
        /\ mix # None => wait <= mix.left
        /\ wait > 0 /\ (\A t \in timers : t.export => t.left > 0) => Told

FollowInv == Typed /\ EndsAreMet /\ ReceiversFollow /\ ExportFollows
IInv == ShutdownInv /\ FollowInv

\* Naturals and their bounds.
LEMMA Ticks ==
    /\ MixTicks \in Nat \ {0} /\ FadeTicks \in Nat \ {0} /\ Refresh \in Nat \ {0}
    /\ Backoff \in Nat \ {0}
    /\ MixTicks \in 0..Later(MixTicks, FadeTicks) /\ FadeTicks \in 0..Later(MixTicks, FadeTicks)
    /\ Later(MixTicks, FadeTicks) \in Nat
BY TallyAssumption DEF Later

LEMMA LaterIs ==
    ASSUME NEW a \in Nat, NEW b \in Nat
    PROVE  Later(a, b) \in Nat /\ a <= Later(a, b) /\ b <= Later(a, b)
BY DEF Later

\* What Again adds: the end in `ticks` is met, and no other end is lost.
LEMMA AgainMeets ==
    ASSUME Typed, NEW ticks \in 0..Later(MixTicks, FadeTicks), NEW forExport \in BOOLEAN,
           Again(ticks, forExport)
    PROVE  /\ timers' \subseteq [left : 0..Later(MixTicks, FadeTicks), export : BOOLEAN]
           /\ untimed' \in Nat /\ untimed <= untimed' /\ timers \subseteq timers'
           /\ ticks <= untimed' \/ \E t \in timers' : t.left = ticks
           /\ forExport => \E t \in timers' : t.export /\ t.left = ticks
<1> DEFINE new == [left |-> ticks, export |-> forExport]
<1>1. new \in [left : 0..Later(MixTicks, FadeTicks), export : BOOLEAN]
  OBVIOUS
<1>2. CASE receivers # {} \/ forExport
  <2>1. timers' = timers \cup {new} /\ untimed' = untimed
    BY <1>2 DEF Again
  <2>2. new \in timers' /\ new.left = ticks /\ new.export = forExport
    BY <2>1
  <2>3. timers' \subseteq [left : 0..Later(MixTicks, FadeTicks), export : BOOLEAN]
    BY <2>1, <1>1 DEF Typed, BusTyped, KeyTyped, EndTyped, LoopTyped
  <2>4. untimed' \in Nat /\ untimed <= untimed'
    BY <2>1 DEF Typed, BusTyped, KeyTyped, EndTyped, LoopTyped
  <2> HIDE DEF new
  <2> QED BY <2>1, <2>2, <2>3, <2>4
<1>3. CASE ~(receivers # {} \/ forExport)
  <2>1. timers' = timers /\ untimed' = Later(untimed, ticks) /\ ~forExport
    BY <1>3 DEF Again
  <2>2. untimed \in Nat /\ ticks \in Nat
    BY Ticks DEF Typed, BusTyped, KeyTyped, EndTyped, LoopTyped
  <2> QED BY <2>1, <2>2, LaterIs DEF Typed, BusTyped, KeyTyped, EndTyped, LoopTyped
<1> QED BY <1>2, <1>3

\* An announced change: nothing is claimed until its publish begins and the export is awake.
LEMMA NoticeFollows ==
    ASSUME notices' \in Nat, notices' > 0 PROVE ReceiversFollow' /\ ExportFollows'
BY DEF ReceiversFollow, Coming, ExportFollows, Sleeps

\* At the start everything is shown.
LEMMA FollowInit == Init => FollowInv
<1> SUFFICES ASSUME Init PROVE FollowInv
  OBVIOUS
<1>1. PICK on \in BOOLEAN : key = [on |-> on, left |-> 0]
  BY DEF Init
<1>2. KeyTyped
  BY <1>1, Ticks DEF KeyTyped
<1>3. BusTyped
  BY TallyAssumption DEF Init, BusTyped
<1>4. EndTyped /\ LoopTyped
  <2>1. timers = {} /\ untimed = 0 /\ wait = Refresh /\ retry = 0
    BY DEF Init
  <2>2. cancelled \in BOOLEAN /\ wake \in BOOLEAN
    BY DEF Init
  <2> QED BY <2>1, <2>2, Ticks DEF EndTyped, LoopTyped
<1>5. EndsAreMet
  BY <1>1 DEF Init, EndsAreMet
<1>6. ReceiversFollow
  <2>1. publish = None /\ untimed = 0 /\ receivers \subseteq Receivers
    BY DEF Init
  <2>2. \A r \in receivers : shown[r] = Lamps
    BY <2>1 DEF Init
  <2> QED BY <2>1, <2>2 DEF ReceiversFollow, Showing, Lasting
<1>7. ExportFollows
  BY DEF Init, ExportFollows, Told
<1> QED BY <1>2, <1>3, <1>4, <1>5, <1>6, <1>7 DEF FollowInv, Typed

\* Each call of the operator.
LEMMA CallFollows == ASSUME IInv, Operator PROVE FollowInv'
<1> USE DEF IInv, FollowInv
<1>1. notices' = notices + 1 /\ notices \in Nat /\ UNCHANGED <<export, wake>>
  BY DEF Operator, Cut, Mix, SwitchKey, Replace, StartProgram, StopProgram, Call, ShutdownInv,
     Kinds,
         PublishKinds
<1>2. ReceiversFollow' /\ ExportFollows'
  BY <1>1, NoticeFollows
<1>3. LoopTyped'
  BY <1>1 DEF Typed, LoopTyped, export
<1>4. ASSUME NEW source \in Sources, Cut(source) PROVE Typed' /\ EndsAreMet'
  <2>1. /\ UNCHANGED <<running, key, timers, unended>> /\ program' = source /\ mix' = None
    BY <1>4 DEF Cut
  <2>2. BusTyped' /\ KeyTyped' /\ EndTyped'
    BY <2>1 DEF Typed, BusTyped, KeyTyped, EndTyped, unended
  <2> QED BY <1>3, <2>1, <2>2 DEF Typed, EndsAreMet, unended
<1>5. ASSUME NEW source \in Sources, Mix(source) PROVE Typed' /\ EndsAreMet'
  <2>1. /\ UNCHANGED <<running, key, cancelled>> /\ program' = source /\ running
        /\ mix' = [out |-> program, left |-> MixTicks] /\ Again(MixTicks, FALSE)
    BY <1>5 DEF Mix
  <2> DEFINE no == FALSE
  <2>2. no \in BOOLEAN /\ Again(MixTicks, no)
    BY <2>1
  <2> HIDE DEF no
  <2>3. /\ timers' \subseteq [left : 0..Later(MixTicks, FadeTicks), export : BOOLEAN]
        /\ untimed' \in Nat /\ untimed <= untimed' /\ timers \subseteq timers'
        /\ MixTicks <= untimed' \/ \E t \in timers' : t.left = MixTicks
    BY <2>2, Ticks, AgainMeets
  <2>4. mix' \in Mixes /\ mix'.left = MixTicks
    BY <2>1, Ticks DEF Typed, BusTyped, Mixes
  <2>5. Typed'
    <3>1. BusTyped' /\ KeyTyped'
      BY <2>1, <2>4 DEF Typed, BusTyped, KeyTyped
    <3>2. EndTyped'
      BY <2>1, <2>3 DEF Typed, EndTyped
    <3> QED BY <1>3, <3>1, <3>2 DEF Typed
  <2>6. key'.left > 0 => key'.left <= untimed' \/ \E t \in timers' : t.left = key'.left
    <3>1. key.left \in Nat /\ untimed \in Nat
      BY Ticks DEF Typed, BusTyped, KeyTyped, EndTyped, LoopTyped
    <3> QED BY <2>1, <2>3, <3>1 DEF EndsAreMet
  <2>7. key'.left > 0 => cancelled' \/ \E t \in timers' : t.export /\ t.left = key'.left
    BY <2>1, <2>3 DEF EndsAreMet
  <2> QED BY <2>3, <2>4, <2>5, <2>6, <2>7 DEF EndsAreMet
<1>6. ASSUME SwitchKey PROVE Typed' /\ EndsAreMet'
  <2>1. UNCHANGED <<running, program, mix>> /\ cancelled' = FALSE
    BY <1>6 DEF SwitchKey
  <2>2. CASE key.on
    <3>1. key' = [on |-> FALSE, left |-> FadeTicks] /\ Again(FadeTicks, TRUE)
      BY <1>6, <2>2 DEF SwitchKey
    <3> DEFINE yes == TRUE
    <3>2. yes \in BOOLEAN /\ yes /\ Again(FadeTicks, yes)
      BY <3>1
    <3> HIDE DEF yes
    <3>3. /\ timers' \subseteq [left : 0..Later(MixTicks, FadeTicks), export : BOOLEAN]
          /\ untimed' \in Nat /\ untimed <= untimed' /\ timers \subseteq timers'
          /\ \E t \in timers' : t.export /\ t.left = FadeTicks
      BY <3>2, Ticks, AgainMeets
    <3>4. key' \in [on : BOOLEAN, left : 0..FadeTicks] /\ ~key'.on /\ key'.left = FadeTicks
      BY <3>1, Ticks
    <3>5. Typed'
      <4>1. BusTyped' /\ KeyTyped'
        BY <2>1, <3>4 DEF Typed, BusTyped, KeyTyped
      <4>2. EndTyped'
        BY <2>1, <3>3 DEF Typed, EndTyped
      <4> QED BY <1>3, <4>1, <4>2 DEF Typed
    <3>6. mix' # None => mix'.left <= untimed' \/ \E t \in timers' : t.left = mix'.left
      <4>1. (mix # None => mix.left \in Nat) /\ untimed \in Nat
        BY Ticks DEF Typed, BusTyped, EndTyped, Mixes
      <4>2. mix # None => mix.left <= untimed \/ \E t \in timers : t.left = mix.left
        BY DEF EndsAreMet
      <4> QED BY <2>1, <3>3, <4>1, <4>2
    <3>7. FadeTicks <= untimed' \/ \E t \in timers' : t.left = FadeTicks
      BY <3>3
    <3> QED BY <3>3, <3>4, <3>5, <3>6, <3>7 DEF EndsAreMet
  <2>3. CASE ~key.on
    <3>1. key' = [on |-> TRUE, left |-> 0] /\ UNCHANGED <<timers, untimed>>
      BY <1>6, <2>3 DEF SwitchKey
    <3>2. KeyTyped'
      BY <3>1, Ticks DEF KeyTyped
    <3>3. BusTyped' /\ EndTyped'
      BY <2>1, <3>1 DEF Typed, BusTyped, EndTyped
    <3>4. EndsAreMet'
      BY <2>1, <3>1 DEF EndsAreMet
    <3> QED BY <1>3, <3>2, <3>3, <3>4 DEF Typed
  <2> QED BY <2>2, <2>3
<1>7. ASSUME StartProgram PROVE Typed' /\ EndsAreMet'
  <2>1. running' = TRUE /\ UNCHANGED <<program, mix, key, timers, unended>>
    BY <1>7 DEF StartProgram
  <2>2. BusTyped' /\ KeyTyped' /\ EndTyped'
    BY <2>1 DEF Typed, BusTyped, KeyTyped, EndTyped, unended
  <2> QED BY <1>3, <2>1, <2>2 DEF Typed, EndsAreMet, unended
<1>8. ASSUME StopProgram PROVE Typed' /\ EndsAreMet'
  <2>1. /\ running' = FALSE /\ mix' = None /\ UNCHANGED <<program, key>> /\ timers' = {}
        /\ untimed' = Later(untimed, key.left) /\ cancelled' = (cancelled \/ key.left > 0)
    BY <1>8 DEF StopProgram, Stopped, CancelTimers
  <2>2. untimed \in Nat /\ key.left \in Nat
    BY Ticks DEF Typed, BusTyped, KeyTyped, EndTyped, LoopTyped
  <2>3. untimed' \in Nat /\ key.left <= untimed'
    BY <2>1, <2>2, LaterIs
  <2>4. BusTyped' /\ KeyTyped'
    BY <2>1 DEF Typed, BusTyped, KeyTyped
  <2>5. EndTyped'
    BY <2>1, <2>3 DEF Typed, EndTyped
  <2>6. EndsAreMet'
    BY <2>1, <2>2, <2>3 DEF EndsAreMet
  <2> QED BY <1>3, <2>4, <2>5, <2>6 DEF Typed
<1>9. ASSUME NEW set \in SUBSET Receivers, Replace(set) PROVE Typed' /\ EndsAreMet'
  <2>1. UNCHANGED <<air, timers, unended>>
    BY <1>9 DEF Replace
  <2> QED BY <1>3, <2>1 DEF Typed, BusTyped, KeyTyped, EndTyped, LoopTyped, EndsAreMet, air, unended
<1>10. Typed' /\ EndsAreMet'
  BY <1>4, <1>5, <1>6, <1>7, <1>8, <1>9 DEF Operator
<1> QED BY <1>2, <1>10

\* The steps that leave what is on air, the timers and the export alone.
LEMMA AirStays ==
    ASSUME FollowInv, UNCHANGED <<air, timers, unended, wait, retry>>, wake' \in BOOLEAN
    PROVE  Typed' /\ EndsAreMet' /\ Lamps' = Lamps /\ (Lasting' <=> Lasting)
BY DEF FollowInv, Typed, BusTyped, KeyTyped, EndTyped, LoopTyped, EndsAreMet, Lamps, Lasting, air,
   unended

LEMMA ExportStays ==
    ASSUME ExportFollows, UNCHANGED <<air, timers, unended, export, wake, notices>>,
           down = "stopped" => down' = "stopped"
    PROVE  ExportFollows'
<1>1. Told' <=> Told
  BY DEF Told, Lamps, air, unended, export
<1> QED BY <1>1 DEF ExportFollows, Sleeps, air, export

LEMMA ReceiversStay ==
    ASSUME ReceiversFollow,
           UNCHANGED <<air, timers, unended, notices, publishers, service, receivers, down>>
    PROVE  ReceiversFollow'
BY DEF ReceiversFollow, Showing, Coming, Lasting, Lamps, air, unended, service

LEMMA AnnounceFollows == ASSUME IInv, Announce PROVE FollowInv'
<1> USE DEF IInv, FollowInv
<1>1. /\ UNCHANGED <<air, timers, export, down, unended>>
      /\ wake' = TRUE /\ publishers' = publishers + 1 /\ publishers \in Nat
  BY DEF Announce, ShutdownInv, Kinds, PublishKinds
<1>2. Typed' /\ EndsAreMet'
  BY <1>1, AirStays DEF export
<1>3. ReceiversFollow' /\ ExportFollows'
  BY <1>1 DEF ReceiversFollow, Coming, ExportFollows, Sleeps
<1> QED BY <1>2, <1>3

LEMMA TimerFollows == ASSUME IInv, TimerFires PROVE FollowInv'
<1> USE DEF IInv, FollowInv
<1>1. PICK t \in timers :
        /\ t.left = 0 /\ timers' = timers \ {t}
        /\ notices' = IF t.export THEN notices + 1 ELSE notices
        /\ publishers' = IF t.export THEN publishers ELSE publishers + 1
        /\ UNCHANGED <<air, service, receivers, down, export, wake, unended>>
  BY DEF TimerFires
<1>2. notices \in Nat /\ publishers \in Nat
  BY DEF ShutdownInv, Kinds, PublishKinds
<1>3. Typed'
  BY <1>1 DEF Typed, BusTyped, KeyTyped, EndTyped, LoopTyped, air, export, unended
<1>4. EndsAreMet'
  <2>1. UNCHANGED <<mix, key, untimed, cancelled>>
    BY <1>1 DEF air, unended
  <2>3. mix # None => mix.left > 0
    BY Ticks DEF Typed, BusTyped, Mixes
  <2>2. \A s \in timers : s.left > 0 => s \in timers'
    BY <1>1
  <2> QED BY <2>1, <2>2, <2>3 DEF EndsAreMet
<1>5. ReceiversFollow'
  BY <1>1, <1>2 DEF ReceiversFollow, Coming
<1>6. ExportFollows'
  <2>1. CASE t.export
    BY <1>1, <1>2, <2>1 DEF ExportFollows, Sleeps
  <2>2. CASE ~t.export
    <3>1. Told' <=> Told
      BY <1>1 DEF Told, Lamps, air, unended, export
    <3>2. Sleeps' => Sleeps
      BY <1>1, <2>2 DEF Sleeps, export
    <3>3. (\A s \in timers' : s.export => s.left > 0) => (\A s \in timers : s.export => s.left > 0)
      BY <1>1, <2>2
    <3> QED BY <1>1, <3>1, <3>2, <3>3 DEF ExportFollows, air, export
  <2> QED BY <2>1, <2>2
<1> QED BY <1>3, <1>4, <1>5, <1>6

LEMMA BeginFollows == ASSUME IInv, NEW own \in BOOLEAN, Begin(own) PROVE FollowInv'
<1> USE DEF IInv, FollowInv
<1> DEFINE new == [lamps |-> Lamps, blind |-> untimed > 0, made |-> receivers, left |-> None]
<1>1. /\ UNCHANGED <<air, timers, notices, shown, error, blind, receivers, closed, export, wake,
                     unended>>
      /\ publish' = IF closed THEN None ELSE new
      /\ down = "stopped" => down' = "stopped"
  BY DEF Begin
<1>2. Typed' /\ EndsAreMet' /\ Lamps' = Lamps /\ (Lasting' <=> Lasting)
  <2>1. wake' \in BOOLEAN
    BY <1>1 DEF Typed, BusTyped, KeyTyped, EndTyped, LoopTyped
  <2> QED BY <1>1, <2>1, AirStays DEF export
<1>3. ExportFollows'
  BY <1>1, ExportStays
<1>4. CASE closed
  <2>1. ~running /\ Lamps = {}
    BY <1>4, StoppedIsDark DEF ShutdownInv, ClosedLast, DarkReceivers
  <2>2. \A r \in receivers \ error : shown[r] = {}
    BY <1>4 DEF ShutdownInv, ClosedLast, DarkReceivers, AllDark
  <2>3. Showing(receivers)'
    BY <1>1, <1>2, <2>1, <2>2 DEF Showing, Lasting
  <2> QED BY <1>1, <1>2, <1>3, <1>4, <2>3 DEF ReceiversFollow
<1>5. CASE ~closed
  <2>1. publish' = new /\ new.made = receivers' /\ new.lamps = Lamps' /\ new.left = None
    BY <1>1, <1>2, <1>5
  <2>2. new.blind = (untimed > 0) /\ untimed \in Nat
    BY DEF Typed, BusTyped, KeyTyped, EndTyped, LoopTyped
  <2>3. new \in Publishes
    BY LampsKind DEF ShutdownInv, Kinds, PublishKinds, Publishes
  <2>4. new # None
    BY <2>3, TallyAssumption
  <2>5. new.blind \/ Lasting'
    <3> HIDE DEF new
    <3>1. untimed > 0 \/ untimed = 0
      BY <2>2
    <3>2. Lasting' <=> Lasting
      BY <1>2
    <3> QED BY <2>2, <3>1, <3>2 DEF Lasting
  <2> HIDE DEF new
  <2>6. ReceiversFollow'
    BY <2>1, <2>4, <2>5 DEF ReceiversFollow
  <2> QED BY <1>2, <1>3, <2>6
<1> QED BY <1>4, <1>5

LEMMA TurnFollows == ASSUME IInv, Turn PROVE FollowInv'
<1> USE DEF IInv, FollowInv
<1>1. /\ UNCHANGED <<air, timers, notices, publishers, shown, error, blind, receivers, down, export,
                     wake, unended>>
      /\ publish # None /\ publish' = [publish EXCEPT !.left = receivers]
  BY DEF Turn
<1>2. Typed' /\ EndsAreMet' /\ Lamps' = Lamps /\ (Lasting' <=> Lasting)
  <2>1. wake' \in BOOLEAN
    BY <1>1 DEF Typed, BusTyped, KeyTyped, EndTyped, LoopTyped
  <2> QED BY <1>1, <2>1, AirStays DEF export
<1>3. ExportFollows'
  BY <1>1, ExportStays
<1>4. publish \in Publishes /\ receivers \in SUBSET Receivers
  BY <1>1 DEF ShutdownInv, Kinds, PublishKinds
<1>5. /\ publish'.lamps = publish.lamps /\ publish'.made = publish.made
      /\ publish'.blind = publish.blind /\ publish'.left = receivers
  BY <1>1, <1>4 DEF Publishes
<1>6. publish' \in Publishes
  BY <1>1, <1>4 DEF Publishes
<1>7. publish' # None
  BY <1>6, TallyAssumption
<1>8. ReceiversFollow'
  <2> SUFFICES ASSUME ~Coming' PROVE ReceiversFollow'
    BY DEF ReceiversFollow
  <2>1. ~Coming
    BY <1>1 DEF Coming
  <2>2. /\ publish.made = receivers
        /\ publish.blind \/ (publish.lamps = Lamps /\ Lasting)
    BY <1>1, <2>1 DEF ReceiversFollow
  <2>3. receivers' \ publish'.left = {}
    BY <1>1, <1>5
  <2> QED BY <1>1, <1>2, <1>5, <1>7, <2>2, <2>3 DEF ReceiversFollow, Showing
<1> QED BY <1>2, <1>3, <1>8

LEMMA SendFollows ==
    ASSUME IInv, NEW r \in Receivers, NEW ok \in BOOLEAN, Send(r, ok) PROVE FollowInv'
<1> USE DEF IInv, FollowInv
<1> DEFINE left == publish.left \ {r}
<1>1. /\ UNCHANGED <<air, timers, notices, publishers, receivers, down, export, wake, unended>>
      /\ publish # None /\ publish.left # None /\ r \in publish.left /\ r \in publish.made
      /\ publish' = [publish EXCEPT !.left = left]
      /\ shown' = IF ok THEN [shown EXCEPT ![r] = publish.lamps] ELSE shown
      /\ error' = IF ok THEN error \ {r} ELSE error \cup {r}
      /\ blind' = IF ~ok THEN blind ELSE IF publish.blind THEN blind \cup {r} ELSE blind \ {r}
  BY DEF Send
<1>2. Typed' /\ EndsAreMet' /\ Lamps' = Lamps /\ (Lasting' <=> Lasting)
  <2>1. wake' \in BOOLEAN
    BY <1>1 DEF Typed, BusTyped, KeyTyped, EndTyped, LoopTyped
  <2> QED BY <1>1, <2>1, AirStays DEF export
<1>3. ExportFollows'
  BY <1>1, ExportStays
<1>4. publish \in Publishes /\ left \in SUBSET Receivers
  BY <1>1 DEF ShutdownInv, Kinds, PublishKinds, Publishes
<1>5. /\ publish'.lamps = publish.lamps /\ publish'.made = publish.made
      /\ publish'.blind = publish.blind /\ publish'.left = left
  BY <1>1, <1>4 DEF Publishes
<1>6. publish' \in Publishes
  BY <1>1, <1>4 DEF Publishes
<1>7. publish' # None
  BY <1>6, TallyAssumption
<1>8. ReceiversFollow'
  <2> SUFFICES ASSUME ~Coming' PROVE ReceiversFollow'
    BY DEF ReceiversFollow
  <2>1. ~Coming
    BY <1>1 DEF Coming
  <2>2. /\ publish.made = receivers
        /\ publish.blind \/ (publish.lamps = Lamps /\ Lasting)
        /\ publish.left \subseteq receivers /\ Showing(receivers \ publish.left)
    BY <1>1, <2>1 DEF ReceiversFollow
  <2>3. ASSUME NEW q \in receivers \ left, q \notin error' \cup blind'
        PROVE  shown'[q] = Lamps /\ Lasting
    <3>1. CASE q = r
      <4>1. ok
        BY <1>1, <2>3, <3>1
      <4>2. ~publish.blind
        BY <1>1, <2>3, <3>1, <4>1
      <4>3. shown'[q] = publish.lamps
        BY <1>1, <3>1, <4>1 DEF ShutdownInv, Kinds, PublishKinds
      <4> QED BY <2>2, <4>2, <4>3
    <3>2. CASE q # r
      <4>1. q \in receivers \ publish.left /\ q \notin error \cup blind /\ shown'[q] = shown[q]
        BY <1>1, <2>3, <3>2 DEF ShutdownInv, Kinds, PublishKinds
      <4> QED BY <2>2, <4>1 DEF Showing
    <3> QED BY <3>1, <3>2
  <2>4. \A q \in (receivers \ left) \ (error' \cup blind') :
             shown'[q] = Lamps' /\ Lasting'
    BY <1>2, <2>3
  <2> HIDE DEF left
  <2>5. left \subseteq receivers
    BY <2>2 DEF left
  <2> QED BY <1>1, <1>2, <1>5, <1>7, <2>2, <2>4, <2>5 DEF ReceiversFollow, Showing
<1> QED BY <1>2, <1>3, <1>8

LEMMA DoneFollows == ASSUME IInv, Done PROVE FollowInv'
<1> USE DEF IInv, FollowInv
<1>1. /\ UNCHANGED <<air, timers, notices, publishers, shown, error, blind, receivers, export, wake,
                     unended>>
      /\ publish # None /\ publish.left # None /\ publish' = None
      /\ publish.left = {} \/ publish.left \ publish.made # {}
      /\ down' = IF down = "sending" THEN "dark" ELSE down
  BY DEF Done
<1>2. Typed' /\ EndsAreMet' /\ Lamps' = Lamps /\ (Lasting' <=> Lasting)
  <2>1. wake' \in BOOLEAN
    BY <1>1 DEF Typed, BusTyped, KeyTyped, EndTyped, LoopTyped
  <2> QED BY <1>1, <2>1, AirStays DEF export
<1>3. ExportFollows'
  BY <1>1, ExportStays
<1>4. ReceiversFollow'
  <2> SUFFICES ASSUME ~Coming' PROVE ReceiversFollow'
    BY DEF ReceiversFollow
  <2>1. ~Coming
    BY <1>1 DEF Coming
  <2>2. publish.left = {} /\ Showing(receivers \ publish.left)
    BY <1>1, <2>1 DEF ReceiversFollow
  <2>3. Showing(receivers)'
    BY <1>1, <1>2, <2>2 DEF Showing
  <2> QED BY <1>1, <2>3 DEF ReceiversFollow
<1> QED BY <1>2, <1>3, <1>4

\* The export's thread.
LEMMA RoundFollows == ASSUME IInv, Round PROVE FollowInv'
<1> USE DEF IInv, FollowInv
<1>1. /\ UNCHANGED <<air, timers, notices, publishers, service, receivers, down, wait, retry,
                     unended>>
      /\ thread' = [at |-> "send", closing |-> down = "closed"] /\ wake' = FALSE
  BY DEF Round, Clear
<1>2. Typed' /\ EndsAreMet'
  BY <1>1, AirStays
<1>3. ReceiversFollow'
  BY <1>1, ReceiversStay
<1>4. ExportFollows'
  BY <1>1 DEF ExportFollows, Sleeps
<1> QED BY <1>2, <1>3, <1>4

LEMMA ExportSendFollows ==
    ASSUME IInv, NEW ok \in BOOLEAN, ExportSend(ok) PROVE FollowInv'
<1> USE DEF IInv, FollowInv
<1>1. /\ UNCHANGED <<air, timers, notices, publishers, service, receivers, down, wake, unended>>
      /\ (~ok => retry = 0)
      /\ exported' = IF ok /\ retry = 0 THEN Lamps ELSE exported
      /\ retry' = IF ok THEN retry ELSE Backoff
      /\ failing' = (IF retry = 0 THEN ~ok ELSE failing)
      /\ wait' = IF ok /\ retry = 0 THEN NextSend ELSE Refresh
  BY DEF ExportSend, RetryAfter
<1>2. NextSend \in 0..Refresh /\ (mix # None => NextSend <= mix.left)
  <2>1. mix # None => mix.left \in Nat
    BY Ticks DEF Typed, BusTyped, Mixes
  <2> QED BY <2>1, Ticks DEF NextSend
<1>3. Typed'
  BY <1>1, <1>2, Ticks DEF Typed, BusTyped, KeyTyped, EndTyped, LoopTyped, air, unended
<1>4. EndsAreMet' /\ Lamps' = Lamps
  BY <1>1 DEF EndsAreMet, Lamps, air, unended
<1>5. ReceiversFollow'
  BY <1>1, ReceiversStay
<1>6. ExportFollows'
  <2>1. CASE ok /\ retry = 0
    <3>1. Told' /\ wait' = NextSend /\ mix' = mix
      BY <1>1, <1>4, <2>1 DEF Told, air
    <3> QED BY <1>2, <3>1 DEF ExportFollows
  <2>2. CASE retry # 0
    <3>1. failing' = TRUE
      BY <1>1, <2>2 DEF Typed, BusTyped, KeyTyped, EndTyped, LoopTyped, ShutdownInv, DarkExport,
         Kinds, ExportKinds
    <3> QED BY <3>1 DEF ExportFollows, Sleeps
  <2>3. CASE ~ok
    BY <1>1, <2>3 DEF ExportFollows, Sleeps
  <2> QED BY <2>1, <2>2, <2>3
<1> QED BY <1>3, <1>4, <1>5, <1>6

LEMMA WakeFollows == ASSUME IInv, Wake PROVE FollowInv'
<1> USE DEF IInv, FollowInv
<1>1. /\ UNCHANGED <<air, timers, notices, publishers, service, receivers, down, wait, retry, wake,
                     unended>>
      /\ thread' = [thread EXCEPT !.at = "begin"]
  BY DEF Wake
<1>2. Typed' /\ EndsAreMet'
  <2>1. wake' \in BOOLEAN
    BY <1>1 DEF Typed, BusTyped, KeyTyped, EndTyped, LoopTyped
  <2> QED BY <1>1, <2>1, AirStays
<1>3. ReceiversFollow'
  BY <1>1, ReceiversStay
<1>4. thread'.at = "begin"
  BY <1>1 DEF ShutdownInv, Kinds, ExportKinds
<1>5. ExportFollows'
  BY <1>4 DEF ExportFollows, Sleeps
<1> QED BY <1>2, <1>3, <1>5

\* The shutdown, and time.
LEMMA ShutDownFollows == ASSUME IInv, ShutDown PROVE FollowInv'
<1> USE DEF IInv, FollowInv
<1>1. /\ running' = FALSE /\ mix' = None /\ UNCHANGED <<program, key, export, wake>>
      /\ timers' = {} /\ down' = "stopped"
      /\ untimed' = Later(untimed, key.left) /\ cancelled' = (cancelled \/ key.left > 0)
  BY DEF ShutDown, Stopped, CancelTimers
<1>2. untimed \in Nat /\ key.left \in Nat
  BY Ticks DEF Typed, BusTyped, KeyTyped, EndTyped, LoopTyped
<1>3. untimed' \in Nat /\ key.left <= untimed'
  BY <1>1, <1>2, LaterIs
<1>4. Typed'
  BY <1>1, <1>3 DEF Typed, BusTyped, KeyTyped, EndTyped, LoopTyped, export
<1>5. EndsAreMet'
  BY <1>1, <1>3 DEF EndsAreMet
<1>6. ReceiversFollow' /\ ExportFollows'
  BY <1>1 DEF ReceiversFollow, Coming, ExportFollows, Sleeps
<1> QED BY <1>4, <1>5, <1>6

LEMMA DarkenFollows == ASSUME IInv, Darken PROVE FollowInv'
<1> USE DEF IInv, FollowInv
<1>1. /\ UNCHANGED <<air, timers, export, unended>>
      /\ down' = "waiting" /\ wake' = TRUE
  BY DEF Darken
<1>2. Typed' /\ EndsAreMet'
  BY <1>1, AirStays DEF export
<1>3. ReceiversFollow' /\ ExportFollows'
  BY <1>1 DEF ReceiversFollow, Coming, ExportFollows, Sleeps
<1> QED BY <1>2, <1>3

LEMMA CloseFollows == ASSUME IInv, Close PROVE FollowInv'
<1> USE DEF IInv, FollowInv
<1>1. /\ UNCHANGED <<air, notices, publishers, service, receivers, export>>
      /\ wake' = TRUE /\ down = "dark" /\ publish = None
      /\ timers' = {} /\ untimed' = Later(untimed, key.left)
      /\ cancelled' = (cancelled \/ key.left > 0)
  BY DEF Close, CloseWaits, CancelTimers
<1>2. untimed \in Nat /\ key.left \in Nat
  BY Ticks DEF Typed, BusTyped, KeyTyped, EndTyped, LoopTyped
<1>3. untimed' \in Nat /\ key.left <= untimed'
  BY <1>1, <1>2, LaterIs
<1>4. ~running /\ mix = None
  BY <1>1 DEF ShutdownInv, DarkReceivers, Typed, BusTyped
<1>5. Typed'
  BY <1>1, <1>3 DEF Typed, BusTyped, KeyTyped, EndTyped, LoopTyped, air, export
<1>6. EndsAreMet'
  BY <1>1, <1>3, <1>4 DEF EndsAreMet, air
<1>7. ReceiversFollow'
  <2>1. \A r \in receivers \ error : shown[r] = {}
    BY <1>1 DEF ShutdownInv, DarkReceivers, AllDark
  <2>2. Lamps' = {} /\ ~running'
    BY <1>1, <1>4 DEF Lamps, air
  <2>3. Showing(receivers)'
    BY <1>1, <2>1, <2>2 DEF Showing, Lasting, service
  <2> QED BY <1>1, <2>3 DEF ReceiversFollow, service
<1>8. ExportFollows'
  BY <1>1 DEF ExportFollows, Sleeps
<1> QED BY <1>5, <1>6, <1>7, <1>8

\* A tick: what ends with it had a timer, or ends untimed.
LEMMA TickFollows == ASSUME IInv, Tick PROVE FollowInv'
<1> USE DEF IInv, FollowInv
<1> DEFINE earlier(t) == [left |-> t.left - 1, export |-> t.export]
<1>1. /\ UNCHANGED <<running, program, notices, publishers, service, receivers, down, thread,
                     failing, wake, exported, cancelled>>
      /\ \A t \in timers : t.left > 0
      /\ ~(thread.at = "wait" /\ wait = 0)
      /\ mix' = IF mix = None \/ mix.left = 1 THEN None ELSE [mix EXCEPT !.left = @ - 1]
      /\ key' = [key EXCEPT !.left = Less(@)]
      /\ timers' = {[t EXCEPT !.left = @ - 1] : t \in timers}
      /\ wait' = Less(wait) /\ retry' = Less(retry) /\ untimed' = Less(untimed)
  BY DEF Tick
<1>2. \A t \in timers : /\ t.left \in 1..Later(MixTicks, FadeTicks) /\ t.export \in BOOLEAN
                        /\ [t EXCEPT !.left = @ - 1] = earlier(t)
  <2> TAKE t \in timers
  <2>1. t \in [left : 0..Later(MixTicks, FadeTicks), export : BOOLEAN]
    BY DEF Typed, BusTyped, KeyTyped, EndTyped, LoopTyped
  <2>2. t.left \in 0..Later(MixTicks, FadeTicks) /\ t.left > 0
    BY <1>1, <2>1
  <2>3. t = [left |-> t.left, export |-> t.export] /\ t.export \in BOOLEAN
    BY <2>1
  <2>4. [t EXCEPT !.left = @ - 1] = earlier(t)
    BY <2>3
  <2> QED BY <2>2, <2>3, <2>4, Ticks
<1>3. timers' = {earlier(t) : t \in timers}
  BY <1>1, <1>2
<1>4. \A t \in timers : earlier(t) \in [left : 0..Later(MixTicks, FadeTicks), export : BOOLEAN]
  <2> TAKE t \in timers
  <2> DEFINE n == Later(MixTicks, FadeTicks)
             i == t.left
  <2>1. n \in Nat /\ i \in 1..n /\ t.export \in BOOLEAN
    BY <1>2, Ticks
  <2>2. i - 1 \in 0..n
    <3> HIDE DEF n, i
    <3> QED BY <2>1
  <2> QED BY <2>1, <2>2
<1>5. /\ key'.on = key.on /\ key'.left = Less(key.left)
      /\ key' \in [on : BOOLEAN, left : 0..FadeTicks]
      /\ key.left \in 0..FadeTicks /\ (key.on => key.left = 0)
  BY <1>1, Ticks DEF Typed, BusTyped, KeyTyped, EndTyped, LoopTyped, Less
<1>6. mix' # None => /\ mix # None /\ mix.left > 1 /\ mix.left \in Nat /\ mix'.left = mix.left - 1
                     /\ mix'.out = mix.out /\ mix' \in Mixes
  BY <1>1, Ticks DEF Typed, BusTyped, KeyTyped, EndTyped, LoopTyped, Mixes
<1>7. mix # None /\ mix.left # 1 => mix' # None
  <2> SUFFICES ASSUME mix # None, mix.left # 1 PROVE mix' # None
    OBVIOUS
  <2>1. mix' \in Mixes
    BY <1>1, Ticks DEF Typed, BusTyped, KeyTyped, EndTyped, LoopTyped, Mixes
  <2> QED BY <2>1, TallyAssumption
<1>8. untimed \in Nat /\ untimed' \in Nat /\ (untimed > 0 => untimed' = untimed - 1)
      /\ (untimed = 0 => untimed' = 0)
  BY <1>1 DEF Typed, BusTyped, KeyTyped, EndTyped, LoopTyped, Less
<1>9. Typed'
  <2>1. timers' \subseteq [left : 0..Later(MixTicks, FadeTicks), export : BOOLEAN]
    BY <1>3, <1>4
  <2>2. wait' \in 0..Refresh /\ retry' \in 0..Backoff
    BY <1>1, Ticks DEF Typed, BusTyped, KeyTyped, EndTyped, LoopTyped, Less
  <2>3. KeyTyped'
    <3>1. key'.on => key'.left = 0
      BY <1>5 DEF Less
    <3> QED BY <1>5, <3>1 DEF KeyTyped
  <2>4. BusTyped'
    BY <1>1, <1>6 DEF Typed, BusTyped
  <2>5. EndTyped'
    BY <1>1, <1>8, <2>1 DEF Typed, EndTyped
  <2>6. LoopTyped'
    BY <1>1, <2>2 DEF Typed, LoopTyped
  <2> QED BY <2>3, <2>4, <2>5, <2>6 DEF Typed
<1>10. \A t \in timers : earlier(t) \in timers' /\ earlier(t).left = t.left - 1
                         /\ earlier(t).export = t.export
  BY <1>3
<1> HIDE DEF earlier
<1>11. EndsAreMet'
  <2>1. mix' # None => mix'.left <= untimed' \/ \E t \in timers' : t.left = mix'.left
    <3> SUFFICES ASSUME mix' # None
                 PROVE mix'.left <= untimed' \/ \E t \in timers' : t.left = mix'.left
      OBVIOUS
    <3>1. CASE mix.left <= untimed
      BY <1>6, <1>8, <3>1
    <3>2. ASSUME NEW t \in timers, t.left = mix.left PROVE earlier(t).left = mix'.left
      BY <1>6, <1>10, <3>2
    <3> QED BY <1>6, <1>10, <3>1, <3>2 DEF EndsAreMet
  <2> SUFFICES ASSUME key'.left > 0
               PROVE  /\ key'.left <= untimed' \/ \E t \in timers' : t.left = key'.left
                      /\ cancelled' \/ \E t \in timers' : t.export /\ t.left = key'.left
    BY <2>1 DEF EndsAreMet
  <2>2. key.left > 0 /\ key'.left = key.left - 1 /\ key.left \in Nat
    BY <1>5, Ticks DEF Less
  <2>3. ASSUME NEW t \in timers, t.left = key.left PROVE earlier(t).left = key'.left
    BY <1>10, <2>2, <2>3
  <2>4. key.left <= untimed => key'.left <= untimed'
    BY <1>8, <2>2
  <2>5. key'.left <= untimed' \/ \E t \in timers' : t.left = key'.left
    BY <1>10, <2>2, <2>3, <2>4 DEF EndsAreMet
  <2>6. cancelled' \/ \E t \in timers' : t.export /\ t.left = key'.left
    BY <1>1, <1>10, <2>2, <2>3 DEF EndsAreMet
  <2> QED BY <2>5, <2>6
<1>12. (mix # None => mix.left # 1) => (mix' # None <=> mix # None)
  BY <1>6, <1>7
<1>13. (mix # None => mix.left # 1) /\ key.left # 1 => Lamps' = Lamps
  <2> SUFFICES ASSUME mix # None => mix.left # 1, key.left # 1 PROVE Lamps' = Lamps
    OBVIOUS
  <2>1. key'.left > 0 <=> key.left > 0
    BY <1>5, Ticks DEF Less
  <2> QED BY <1>1, <1>5, <1>6, <1>12, <2>1 DEF Lamps
<1>14. ReceiversFollow'
  <2> SUFFICES ASSUME ~Coming' PROVE ReceiversFollow'
    BY DEF ReceiversFollow
  <2>1. ~Coming
    BY <1>1 DEF Coming
  <2>2. \A t \in timers : t.left # 1
    <3> SUFFICES ASSUME NEW t \in timers, t.left = 1 PROVE FALSE
      OBVIOUS
    <3>1. earlier(t) \in timers' /\ earlier(t).left = 0
      BY <1>10
    <3> QED BY <3>1 DEF Coming
  <2>3. Lasting => Lamps' = Lamps /\ Lasting'
    <3>1. CASE ~running
      BY <1>1, <3>1 DEF Lamps, Lasting
    <3>2. CASE untimed = 0
      <4>1. mix # None => mix.left # 1
        BY <2>2, <3>2 DEF EndsAreMet
      <4>2. key.left # 1
        BY <2>2, <3>2 DEF EndsAreMet
      <4> QED BY <1>8, <1>13, <3>2, <4>1, <4>2 DEF Lasting
    <3> QED BY <3>1, <3>2 DEF Lasting
  <2>4. ASSUME NEW rs, Showing(rs)
        PROVE \A r \in rs \ (error \cup blind)' : shown'[r] = Lamps' /\ Lasting'
    BY <1>1, <2>3, <2>4 DEF Showing, service
  <2>5. publish = None => Showing(receivers)'
    BY <1>1, <2>1, <2>4 DEF ReceiversFollow, Showing, service
  <2>6. publish # None /\ publish.left # None => Showing(receivers \ publish.left)'
    BY <1>1, <2>1, <2>4 DEF ReceiversFollow, Showing, service
  <2> QED BY <1>1, <2>1, <2>3, <2>5, <2>6 DEF ReceiversFollow, service
<1>15. ExportFollows'
  <2> SUFFICES ASSUME Sleeps' PROVE ExportFollows'
    BY DEF ExportFollows
  <2>1. Sleeps
    BY <1>1 DEF Sleeps
  <2>2. wait \in Nat /\ wait > 0 /\ wait' = wait - 1
    BY <1>1, <2>1, Ticks DEF Sleeps, Typed, BusTyped, KeyTyped, EndTyped, LoopTyped, Less
  <2>3. mix' # None => wait' <= mix'.left
    BY <1>6, <2>1, <2>2 DEF ExportFollows
  <2>4. ASSUME wait' > 0, \A t \in timers' : t.export => t.left > 0 PROVE Told'
    <3>1. Told
      BY <1>1, <2>1, <2>2 DEF ExportFollows
    <3>2. mix # None => mix.left # 1
      <4>1. mix # None => wait <= mix.left
        BY <2>1 DEF ExportFollows
      <4> QED BY <2>2, <2>4, <4>1
    <3>3. CASE cancelled
      <4>1. Lamps' \ {Key} = Lamps \ {Key}
        BY <1>1, <1>6, <1>12, <3>2 DEF Lamps
      <4> QED BY <1>1, <3>1, <3>3, <4>1 DEF Told
    <3>4. CASE ~cancelled
      <4>1. key.left # 1
        <5> SUFFICES ASSUME key.left = 1 PROVE FALSE
          OBVIOUS
        <5>1. PICK t \in timers : t.export /\ t.left = 1
          BY <3>4 DEF EndsAreMet
        <5>2. earlier(t) \in timers' /\ earlier(t).export /\ earlier(t).left = 0
          BY <1>10, <5>1
        <5> QED BY <2>4, <5>2
      <4>2. Lamps' = Lamps
        BY <1>13, <3>2, <4>1
      <4> QED BY <1>1, <3>1, <4>2 DEF Told
    <3> QED BY <3>3, <3>4
  <2> QED BY <2>3, <2>4 DEF ExportFollows
<1> QED BY <1>9, <1>11, <1>14, <1>15

LEMMA FollowStutters == ASSUME IInv, UNCHANGED vars PROVE FollowInv'
<1>1. UNCHANGED <<air, timers, notices, publishers, service, receivers, down, export, wake,
                  unended>>
  BY DEF vars
<1>2. Typed' /\ EndsAreMet'
  BY <1>1, AirStays DEF IInv, FollowInv, export, Typed, BusTyped, KeyTyped, EndTyped, LoopTyped
<1>3. ReceiversFollow' /\ ExportFollows'
  BY <1>1, ReceiversStay, ExportStays DEF IInv, FollowInv
<1> QED BY <1>2, <1>3 DEF FollowInv

LEMMA FollowNext == IInv /\ [Next]_vars => IInv'
<1>1. IInv /\ [Next]_vars => FollowInv'
  BY CallFollows, AnnounceFollows, TimerFollows, BeginFollows, TurnFollows, SendFollows,
     DoneFollows,
     RoundFollows, ExportSendFollows, WakeFollows, ShutDownFollows, DarkenFollows, CloseFollows,
     TickFollows, FollowStutters
  DEF Next, Service, Export
<1> QED BY <1>1, ShutdownNext DEF IInv

\* What is on air is shown: by each receiver once every publish is over, the outgoing source of a
\* mix or a fade off as soon as it ends, and at the calculator while its thread sleeps (tally.py
\* publish(), mixer.py _tally_again_at(), tally_export.py _run()).
THEOREM TallyHolds == Spec => []TallyInv
<1>1. IInv => TallyInv
  <2> SUFFICES ASSUME IInv PROVE TallyInv
    OBVIOUS
  <2>1. TypeOK
    <3>1. {t.left : t \in timers} \subseteq 0..Later(MixTicks, FadeTicks)
      BY DEF IInv, FollowInv, Typed, BusTyped, KeyTyped, EndTyped, LoopTyped
    <3> QED BY <3>1 DEF IInv, FollowInv, Typed, BusTyped, KeyTyped, EndTyped, LoopTyped, TypeOK,
       ShutdownInv, Kinds, PublishKinds, ExportKinds
  <2>2. ReceiversAgree
    <3>1. ASSUME Quiet PROVE ~Coming /\ publish = None
      BY <3>1 DEF Quiet, Coming
    <3> QED BY <3>1 DEF IInv, FollowInv, ReceiversFollow, ReceiversAgree, Showing
  <2>3. ExportIsAwake
    BY DEF IInv, FollowInv, ExportFollows, Sleeps, Told, ExportIsAwake
  <2> QED BY <2>1, <2>2, <2>3 DEF TallyInv
<1> QED BY <1>1, ShutdownInit, FollowInit, FollowNext, PTL DEF Spec, IInv

=============================================================================
