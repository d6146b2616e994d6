----------------------------- MODULE NmosProofs -----------------------------
(* What the two sides of the NMOS node promise.  The first part of the       *)
(* module is about NmosConnection, the second about NmosRegistration.        *)
(*                                                                           *)
(* What NmosConnection promises of IS-05, REST and the engine, for any       *)
(* number of inputs, essences, keyers, flows, times and REST calls: control  *)
(* and route agree, a restart brings back what was acknowledged, a scheduled *)
(* activation is armed, and the engine reads every key as it is routed.      *)
(*                                                                           *)
(* None of the four is inductive as it stands.  An input may disagree with   *)
(* its receivers while any call is changing it, but only until the call      *)
(* brings them in line: that is when it is stored and not yet synced         *)
(* (Agrees).  The keys are read from the moment on_ready has pushed them     *)
(* (KeysRead).  A restart recovers a receiver from the state file because    *)
(* what is saved agreed when it was saved (SavedWhenQuiet needs Agrees).     *)
EXTENDS NmosConnection, NmosRegistration, TLAPS

CallFields == {"at", "of", "keeps", "body", "routed"}

\* What a start found for the essences without a flow.
IsHint(hint) == \A r \in DOMAIN hint : r \in InputReceivers /\ hint[r] \in Flows

\* A REST call that read its input has what it read of every essence; one that
\* sends has what it sends; a start that binds group hints has what it binds.
CallsKnown ==
  /\ rest = [c \in Clients |-> rest[c]]
  /\ \A c \in Clients :
       /\ rest[c] = [x \in CallFields |-> rest[c][x]]
       /\ rest[c].at \in {"read", "stored", "push", "send"} => rest[c].of \in Inputs
       /\ rest[c].at = "read" => rest[c].keeps \in [Owns(rest[c].of) -> Flows \cup {None}]
       /\ rest[c].at = "send" => rest[c].body \in [Owns(rest[c].of) -> Flows \cup {None}]
       /\ rest[c].at = "bind" => IsHint(rest[c].body)

\* The state file.
SavedKnown ==
  /\ saved.live \subseteq Inputs /\ saved.keyers \subseteq Keyers
  /\ saved.route \in [InputReceivers -> Flows \cup {None}]
  /\ saved.active \in [Receivers -> Connections \cup {None}]

\* A call has stored the input of r and not yet brought its receivers in line.
Storing(r) == \E c \in Clients : rest[c].at = "stored" /\ rest[c].of = r[1]

Agrees ==
  \A r \in Present \cap InputReceivers :
    Storing(r) \/ (active[r] # None /\ (route[r] = Reads(active[r]) \/ r \in hinted))

KeysRead ==
  engine \in {"pushed", "ready"} => \A r \in (Present \cap KeyReceivers) \ unsent : IsRead(r)

Known == TypeOK /\ CallsKnown /\ SavedKnown
IInv == Known /\ Agrees /\ KeysRead /\ ScheduleIsArmed /\ SavedWhenQuiet

-----------------------------------------------------------------------------
(* The operators of the model *)

LEMMA ReadsType ==
  ASSUME NEW conn \in Connections
  PROVE  Reads(conn) \in Flows \cup {None} /\ conn # None /\ At(conn, None) # None
BY ConnectionAssumption DEF Reads, Connections, Parameters, At

LEMMA AtType ==
  ASSUME NEW conn \in Connections, NEW time \in Times \cup {None}
  PROVE  At(conn, time) \in Parameters /\ At(conn, time) # None /\ At(conn, time).at = time
BY ConnectionAssumption DEF Connections, Parameters, At

LEMMA StateOfType ==
  ASSUME NEW conn \in Connections
  PROVE  StateOf(conn) \in {"not_routed", "waiting", "no_signal", "running"}
BY DEF StateOf, Presence

LEMMA StagedOfType ==
  ASSUME TypeOK, NEW r \in Receivers
  PROVE  StagedOf(r) \in Parameters
<1>1. ActiveOf(r) \in Connections
  BY DEF ActiveOf, TypeOK, Empty, Connections
<1> QED BY <1>1, AtType DEF StagedOf, TypeOK

LEMMA Kinds ==
  ASSUME NEW r \in Receivers
  PROVE  /\ r \in InputReceivers => r[1] \in Inputs /\ r[1] \notin Keyers /\ r \notin KeyReceivers
         /\ r \in KeyReceivers => r[1] \in Keyers /\ r[1] \notin Inputs /\ r \notin InputReceivers
         /\ r \in InputReceivers \/ r \in KeyReceivers
BY ConnectionAssumption DEF Receivers, InputReceivers, KeyReceivers

\* What Push leaves: the types, and what the engine reads of the routes it got.
LEMMA PushType ==
  ASSUME TypeOK, NEW rs \in SUBSET Receivers, NEW to \in [Receivers -> Flows \cup {None}],
         Push(rs, to)
  PROVE  /\ missing' \subseteq Receivers /\ unsent' \subseteq Receivers
         /\ reader' \in [Receivers -> Flows \cup {None}]
<1>1. missing' \subseteq Receivers /\ unsent' \subseteq Receivers
  BY DEF Push, TypeOK, Receivers
<1>2. \A r \in Receivers : Readable(to[r]) \in Flows \cup {None}
  BY DEF Readable
<1> QED BY <1>1, <1>2 DEF Push, TypeOK

LEMMA PushReads ==
  ASSUME TypeOK, KeysRead, NEW rs \in SUBSET Receivers,
         NEW to \in [Receivers -> Flows \cup {None}], Push(rs, to),
         UNCHANGED <<live, keyers, engine>>,
         \A r \in KeyReceivers \cap rs : route'[r] = to[r],
         \A r \in KeyReceivers \ rs : route'[r] = route[r]
  PROVE  KeysRead'
<1> SUFFICES ASSUME engine \in {"pushed", "ready"},
                    NEW r \in Present \cap KeyReceivers, r \notin unsent'
             PROVE  IsRead(r)'
  BY DEF KeysRead, Present
<1>1. r \in Receivers
  BY DEF Present
<1>2. CASE r \in rs
  <2>1. PICK sent \in SUBSET rs :
          /\ reader' = [q \in Receivers |-> IF q \in sent THEN Readable(to[q]) ELSE reader[q]]
          /\ unsent' = (unsent \cup (rs \cap KeyReceivers)) \ sent
    BY DEF Push
  <2>2. r \in sent
    BY <1>2, <2>1
  <2>3. reader'[r] = Readable(to[r]) /\ (Waits(to[r]) => r \in missing')
    BY <1>1, <1>2, <2>1, <2>2 DEF Push
  <2> QED BY <1>2, <2>3 DEF IsRead, Readable
<1>3. CASE r \notin rs
  <2>1. r \notin unsent /\ reader'[r] = reader[r] /\ route'[r] = route[r]
    <3>1. PICK sent \in SUBSET rs :
            /\ reader' = [q \in Receivers |-> IF q \in sent THEN Readable(to[q]) ELSE reader[q]]
            /\ unsent' = (unsent \cup (rs \cap KeyReceivers)) \ sent
      BY DEF Push
    <3> QED BY <1>1, <1>3, <3>1
  <2>2. r \in missing => r \in missing'
    BY <1>3 DEF Push
  <2> QED BY <2>1, <2>2 DEF KeysRead, IsRead
<1> QED BY <1>2, <1>3

\* What is saved while inputs and receivers agree, a restart gives back.
LEMMA SavedIs ==
  ASSUME Known', Agrees', (saved = Document(active, route))'
  PROVE  SavedWhenQuiet'
<1> SUFFICES ASSUME NEW r \in Receivers, Quiet(r)'
             PROVE  /\ (r \in Present <=> r[1] \in saved.live \cup saved.keyers)'
                    /\ (r \in Present => Restored(r) = active[r])'
  BY DEF SavedWhenQuiet
<1>1. saved'.live = live' /\ saved'.keyers = keyers'
  BY DEF Document
<1>2. (r \in Present <=> r[1] \in saved.live \cup saved.keyers)'
  BY <1>1 DEF Present
<1>3. ASSUME (r \in Present)'  PROVE (Restored(r) = active[r])'
  <2>1. saved'.active[r] = active'[r]
    BY <1>3 DEF Document
  <2>2. CASE active'[r] # None
    BY <2>1, <2>2 DEF Restored
  <2>3. CASE active'[r] = None
    <3>1. ~Storing(r)'
      BY ConnectionAssumption DEF Storing, Quiet, Known
    <3>2. r \notin InputReceivers
      BY <1>3, <2>3, <3>1 DEF Agrees
    <3>3. r[1] \notin live'
      BY <3>2, Kinds DEF Known, TypeOK
    <3> QED BY <1>1, <2>1, <2>3, <3>3 DEF Restored
  <2> QED BY <2>2, <2>3
<1> QED BY <1>2, <1>3

\* What a step leaves alone keeps the state file's promise.
LEMMA SavedStays ==
  ASSUME SavedWhenQuiet, UNCHANGED <<live, keyers, active, saved>>,
         \A r \in Receivers : Quiet(r)' => Quiet(r)
  PROVE  SavedWhenQuiet'
BY DEF SavedWhenQuiet, Present, Restored

-----------------------------------------------------------------------------
(* The initial states *)

LEMMA InitInv == Init => IInv
<1> SUFFICES ASSUME Init PROVE IInv
  OBVIOUS
<1>1. TypeOK
  <2>1. subject \subseteq Receivers
    BY DEF Init, kSubset
  <2> QED BY <2>1 DEF Init, TypeOK, DiskStates, Idle
<1>2. CallsKnown
  BY DEF Init, CallsKnown, Idle, CallFields
<1>3. SavedKnown
  <2>1. live = {} /\ keyers = Keyers /\ saved = Document(active, route)
    BY DEF Init
  <2>2. \A r \in Receivers : active[r] = None /\ route[r] = None
    BY DEF Init
  <2>3. \A r \in InputReceivers : r \in Receivers
    BY DEF Receivers
  <2> QED BY <2>1, <2>2, <2>3 DEF SavedKnown, Document
<1>4. Agrees /\ KeysRead
  BY Kinds DEF Init, Agrees, KeysRead, Present
<1>5. ScheduleIsArmed
  BY DEF Init, ScheduleIsArmed
<1>6. SavedWhenQuiet
  <2>1. live = {} /\ keyers = Keyers /\ saved = Document(active, route)
    BY DEF Init
  <2>2. \A r \in Receivers : active[r] = None
    BY DEF Init
  <2> QED BY <2>1, <2>2 DEF SavedWhenQuiet, Document, Restored, Present
<1> QED BY <1>1, <1>2, <1>3, <1>4, <1>5, <1>6 DEF IInv, Known

-----------------------------------------------------------------------------
(* IS-05 *)

\* What only stages, schedules or answers changes neither routes nor calls.
LEMMA CallsStay ==
  ASSUME IInv,
         UNCHANGED <<live, keyers, route, missing, engine, reader, hinted, active, rest, saved, unsent>>
  PROVE  CallsKnown' /\ SavedKnown' /\ Agrees' /\ KeysRead' /\ SavedWhenQuiet'
<1>1. CallsKnown' /\ SavedKnown'
  BY DEF IInv, Known, CallsKnown, SavedKnown
<1>2. Agrees'
  BY DEF IInv, Agrees, Present, Storing
<1>3. KeysRead'
  BY DEF IInv, KeysRead, Present, IsRead
<1>4. SavedWhenQuiet'
  BY SavedStays DEF IInv, Quiet
<1> QED BY <1>1, <1>2, <1>3, <1>4

LEMMA AskPatchInv ==
  ASSUME IInv, NEW r \in Receivers, AskPatch(r)
  PROVE  IInv'
<1>1. UNCHANGED <<node, mixer, world, rest, saved, unsent>> /\ asked' = asked \cup {r}
  BY DEF AskPatch
<1>2. TypeOK'
  BY <1>1 DEF AskPatch, IInv, Known, TypeOK, node, mixer, world
<1>3. ScheduleIsArmed'
  BY <1>1 DEF IInv, ScheduleIsArmed, StagedOf, ActiveOf, node, mixer
<1> QED BY <1>1, <1>2, <1>3, CallsStay DEF IInv, Known, node, mixer

\* The connection that staged parameters ask for.
LEMMA ActivateTypes ==
  ASSUME IInv, NEW r \in Receivers, NEW conn \in Connections, Activate(r, conn),
         fired' \subseteq fired, asked' \subseteq asked
  PROVE  Known'
<1>1. TypeOK'
  <2>1. Reads(conn) \in Flows \cup {None} /\ At(conn, None) \in Parameters
    BY ReadsType, AtType
  <2>2. StateOf(conn) \in {"not_routed", "waiting", "no_signal", "running"}
    BY StateOfType
  <2>3. active' \in [Receivers -> Connections \cup {None}]
        /\ staged' \in [Receivers -> Parameters \cup {None}]
        /\ timer' \in [Receivers -> Times \cup {None}]
    BY <2>1 DEF Activate, IInv, Known, TypeOK
  <2>4. UNCHANGED <<live, keyers, engine, disk, subject, rest>>
    BY DEF Activate, world
  <2>5. /\ state' \in [Receivers -> {None, "not_routed", "waiting", "no_signal", "running"}]
        /\ route' \in [Receivers -> Flows \cup {None}]
        /\ missing' \subseteq Receivers /\ unsent' \subseteq Receivers
        /\ reader' \in [Receivers -> Flows \cup {None}] /\ hinted' \subseteq Receivers
    <3>1. CASE r \in Present
      <4> DEFINE to == [q \in Receivers |-> conn]
                 reads == [q \in Receivers |-> Reads(to[q])]
      <4>1. Apply({r}, to)
        BY <3>1 DEF Activate
      <4>2. reads \in [Receivers -> Flows \cup {None}] /\ {r} \in SUBSET Receivers
        BY <2>1
      <4>3. Push({r}, reads)
        BY <4>1 DEF Apply
      <4>4. state' = [q \in Receivers |-> IF q \in {r} THEN StateOf(to[q]) ELSE state[q]]
            /\ route' = [q \in Receivers |-> IF q \in {r} THEN Reads(to[q]) ELSE route[q]]
        BY <4>1 DEF Apply
      <4>5. missing' \subseteq Receivers /\ unsent' \subseteq Receivers
            /\ reader' \in [Receivers -> Flows \cup {None}]
        <5> HIDE DEF reads
        <5> QED BY <4>2, <4>3, PushType DEF IInv, Known
      <4>6. state' \in [Receivers -> {None, "not_routed", "waiting", "no_signal", "running"}]
            /\ route' \in [Receivers -> Flows \cup {None}] /\ hinted' \subseteq Receivers
        BY <4>1, <4>4, <2>1, <2>2 DEF Apply, IInv, Known, TypeOK
      <4> QED BY <4>5, <4>6
    <3>2. CASE r \notin Present
      BY <3>2 DEF Activate, IInv, Known, TypeOK
    <3> QED BY <3>1, <3>2
  <2> QED BY <2>3, <2>4, <2>5 DEF IInv, Known, TypeOK
<1>2. CallsKnown'
  BY DEF Activate, IInv, Known, CallsKnown
<1>3. SavedKnown'
  <2>1. CASE r \in Present
    <3>1. saved' = Document(active', route') /\ UNCHANGED <<live, keyers>>
      BY <2>1 DEF Activate
    <3>2. \A q \in InputReceivers : q \in Receivers
      BY DEF Receivers
    <3> QED BY <1>1, <3>1, <3>2 DEF SavedKnown, Document, TypeOK
  <2>2. CASE r \notin Present
    BY <2>2 DEF Activate, IInv, Known, SavedKnown
  <2> QED BY <2>1, <2>2
<1> QED BY <1>1, <1>2, <1>3 DEF Known

LEMMA ActivateInv ==
  ASSUME IInv, NEW r \in Receivers, NEW conn \in Connections, Activate(r, conn), Known'
  PROVE  Agrees' /\ KeysRead' /\ SavedWhenQuiet'
<1>1. /\ UNCHANGED <<live, keyers, engine, rest>> /\ Present' = Present
      /\ active' = [active EXCEPT ![r] = conn] /\ conn # None
  BY ReadsType DEF Activate, Present
<1>2. \A q \in Receivers : q # r => active'[q] = active[q]
  BY <1>1 DEF IInv, Known, TypeOK
<1>3. CASE r \in Present
  <2> DEFINE to == [q \in Receivers |-> conn]
             reads == [q \in Receivers |-> Reads(to[q])]
  <2>1. Apply({r}, to) /\ saved' = Document(active', route')
    BY <1>3 DEF Activate
  <2>2. reads \in [Receivers -> Flows \cup {None}] /\ {r} \in SUBSET Receivers
    BY ReadsType
  <2>3. Push({r}, reads)
    BY <2>1 DEF Apply
  <2>4. /\ \A q \in Receivers : route'[q] = IF q = r THEN Reads(conn) ELSE route[q]
        /\ hinted' = hinted \ {r}
    BY <2>1 DEF Apply
  <2>5. Agrees'
    BY <1>1, <1>2, <2>4 DEF IInv, Known, TypeOK, Agrees, Storing, Present
  <2>6. KeysRead'
    <3>1. \A q \in KeyReceivers : q \in Receivers
      BY DEF Receivers
    <3>2. /\ \A q \in KeyReceivers \cap {r} : route'[q] = reads[q]
          /\ \A q \in KeyReceivers \ {r} : route'[q] = route[q]
      BY <2>4, <3>1
    <3> HIDE DEF reads
    <3> QED BY <1>1, <2>2, <2>3, <3>2, PushReads DEF IInv, Known
  <2>7. (saved = Document(active, route))'
    BY <1>1, <2>1 DEF Document
  <2> QED BY <2>5, <2>6, <2>7, SavedIs
<1>4. CASE r \notin Present
  <2>1. UNCHANGED <<route, hinted, missing, reader, unsent, saved>>
    BY <1>4 DEF Activate
  <2>2. Agrees'
    BY <1>1, <1>2, <1>4, <2>1 DEF IInv, Agrees, Storing, Present
  <2>3. KeysRead'
    BY <1>1, <2>1 DEF IInv, KeysRead, IsRead
  <2>4. SavedWhenQuiet'
    BY <1>1, <1>2, <1>4, <2>1 DEF IInv, SavedWhenQuiet, Quiet, Restored
  <2> QED BY <2>2, <2>3, <2>4
<1> QED BY <1>3, <1>4

LEMMA AskedType ==
  ASSUME NEW conn \in Asked
  PROVE  conn \in Connections
BY DEF Asked

LEMMA StagesInv ==
  ASSUME IInv, NEW r \in Receivers, NEW conn \in Connections, NEW time \in Times \cup {None},
         Stages(r, conn, time), asked' \subseteq asked,
         timer' \in [Receivers -> Times \cup {None}],
         \A q \in Receivers : q # r => timer'[q] = timer[q],
         time # None => timer'[r] = time \/ <<r, time>> \in fired'
  PROVE  IInv'
<1>1. /\ UNCHANGED <<active, state, fired, live, keyers, route, missing, engine, reader, hinted,
                     disk, subject, rest, saved, unsent>>
      /\ staged' = [staged EXCEPT ![r] = At(conn, time)]
  BY DEF Stages, mixer, world
<1>2. At(conn, time) \in Parameters /\ At(conn, time).at = time
  BY AtType
<1>3. TypeOK'
  <2>1. staged' \in [Receivers -> Parameters \cup {None}]
    BY <1>1, <1>2 DEF IInv, Known, TypeOK
  <2>2. UNCHANGED <<active, state, fired, live, keyers, route, missing, engine, reader, hinted,
                    disk, subject, rest, saved, unsent>>
    BY <1>1
  <2> QED BY <2>1, <2>2 DEF IInv, Known, TypeOK
<1>4. ScheduleIsArmed'
  <2> SUFFICES ASSUME NEW q \in Receivers, staged'[q] # None, StagedOf(q)'.at # None
               PROVE  (timer[q] = StagedOf(q).at \/ <<q, StagedOf(q).at>> \in fired)'
    BY DEF ScheduleIsArmed
  <2>1. CASE q = r
    <3>1. StagedOf(q)'.at = time
      BY <1>1, <1>2, <2>1 DEF StagedOf, IInv, Known, TypeOK
    <3> QED BY <2>1, <3>1
  <2>2. CASE q # r
    <3>1. staged'[q] = staged[q] /\ timer'[q] = timer[q] /\ fired' = fired
      BY <1>1, <2>2 DEF IInv, Known, TypeOK
    <3>2. StagedOf(q)' = StagedOf(q)
      BY <3>1 DEF StagedOf
    <3> QED BY <3>1, <3>2 DEF IInv, ScheduleIsArmed
  <2> QED BY <2>1, <2>2
<1>5. CallsKnown' /\ SavedKnown' /\ Agrees' /\ KeysRead' /\ SavedWhenQuiet'
  BY <1>1, CallsStay
<1> QED BY <1>3, <1>4, <1>5 DEF IInv, Known

LEMMA PatchStagedInv ==
  ASSUME IInv, NEW r \in Receivers, NEW conn \in Asked, PatchStaged(r, conn)
  PROVE  IInv'
<1> DEFINE time == StagedOf(r).at
<1>1. time \in Times \cup {None}
  BY StagedOfType DEF IInv, Known, Parameters
<1>2. time # None => timer[r] = time \/ <<r, time>> \in fired
  <2>1. CASE staged[r] = None
    BY <2>1, AtType DEF StagedOf, ActiveOf, At, IInv, Known, TypeOK
  <2>2. CASE staged[r] # None
    BY <2>2 DEF IInv, ScheduleIsArmed
  <2> QED BY <2>1, <2>2
<1>3. Stages(r, conn, time) /\ UNCHANGED <<timer, fired>> /\ asked' \subseteq asked
  BY DEF PatchStaged, Served, Stages
<1>4. timer' \in [Receivers -> Times \cup {None}]
  BY <1>3 DEF IInv, Known, TypeOK
<1> HIDE DEF time
<1> QED BY <1>1, <1>2, <1>3, <1>4, AskedType, StagesInv

LEMMA PatchUnscheduledInv ==
  ASSUME IInv, NEW r \in Receivers, NEW conn \in Asked, PatchUnscheduled(r, conn)
  PROVE  IInv'
<1>1. Stages(r, conn, None) /\ UNCHANGED timer /\ asked' \subseteq asked
  BY DEF PatchUnscheduled, Served
<1>2. timer' \in [Receivers -> Times \cup {None}]
  BY <1>1 DEF IInv, Known, TypeOK
<1> QED BY <1>1, <1>2, AskedType, StagesInv

LEMMA PatchScheduledInv ==
  ASSUME IInv, NEW r \in Receivers, NEW conn \in Asked, NEW time \in Times,
         PatchScheduled(r, conn, time)
  PROVE  IInv'
<1>1. Stages(r, conn, time) /\ timer' = [timer EXCEPT ![r] = time] /\ asked' \subseteq asked
  BY DEF PatchScheduled, Served
<1>2. /\ timer' \in [Receivers -> Times \cup {None}] /\ timer'[r] = time
      /\ \A q \in Receivers : q # r => timer'[q] = timer[q]
  BY <1>1 DEF IInv, Known, TypeOK
<1> QED BY <1>1, <1>2, AskedType, StagesInv

\* What is active is not scheduled any more.
LEMMA ActivateArmed ==
  ASSUME IInv, NEW r \in Receivers, NEW conn \in Connections, Activate(r, conn),
         \A q \in Receivers, t \in Times : q # r /\ <<q, t>> \in fired => <<q, t>> \in fired'
  PROVE  ScheduleIsArmed'
<1> SUFFICES ASSUME NEW q \in Receivers, staged'[q] # None, StagedOf(q)'.at # None
             PROVE  (timer[q] = StagedOf(q).at \/ <<q, StagedOf(q).at>> \in fired)'
  BY DEF ScheduleIsArmed
<1>1. staged' = [staged EXCEPT ![r] = At(conn, None)] /\ timer' = [timer EXCEPT ![r] = None]
  BY DEF Activate
<1>2. q # r
  BY <1>1, AtType DEF StagedOf, IInv, Known, TypeOK
<1>3. staged'[q] = staged[q] /\ timer'[q] = timer[q]
  BY <1>1, <1>2 DEF IInv, Known, TypeOK
<1>4. StagedOf(q)' = StagedOf(q) /\ StagedOf(q).at \in Times
  BY <1>3, StagedOfType DEF StagedOf, IInv, Known, Parameters
<1> QED BY <1>2, <1>3, <1>4 DEF IInv, ScheduleIsArmed

LEMMA PatchImmediateInv ==
  ASSUME IInv, NEW r \in Receivers, NEW conn \in Asked, PatchImmediate(r, conn)
  PROVE  IInv'
<1>1. Activate(r, conn) /\ UNCHANGED fired /\ asked' \subseteq asked /\ conn \in Connections
  BY AskedType DEF PatchImmediate, Served
<1>2. Known'
  BY <1>1, ActivateTypes
<1>3. Agrees' /\ KeysRead' /\ SavedWhenQuiet'
  BY <1>1, <1>2, ActivateInv
<1>4. ScheduleIsArmed'
  BY <1>1, ActivateArmed
<1> QED BY <1>2, <1>3, <1>4 DEF IInv

LEMMA TimerDueInv ==
  ASSUME IInv, NEW r \in Receivers, TimerDue(r)
  PROVE  IInv'
<1>1. /\ UNCHANGED <<staged, active, state, mixer, world, asked, rest, saved, unsent>>
      /\ timer[r] # None /\ fired' = fired \cup {<<r, timer[r]>>}
      /\ timer' = [timer EXCEPT ![r] = None]
  BY DEF TimerDue
<1>2. TypeOK'
  BY <1>1 DEF IInv, Known, TypeOK, mixer, world
<1>3. ScheduleIsArmed'
  <2> SUFFICES ASSUME NEW q \in Receivers, staged'[q] # None, StagedOf(q)'.at # None
               PROVE  (timer[q] = StagedOf(q).at \/ <<q, StagedOf(q).at>> \in fired)'
    BY DEF ScheduleIsArmed
  <2>1. staged'[q] = staged[q] /\ StagedOf(q)' = StagedOf(q)
    BY <1>1 DEF StagedOf, ActiveOf
  <2>2. timer[q] = StagedOf(q).at \/ <<q, StagedOf(q).at>> \in fired
    BY <2>1 DEF IInv, ScheduleIsArmed
  <2>3. CASE q = r
    BY <1>1, <2>1, <2>2, <2>3
  <2>4. CASE q # r
    BY <1>1, <2>1, <2>2, <2>4 DEF IInv, Known, TypeOK
  <2> QED BY <2>3, <2>4
<1>4. CallsKnown' /\ SavedKnown' /\ Agrees' /\ KeysRead' /\ SavedWhenQuiet'
  BY <1>1, CallsStay DEF mixer
<1> QED BY <1>2, <1>3, <1>4 DEF IInv, Known

LEMMA FireInv ==
  ASSUME IInv, NEW r \in Receivers, NEW time \in Times, Fire(r, time)
  PROVE  IInv'
<1>1. fired' = fired \ {<<r, time>>} /\ UNCHANGED asked
  BY DEF Fire
<1>2. CASE staged[r] # None /\ StagedOf(r).at = time
  <2> DEFINE conn == [on |-> staged[r].on, flow |-> staged[r].flow]
  <2>1. conn \in Connections
    BY <1>2 DEF IInv, Known, TypeOK, Parameters, Connections
  <2>2. Activate(r, conn)
    BY <1>2 DEF Fire
  <2> HIDE DEF conn
  <2>3. Known'
    BY <1>1, <2>1, <2>2, ActivateTypes
  <2>4. Agrees' /\ KeysRead' /\ SavedWhenQuiet'
    BY <2>1, <2>2, <2>3, ActivateInv
  <2>5. ScheduleIsArmed'
    BY <1>1, <2>1, <2>2, ActivateArmed
  <2> QED BY <2>3, <2>4, <2>5 DEF IInv
<1>3. CASE ~(staged[r] # None /\ StagedOf(r).at = time)
  <2>1. UNCHANGED <<staged, active, timer, state, mixer, world, rest, saved, unsent>>
    BY <1>3 DEF Fire
  <2>2. TypeOK'
    BY <1>1, <2>1 DEF IInv, Known, TypeOK, mixer, world
  <2>3. ScheduleIsArmed'
    BY <1>1, <1>3, <2>1 DEF IInv, ScheduleIsArmed, StagedOf, ActiveOf
  <2>4. CallsKnown' /\ SavedKnown' /\ Agrees' /\ KeysRead' /\ SavedWhenQuiet'
    BY <2>1, CallsStay DEF mixer
  <2> QED BY <2>2, <2>3, <2>4 DEF IInv, Known
<1> QED BY <1>2, <1>3

LEMMA RefreshWaitingInv ==
  ASSUME IInv, RefreshWaiting
  PROVE  IInv'
<1> DEFINE seen == {r \in Present : /\ active[r] # None
                                    /\ state[r] \in {"waiting", "no_signal", "running"}}
           arrived == {r \in seen : state[r] = "waiting" /\ Presence(active[r].flow) # "waiting"}
           new == [r \in Receivers |-> IF r \in arrived THEN Reads(active[r]) ELSE route[r]]
<1>1. /\ UNCHANGED <<staged, active, timer, fired, live, keyers, engine, world, asked, rest, saved>>
      /\ route' = new /\ hinted' = hinted \ arrived /\ Push(arrived, new)
      /\ state' = [r \in Receivers |->
                    IF r \in arrived THEN StateOf(active[r])
                    ELSE IF r \in seen THEN Presence(active[r].flow) ELSE state[r]]
  BY DEF RefreshWaiting
<1>2. /\ arrived \subseteq Receivers /\ seen \subseteq Receivers
      /\ \A r \in seen : active[r] \in Connections
      /\ \A r \in arrived : active[r] # None /\ r \in seen
  BY DEF Present, IInv, Known, TypeOK
<1>3. new \in [Receivers -> Flows \cup {None}]
  BY <1>2, ReadsType DEF IInv, Known, TypeOK
<1>4. \A r \in Receivers : new[r] = IF r \in arrived THEN Reads(active[r]) ELSE route[r]
  OBVIOUS
<1>5. TypeOK'
  <2>1. \A r \in seen : /\ StateOf(active[r]) \in {"not_routed", "waiting", "no_signal", "running"}
                        /\ Presence(active[r].flow) \in {"waiting", "no_signal", "running"}
    BY <1>2, StateOfType DEF Presence
  <2>2. state' \in [Receivers -> {None, "not_routed", "waiting", "no_signal", "running"}]
    <3> HIDE DEF seen, arrived
    <3> QED BY <1>1, <1>2, <2>1 DEF IInv, Known, TypeOK
  <2> HIDE DEF new, arrived, seen
  <2>3. missing' \subseteq Receivers /\ unsent' \subseteq Receivers
        /\ reader' \in [Receivers -> Flows \cup {None}]
    BY <1>1, <1>2, <1>3, PushType DEF IInv, Known
  <2>4. UNCHANGED <<staged, active, timer, fired, live, keyers, engine, disk, subject, asked, rest>>
    BY <1>1 DEF world
  <2> QED BY <1>1, <1>3, <2>2, <2>3, <2>4 DEF IInv, Known, TypeOK
<1>6. CallsKnown' /\ SavedKnown'
  BY <1>1 DEF IInv, Known, CallsKnown, SavedKnown
<1> HIDE DEF new, arrived, seen
<1>7. Agrees'
  <2>1. UNCHANGED <<active, rest>> /\ Present' = Present
    BY <1>1 DEF Present
  <2>2. \A r \in Present : route'[r] = IF r \in arrived THEN Reads(active[r]) ELSE route[r]
    BY <1>1, <1>4 DEF Present
  <2> QED BY <1>1, <1>2, <2>1, <2>2 DEF IInv, Agrees, Storing
<1>8. KeysRead'
  <2>1. \A r \in KeyReceivers : r \in Receivers
    BY DEF Receivers
  <2>2. /\ \A r \in KeyReceivers \cap arrived : route'[r] = new[r]
        /\ \A r \in KeyReceivers \ arrived : route'[r] = route[r]
    BY <1>1, <1>4, <2>1
  <2> QED BY <1>1, <1>2, <1>3, <2>2, PushReads DEF IInv, Known
<1>9. ScheduleIsArmed' /\ SavedWhenQuiet'
  BY <1>1, SavedStays DEF IInv, ScheduleIsArmed, StagedOf, ActiveOf, Quiet
<1> QED BY <1>5, <1>6, <1>7, <1>8, <1>9 DEF IInv, Known

LEMMA AttachWaitingInv ==
  ASSUME IInv, NEW r \in Receivers, AttachWaiting(r)
  PROVE  IInv'
<1>1. UNCHANGED <<node, live, keyers, route, hinted, engine, world, asked, rest, saved>>
  BY DEF AttachWaiting
<1>2. /\ missing' \subseteq Receivers /\ unsent' \subseteq Receivers
      /\ reader' \in [Receivers -> Flows \cup {None}]
      /\ KeysRead'
  <2>1. CASE route[r] = None \/ r \notin Present
    <3>1. missing' = missing \ {r} /\ UNCHANGED <<reader, unsent>>
      BY <2>1 DEF AttachWaiting
    <3>2. KeysRead'
      BY <1>1, <2>1, <3>1 DEF IInv, KeysRead, Present, IsRead
    <3> QED BY <3>1, <3>2 DEF IInv, Known, TypeOK
  <2>2. CASE ~(route[r] = None \/ r \notin Present)
    <3>1. Push({r}, route) /\ route \in [Receivers -> Flows \cup {None}]
          /\ {r} \in SUBSET Receivers
      BY <2>2 DEF AttachWaiting, IInv, Known, TypeOK
    <3>2. KeysRead'
      BY <1>1, <3>1, PushReads DEF IInv, Known
    <3> QED BY <3>1, <3>2, PushType DEF IInv, Known
  <2> QED BY <2>1, <2>2
<1>3. TypeOK'
  BY <1>1, <1>2 DEF IInv, Known, TypeOK, node, world
<1>4. CallsKnown' /\ SavedKnown'
  BY <1>1 DEF IInv, Known, CallsKnown, SavedKnown
<1>5. Agrees'
  BY <1>1 DEF IInv, Agrees, Present, Storing, node
<1>6. ScheduleIsArmed' /\ SavedWhenQuiet'
  BY <1>1, SavedStays DEF IInv, ScheduleIsArmed, StagedOf, ActiveOf, Quiet, node
<1> QED BY <1>2, <1>3, <1>4, <1>5, <1>6 DEF IInv, Known

-----------------------------------------------------------------------------
(* REST calls, and the layout *)

\* A step of one call leaves the others as they are known.
LEMMA OneCall ==
  ASSUME CallsKnown, NEW c \in Clients, rest' = [d \in Clients |-> rest'[d]],
         \A d \in Clients : d # c => rest'[d] = rest[d],
         rest'[c] = [x \in CallFields |-> rest'[c][x]],
         rest'[c].at \in {"read", "stored", "push", "send"} => rest'[c].of \in Inputs,
         rest'[c].at = "read" => rest'[c].keeps \in [Owns(rest'[c].of) -> Flows \cup {None}],
         rest'[c].at = "send" => rest'[c].body \in [Owns(rest'[c].of) -> Flows \cup {None}],
         rest'[c].at = "bind" => IsHint(rest'[c].body)
  PROVE  CallsKnown'
<1> SUFFICES ASSUME NEW d \in Clients
             PROVE  /\ rest'[d] = [x \in CallFields |-> rest'[d][x]]
                    /\ rest'[d].at \in {"read", "stored", "push", "send"} => rest'[d].of \in Inputs
                    /\ rest'[d].at = "read" =>
                         rest'[d].keeps \in [Owns(rest'[d].of) -> Flows \cup {None}]
                    /\ rest'[d].at = "send" =>
                         rest'[d].body \in [Owns(rest'[d].of) -> Flows \cup {None}]
                    /\ rest'[d].at = "bind" => IsHint(rest'[d].body)
  BY DEF CallsKnown, Owns, IsHint
<1>1. CASE d = c
  BY <1>1
<1>2. CASE d # c
  BY <1>2 DEF CallsKnown
<1> QED BY <1>1, <1>2

\* A call that goes on to its next step changes no types.
LEMMA StepCalls ==
  ASSUME IInv, NEW c \in Clients, Step(c, "persist") \/ Step(c, "push"),
         rest[c].of \in Inputs \/ Step(c, "persist")
  PROVE  /\ CallsKnown'
         /\ \A d \in Clients : rest'[d].at \in {"idle", "read", "stored", "push", "send", "bind", "persist"}
         /\ \A d \in Clients : d # c => rest'[d] = rest[d]
         /\ rest'[c].at \in {"push", "persist"} /\ rest'[c].of = rest[c].of
<1> PICK to \in {"persist", "push"} : Step(c, to) /\ (to = "push" => rest[c].of \in Inputs)
  OBVIOUS
<1>1. rest' = [rest EXCEPT ![c].at = to]
  BY DEF Step
<1>2. \A d \in Clients : d # c => rest'[d] = rest[d]
  BY <1>1 DEF IInv, Known, CallsKnown
<1>3. rest'[c] = [rest[c] EXCEPT !.at = to]
  BY <1>1 DEF IInv, Known, CallsKnown
<1>4. /\ rest'[c].at = to /\ rest'[c].of = rest[c].of
      /\ rest'[c] = [x \in CallFields |-> rest'[c][x]]
  BY <1>3 DEF IInv, Known, CallsKnown, CallFields
<1>5. rest' = [d \in Clients |-> rest'[d]]
  BY <1>1 DEF IInv, Known, CallsKnown
<1>6. CallsKnown'
  BY <1>2, <1>4, <1>5, OneCall DEF IInv, Known
<1> QED BY <1>2, <1>4, <1>6 DEF IInv, Known, TypeOK

LEMMA RestReadInv ==
  ASSUME IInv, NEW c \in Clients, NEW i \in Inputs, RestRead(c, i)
  PROVE  IInv'
<1> DEFINE call == [Idle EXCEPT !.at = "read", !.of = i, !.keeps = [r \in Owns(i) |-> route[r]]]
<1>1. /\ rest' = [rest EXCEPT ![c] = call] /\ rest[c] = Idle
      /\ UNCHANGED <<node, mixer, world, asked, saved, unsent>>
  BY DEF RestRead
<1>2. /\ call.at = "read" /\ call.of = i /\ call = [x \in CallFields |-> call[x]]
      /\ call.keeps \in [Owns(call.of) -> Flows \cup {None}]
  BY DEF Idle, CallFields, Owns, IInv, Known, TypeOK
<1> HIDE DEF call
<1>3. /\ rest' = [d \in Clients |-> rest'[d]] /\ rest'[c] = call
      /\ \A d \in Clients : d # c => rest'[d] = rest[d]
  BY <1>1 DEF IInv, Known, CallsKnown
<1>4. TypeOK'
  BY <1>1, <1>2, <1>3 DEF IInv, Known, TypeOK, node, mixer, world
<1>5. CallsKnown'
  BY <1>2, <1>3, OneCall DEF IInv, Known
<1>6. SavedKnown'
  BY <1>1 DEF IInv, Known, SavedKnown
<1>7. Agrees'
  <2>1. \A r \in Receivers : Storing(r) => Storing(r)'
    BY <1>1, <1>3 DEF Storing, Idle
  <2> QED BY <1>1, <2>1 DEF IInv, Agrees, Present, node, mixer
<1>8. KeysRead' /\ ScheduleIsArmed'
  BY <1>1 DEF IInv, KeysRead, Present, IsRead, ScheduleIsArmed, StagedOf, ActiveOf, node, mixer
<1>9. SavedWhenQuiet'
  <2>1. \A r \in Receivers : Quiet(r)' => Quiet(r)
    BY <1>1, <1>3 DEF Quiet, Idle
  <2> QED BY <1>1, <2>1, SavedStays DEF IInv, node, mixer
<1> QED BY <1>4, <1>5, <1>6, <1>7, <1>8, <1>9 DEF IInv, Known

LEMMA RestStoreInv ==
  ASSUME IInv, NEW c \in Clients, NEW patch, RestStore(c, patch),
         \A r \in DOMAIN patch : patch[r] \in Flows \cup {None}
  PROVE  IInv'
<1> DEFINE i == rest[c].of
           routed == DOMAIN patch # {}
<1>1. /\ rest[c].at = "read" /\ i \in Inputs /\ live' = live \cup {i}
      /\ rest' = [rest EXCEPT ![c].at = "stored", ![c].routed = routed]
      /\ UNCHANGED <<node, keyers, missing, engine, reader, hinted, world, asked, saved, unsent>>
  BY DEF RestStore, IInv, Known, CallsKnown
<1>2. \A r \in Receivers : r[1] # i => route'[r] = route[r]
  BY DEF RestStore, Owns
<1>3. route' \in [Receivers -> Flows \cup {None}]
  <2>1. rest[c].keeps \in [Owns(i) -> Flows \cup {None}]
    BY <1>1 DEF IInv, Known, CallsKnown
  <2>2. route' = [r \in Receivers |->
                    IF r \in DOMAIN patch THEN patch[r]
                    ELSE IF r \in Owns(i) THEN rest[c].keeps[r] ELSE route[r]]
    BY DEF RestStore
  <2> QED BY <2>1, <2>2 DEF IInv, Known, TypeOK
<1> HIDE DEF routed
<1>4. /\ rest' = [d \in Clients |-> rest'[d]]
      /\ rest'[c] = [rest[c] EXCEPT !.at = "stored", !.routed = routed]
      /\ \A d \in Clients : d # c => rest'[d] = rest[d]
  BY <1>1 DEF IInv, Known, CallsKnown
<1>5. /\ rest'[c].at = "stored" /\ rest'[c].of = i
      /\ rest'[c] = [x \in CallFields |-> rest'[c][x]]
  BY <1>4 DEF IInv, Known, CallsKnown, CallFields
<1>6. TypeOK'
  BY <1>1, <1>3, <1>4, <1>5 DEF IInv, Known, TypeOK, node, world
<1>7. CallsKnown'
  BY <1>1, <1>4, <1>5, OneCall DEF IInv, Known
<1>8. SavedKnown'
  BY <1>1 DEF IInv, Known, SavedKnown
<1>9. Agrees'
  <2> SUFFICES ASSUME NEW r \in Present' \cap InputReceivers
               PROVE  Storing(r)' \/ (active[r] # None /\ (route[r] = Reads(active[r]) \/ r \in hinted))'
    BY DEF Agrees
  <2>1. CASE r[1] = i
    BY <1>5, <2>1 DEF Storing
  <2>2. CASE r[1] # i
    <3>1. r \in Present /\ route'[r] = route[r] /\ active'[r] = active[r]
      BY <1>1, <1>2, <2>2 DEF Present, node
    <3>2. Storing(r) => Storing(r)'
      BY <1>1, <1>4 DEF Storing
    <3> QED BY <1>1, <3>1, <3>2 DEF IInv, Agrees
  <2> QED BY <2>1, <2>2
<1>10. KeysRead'
  <2>1. \A r \in KeyReceivers : r \in Receivers /\ r[1] # i
    BY <1>1, Kinds DEF Receivers
  <2>2. \A r \in KeyReceivers : r \in Present' => r \in Present
    BY <1>1, <2>1 DEF Present
  <2> QED BY <1>1, <1>2, <2>1, <2>2 DEF IInv, KeysRead, IsRead
<1>11. ScheduleIsArmed'
  BY <1>1 DEF IInv, ScheduleIsArmed, StagedOf, ActiveOf, node
<1>12. SavedWhenQuiet'
  <2> SUFFICES ASSUME NEW r \in Receivers, Quiet(r)'
               PROVE  /\ (r \in Present <=> r[1] \in saved.live \cup saved.keyers)'
                      /\ (r \in Present => Restored(r) = active[r])'
    BY DEF SavedWhenQuiet
  <2>1. r[1] # i
    BY <1>5 DEF Quiet
  <2>2. Quiet(r)
    BY <1>1, <1>4, <1>5, <2>1 DEF Quiet
  <2> QED BY <1>1, <2>1, <2>2 DEF IInv, SavedWhenQuiet, Present, Restored, node
<1> QED BY <1>6, <1>7, <1>8, <1>9, <1>10, <1>11, <1>12 DEF IInv, Known

LEMMA SyncedTypes ==
  ASSUME TypeOK, NEW ins \in SUBSET Inputs, NEW routes \in [Receivers -> Flows \cup {None}]
  PROVE  /\ Synced(ins, routes).active \in [Receivers -> Connections \cup {None}]
         /\ Synced(ins, routes).staged \in [Receivers -> Parameters \cup {None}]
         /\ Synced(ins, routes).state
              \in [Receivers -> {None, "not_routed", "waiting", "no_signal", "running"}]
         /\ \A r \in Receivers : r[1] \notin ins =>
              /\ Synced(ins, routes).active[r] = active[r]
              /\ Synced(ins, routes).staged[r] = staged[r]
         /\ \A r \in Receivers : r[1] \in ins =>
              /\ Synced(ins, routes).active[r] # None
              /\ Reads(Synced(ins, routes).active[r]) = routes[r]
              /\ Synced(ins, routes).staged[r].at = None
<1> DEFINE conn(r) == [on |-> routes[r] # None, flow |-> routes[r]]
<1>1. \A r \in Receivers : conn(r) \in Connections /\ Reads(conn(r)) = routes[r]
  BY DEF Connections, Reads
<1>2. \A r \in Receivers : /\ conn(r) # None /\ At(conn(r), None) \in Parameters
                           /\ At(conn(r), None).at = None
                           /\ StateOf(conn(r)) \in {"not_routed", "waiting", "no_signal", "running"}
  BY <1>1, ReadsType, AtType, StateOfType
<1>3. \A r \in Receivers : r \in UNION {Owns(i) : i \in ins} <=> r[1] \in ins
  BY DEF Owns
<1>4. /\ Synced(ins, routes).active =
           [r \in Receivers |-> IF r[1] \in ins THEN conn(r) ELSE active[r]]
      /\ Synced(ins, routes).staged =
           [r \in Receivers |-> IF r[1] \in ins THEN At(conn(r), None) ELSE staged[r]]
      /\ Synced(ins, routes).state =
           [r \in Receivers |-> IF r[1] \in ins THEN StateOf(conn(r)) ELSE state[r]]
  BY <1>3 DEF Synced
<1> HIDE DEF conn
<1> QED BY <1>1, <1>2, <1>4 DEF TypeOK

LEMMA SyncedArmed ==
  ASSUME IInv, Known', UNCHANGED <<timer, fired>>,
         \A r \in Receivers : staged'[r] # None /\ staged'[r].at # None => staged'[r] = staged[r]
  PROVE  ScheduleIsArmed'
BY DEF IInv, ScheduleIsArmed, StagedOf

LEMMA RestSyncInv ==
  ASSUME IInv, NEW c \in Clients, RestSync(c)
  PROVE  IInv'
<1> DEFINE i == rest[c].of
<1>1. /\ rest[c].at = "stored" /\ i \in Inputs
      /\ UNCHANGED <<live, keyers, route, missing, engine, reader, world, asked, saved, unsent,
                     timer, fired>>
      /\ hinted' = hinted \ Owns(i)
      /\ Step(c, "push") \/ Step(c, "persist")
  BY DEF RestSync, Becomes, IInv, Known, CallsKnown
<1>2. /\ CallsKnown'
      /\ \A d \in Clients : rest'[d].at \in {"idle", "read", "stored", "push", "send", "bind", "persist"}
      /\ \A d \in Clients : d # c => rest'[d] = rest[d]
      /\ rest'[c].at \in {"push", "persist"} /\ rest'[c].of = i
  BY <1>1, StepCalls
<1>3. /\ active' \in [Receivers -> Connections \cup {None}]
      /\ staged' \in [Receivers -> Parameters \cup {None}]
      /\ state' \in [Receivers -> {None, "not_routed", "waiting", "no_signal", "running"}]
      /\ \A r \in Receivers : r[1] # i => active'[r] = active[r] /\ staged'[r] = staged[r]
      /\ \A r \in Receivers : r[1] = i /\ i \in live =>
           active'[r] # None /\ Reads(active'[r]) = route[r] /\ staged'[r].at = None
      /\ i \notin live => UNCHANGED <<active, staged, state>>
  <2>1. CASE i \in live
    <3>1. /\ active' = Synced({i}, route).active /\ staged' = Synced({i}, route).staged
          /\ state' = Synced({i}, route).state
      BY <2>1 DEF RestSync, Becomes
    <3>2. {i} \in SUBSET Inputs /\ route \in [Receivers -> Flows \cup {None}] /\ TypeOK
      BY <1>1 DEF IInv, Known, TypeOK
    <3>3. /\ Synced({i}, route).active \in [Receivers -> Connections \cup {None}]
          /\ Synced({i}, route).staged \in [Receivers -> Parameters \cup {None}]
          /\ Synced({i}, route).state
               \in [Receivers -> {None, "not_routed", "waiting", "no_signal", "running"}]
          /\ \A r \in Receivers : r[1] \notin {i} =>
               /\ Synced({i}, route).active[r] = active[r]
               /\ Synced({i}, route).staged[r] = staged[r]
          /\ \A r \in Receivers : r[1] \in {i} =>
               /\ Synced({i}, route).active[r] # None
               /\ Reads(Synced({i}, route).active[r]) = route[r]
               /\ Synced({i}, route).staged[r].at = None
      BY <3>2, SyncedTypes
    <3> HIDE DEF i
    <3> QED BY <2>1, <3>1, <3>3
  <2>2. CASE i \notin live
    BY <2>2 DEF RestSync, Becomes, IInv, Known, TypeOK
  <2> QED BY <2>1, <2>2
<1>4. TypeOK'
  BY <1>1, <1>2, <1>3 DEF IInv, Known, TypeOK, world
<1>5. SavedKnown'
  BY <1>1 DEF IInv, Known, SavedKnown
<1>6. Agrees'
  <2> SUFFICES ASSUME NEW r \in Present \cap InputReceivers
               PROVE  Storing(r)' \/ (active[r] # None /\ (route[r] = Reads(active[r]) \/ r \in hinted))'
    BY <1>1 DEF Agrees, Present
  <2>1. r \in Receivers /\ route' = route /\ r[1] \in live
    BY <1>1, Kinds DEF Present, mixer, IInv, Known, TypeOK
  <2>2. CASE r[1] = i
    BY <1>3, <2>1, <2>2
  <2>3. CASE r[1] # i
    <3>1. Storing(r) => Storing(r)'
      BY <1>2, <2>3 DEF Storing
    <3> QED BY <1>1, <1>3, <2>1, <2>3, <3>1 DEF IInv, Agrees, Owns
  <2> QED BY <2>2, <2>3
<1>7. KeysRead'
  BY <1>1 DEF IInv, KeysRead, Present, IsRead
<1>8. ScheduleIsArmed'
  BY <1>1, <1>2, <1>3, <1>4, <1>5, SyncedArmed DEF Known
<1>9. SavedWhenQuiet'
  <2> SUFFICES ASSUME NEW r \in Receivers, Quiet(r)'
               PROVE  /\ (r \in Present <=> r[1] \in saved.live \cup saved.keyers)'
                      /\ (r \in Present => Restored(r) = active[r])'
    BY DEF SavedWhenQuiet
  <2>1. r[1] # i
    BY <1>2 DEF Quiet
  <2>2. Quiet(r)
    BY <1>1, <1>2, <2>1, ConnectionAssumption DEF Quiet
  <2>3. active'[r] = active[r]
    BY <1>3, <2>1
  <2> QED BY <1>1, <2>2, <2>3 DEF IInv, SavedWhenQuiet, Present, Restored
<1> QED BY <1>2, <1>4, <1>5, <1>6, <1>7, <1>8, <1>9 DEF IInv, Known

\* A call that goes on without changing an input, or its routes, or the file.
LEMMA CallGoesOn ==
  ASSUME IInv, TypeOK', CallsKnown', NEW c \in Clients, rest[c].at # "stored",
         \A d \in Clients : d # c => rest'[d] = rest[d],
         (rest'[c].at \notin {"idle", "bind"} /\ rest'[c].of = rest[c].of) \/ rest[c].at = "idle",
         UNCHANGED <<node, live, keyers, route, hinted, saved>>
  PROVE  Known' /\ Agrees' /\ ScheduleIsArmed' /\ SavedWhenQuiet'
<1>1. Known'
  BY DEF IInv, Known, SavedKnown
<1>2. \A r \in Receivers : (Quiet(r)' => Quiet(r)) /\ (Storing(r) => Storing(r)')
  BY DEF Quiet, Storing
<1>3. Agrees'
  BY <1>2 DEF IInv, Agrees, Present, node
<1>4. ScheduleIsArmed'
  BY DEF IInv, ScheduleIsArmed, StagedOf, ActiveOf, node
<1>5. SavedWhenQuiet'
  BY <1>2, SavedStays DEF IInv, node
<1> QED BY <1>1, <1>3, <1>4, <1>5

LEMMA RestPushInv ==
  ASSUME IInv, NEW c \in Clients, RestPush(c)
  PROVE  IInv'
<1> DEFINE i == rest[c].of
           body == [r \in Owns(i) |-> route[r]]
<1>1. /\ rest[c].at = "push" /\ i \in Inputs
      /\ rest' = [rest EXCEPT ![c].at = "send", ![c].body = body]
      /\ UNCHANGED <<node, mixer, world, asked, saved, unsent>>
  BY DEF RestPush, IInv, Known, CallsKnown
<1>2. body \in [Owns(i) -> Flows \cup {None}]
  BY DEF Owns, IInv, Known, TypeOK
<1> HIDE DEF body
<1>3. /\ rest' = [d \in Clients |-> rest'[d]]
      /\ rest'[c] = [rest[c] EXCEPT !.at = "send", !.body = body]
      /\ \A d \in Clients : d # c => rest'[d] = rest[d]
  BY <1>1 DEF IInv, Known, CallsKnown
<1>4. /\ rest'[c].at = "send" /\ rest'[c].of = i /\ rest'[c].body = body
      /\ rest'[c] = [x \in CallFields |-> rest'[c][x]]
  BY <1>3 DEF IInv, Known, CallsKnown, CallFields
<1>5. TypeOK'
  BY <1>1, <1>3, <1>4 DEF IInv, Known, TypeOK, node, mixer, world
<1>6. CallsKnown'
  <2>1. rest'[c].body \in [Owns(rest'[c].of) -> Flows \cup {None}]
    BY <1>2, <1>4
  <2>2. rest'[c].at # "read" /\ rest'[c].of \in Inputs
    BY <1>1, <1>4
  <2> QED BY <1>3, <1>4, <2>1, <2>2, OneCall DEF IInv, Known
<1>7. KeysRead'
  BY <1>1 DEF IInv, KeysRead, Present, IsRead, mixer
<1>8. Known' /\ Agrees' /\ ScheduleIsArmed' /\ SavedWhenQuiet'
  BY <1>1, <1>3, <1>4, <1>5, <1>6, CallGoesOn DEF mixer
<1> QED BY <1>7, <1>8 DEF IInv

LEMMA RestSendInv ==
  ASSUME IInv, NEW c \in Clients, RestSend(c)
  PROVE  IInv'
<1> DEFINE i == rest[c].of
           to == [r \in Receivers |-> IF r[1] = i THEN rest[c].body[r] ELSE None]
<1>1. /\ rest[c].at = "send" /\ i \in Inputs /\ Push(Owns(i), to) /\ Step(c, "persist")
      /\ rest[c].body \in [Owns(i) -> Flows \cup {None}]
      /\ UNCHANGED <<node, live, keyers, route, hinted, engine, world, asked, saved>>
  BY DEF RestSend, IInv, Known, CallsKnown
<1>2. to \in [Receivers -> Flows \cup {None}] /\ Owns(i) \subseteq Receivers
  BY <1>1 DEF Owns
<1>3. /\ CallsKnown'
      /\ \A d \in Clients : rest'[d].at \in {"idle", "read", "stored", "push", "send", "bind", "persist"}
      /\ \A d \in Clients : d # c => rest'[d] = rest[d]
      /\ rest'[c].at \in {"push", "persist"} /\ rest'[c].of = i
  BY <1>1, StepCalls
<1> HIDE DEF to
<1>4. missing' \subseteq Receivers /\ unsent' \subseteq Receivers
      /\ reader' \in [Receivers -> Flows \cup {None}]
  BY <1>1, <1>2, PushType DEF IInv, Known
<1>5. TypeOK'
  BY <1>1, <1>3, <1>4 DEF IInv, Known, TypeOK, node, world
<1>6. KeysRead'
  <2>1. \A r \in KeyReceivers : r \notin Owns(i)
    BY <1>1, Kinds DEF Owns, Receivers
  <2> QED BY <1>1, <1>2, <2>1, PushReads DEF IInv, Known
<1>7. Known' /\ Agrees' /\ ScheduleIsArmed' /\ SavedWhenQuiet'
  BY <1>1, <1>3, <1>5, CallGoesOn
<1> QED BY <1>6, <1>7 DEF IInv

LEMMA RestPersistInv ==
  ASSUME IInv, NEW c \in Clients, RestPersist(c)
  PROVE  IInv'
<1>1. /\ rest[c].at = "persist" /\ rest' = [rest EXCEPT ![c] = Idle]
      /\ saved' = Document(active, route) /\ UNCHANGED <<node, mixer, world, asked, unsent>>
  BY DEF RestPersist
<1>2. /\ rest' = [d \in Clients |-> rest'[d]] /\ rest'[c] = Idle
      /\ \A d \in Clients : d # c => rest'[d] = rest[d]
  BY <1>1 DEF IInv, Known, CallsKnown
<1>3. Idle.at = "idle" /\ Idle = [x \in CallFields |-> Idle[x]]
  BY DEF Idle, CallFields
<1>4. TypeOK'
  BY <1>1, <1>2, <1>3 DEF IInv, Known, TypeOK, node, mixer, world
<1>5. CallsKnown'
  BY <1>2, <1>3, OneCall DEF IInv, Known
<1>6. SavedKnown'
  <2>1. \A q \in InputReceivers : q \in Receivers
    BY DEF Receivers
  <2> QED BY <1>1, <2>1 DEF SavedKnown, Document, IInv, Known, TypeOK
<1>7. Agrees'
  <2>1. \A r \in Receivers : Storing(r) => Storing(r)'
    BY <1>1, <1>2 DEF Storing
  <2> QED BY <1>1, <2>1 DEF IInv, Agrees, Present, node, mixer
<1>8. KeysRead' /\ ScheduleIsArmed'
  BY <1>1 DEF IInv, KeysRead, Present, IsRead, ScheduleIsArmed, StagedOf, ActiveOf, node, mixer
<1>9. (saved = Document(active, route))'
  BY <1>1 DEF Document, Present, node, mixer
<1> QED BY <1>4, <1>5, <1>6, <1>7, <1>8, <1>9, SavedIs DEF IInv, Known

\* While a call changes the layout, no receiver is quiet.
LEMMA LayoutChanges ==
  ASSUME IInv, NEW c \in Clients, rest[c] = Idle, Step(c, "persist"), UNCHANGED saved
  PROVE  /\ CallsKnown' /\ SavedKnown' /\ SavedWhenQuiet'
         /\ \A d \in Clients : rest'[d].at \in {"idle", "read", "stored", "push", "send", "bind", "persist"}
         /\ \A r \in Receivers : Storing(r) => Storing(r)'
<1>1. /\ CallsKnown'
      /\ \A d \in Clients : rest'[d].at \in {"idle", "read", "stored", "push", "send", "bind", "persist"}
      /\ \A d \in Clients : d # c => rest'[d] = rest[d]
      /\ rest'[c].at \in {"push", "persist"} /\ rest'[c].of = rest[c].of
  BY StepCalls
<1>2. rest[c].of = None /\ rest[c].at = "idle"
  BY DEF Idle
<1>3. \A r \in Receivers : ~Quiet(r)'
  BY <1>1, <1>2 DEF Quiet
<1>4. \A r \in Receivers : Storing(r) => Storing(r)'
  BY <1>1, <1>2 DEF Storing
<1>5. SavedKnown'
  BY DEF IInv, Known, SavedKnown
<1>6. SavedWhenQuiet'
  BY <1>3 DEF SavedWhenQuiet
<1> QED BY <1>1, <1>4, <1>5, <1>6

LEMMA DroppedTypes ==
  ASSUME NEW now, NEW rs \in SUBSET Receivers,
         now.active \in [Receivers -> Connections \cup {None}],
         now.staged \in [Receivers -> Parameters \cup {None}],
         now.state \in [Receivers -> {None, "not_routed", "waiting", "no_signal", "running"}]
  PROVE  /\ Dropped(now, rs).active \in [Receivers -> Connections \cup {None}]
         /\ Dropped(now, rs).staged \in [Receivers -> Parameters \cup {None}]
         /\ Dropped(now, rs).state
              \in [Receivers -> {None, "not_routed", "waiting", "no_signal", "running"}]
         /\ \A r \in Receivers : IF r \in rs THEN Dropped(now, rs).staged[r] = None
              ELSE /\ Dropped(now, rs).active[r] = now.active[r]
                   /\ Dropped(now, rs).staged[r] = now.staged[r]
BY DEF Dropped

LEMMA RelayoutInv ==
  ASSUME IInv, NEW c \in Clients, NEW ins \in SUBSET Inputs, NEW ks \in SUBSET Keyers,
         Relayout(c, ins, ks)
  PROVE  IInv'
<1> DEFINE routes == [r \in Receivers |-> IF r[1] \in live THEN route[r] ELSE None]
           sync == Synced(ins, routes)
           gone == {r \in Receivers : r[1] \notin ins \cup ks}
           rs == {r \in gone : active[r] # None \/ \E q \in Owns(r[1]) : state[q] # None}
<1>1. /\ rest[c] = Idle /\ engine = "off" /\ live' = ins /\ keyers' = ks
      /\ route' = [r \in Receivers |-> IF r[1] \in (ins \cap live) \cup (ks \cap keyers)
                                       THEN route[r] ELSE None]
      /\ Becomes(Dropped(sync, rs)) /\ hinted' = {} /\ Step(c, "persist")
      /\ UNCHANGED <<missing, engine, reader, world, asked, saved, unsent>>
  BY DEF Relayout, Reconcile
<1>2. routes \in [Receivers -> Flows \cup {None}] /\ rs \in SUBSET Receivers /\ TypeOK
  BY DEF IInv, Known, TypeOK
<1>3. \A r \in Receivers : routes[r] = IF r[1] \in live THEN route[r] ELSE None
  OBVIOUS
<1>4. \A r \in rs : r[1] \notin ins
  OBVIOUS
<1> HIDE DEF routes, rs
<1>5. /\ sync.active \in [Receivers -> Connections \cup {None}]
      /\ sync.staged \in [Receivers -> Parameters \cup {None}]
      /\ sync.state \in [Receivers -> {None, "not_routed", "waiting", "no_signal", "running"}]
      /\ \A r \in Receivers : r[1] \notin ins => sync.staged[r] = staged[r]
      /\ \A r \in Receivers : r[1] \in ins =>
           sync.active[r] # None /\ Reads(sync.active[r]) = routes[r] /\ sync.staged[r].at = None
  <2>1. /\ Synced(ins, routes).active \in [Receivers -> Connections \cup {None}]
        /\ Synced(ins, routes).staged \in [Receivers -> Parameters \cup {None}]
        /\ Synced(ins, routes).state
             \in [Receivers -> {None, "not_routed", "waiting", "no_signal", "running"}]
        /\ \A r \in Receivers : r[1] \notin ins =>
             /\ Synced(ins, routes).active[r] = active[r]
             /\ Synced(ins, routes).staged[r] = staged[r]
        /\ \A r \in Receivers : r[1] \in ins =>
             /\ Synced(ins, routes).active[r] # None
             /\ Reads(Synced(ins, routes).active[r]) = routes[r]
             /\ Synced(ins, routes).staged[r].at = None
    BY <1>2, SyncedTypes
  <2> QED BY <2>1
<1> HIDE DEF sync
<1>6. /\ active' = Dropped(sync, rs).active /\ staged' = Dropped(sync, rs).staged
      /\ state' = Dropped(sync, rs).state /\ UNCHANGED <<timer, fired>>
  BY <1>1 DEF Becomes
<1>7. /\ Dropped(sync, rs).active \in [Receivers -> Connections \cup {None}]
      /\ Dropped(sync, rs).staged \in [Receivers -> Parameters \cup {None}]
      /\ Dropped(sync, rs).state
           \in [Receivers -> {None, "not_routed", "waiting", "no_signal", "running"}]
      /\ \A r \in Receivers : IF r \in rs THEN Dropped(sync, rs).staged[r] = None
           ELSE /\ Dropped(sync, rs).active[r] = sync.active[r]
                /\ Dropped(sync, rs).staged[r] = sync.staged[r]
  BY <1>2, <1>5, DroppedTypes
<1>8. /\ CallsKnown' /\ SavedKnown' /\ SavedWhenQuiet'
      /\ \A d \in Clients : rest'[d].at \in {"idle", "read", "stored", "push", "send", "bind", "persist"}
      /\ \A r \in Receivers : Storing(r) => Storing(r)'
  BY <1>1, LayoutChanges
<1>9. TypeOK'
  <2>1. route' \in [Receivers -> Flows \cup {None}]
    BY <1>1 DEF IInv, Known, TypeOK
  <2> QED BY <1>1, <1>6, <1>7, <1>8, <2>1 DEF IInv, Known, TypeOK, world
<1>10. Agrees'
  <2> SUFFICES ASSUME NEW r \in Receivers, r[1] \in ins, r \in InputReceivers
               PROVE  (active[r] # None /\ (route[r] = Reads(active[r]) \/ r \in hinted))'
    BY <1>1, Kinds DEF Agrees, Present
  <2>1. r \notin rs /\ active'[r] = sync.active[r]
    BY <1>4, <1>6, <1>7
  <2>2. route'[r] = routes[r]
    BY <1>1, <1>3, Kinds
  <2> QED BY <1>5, <2>1, <2>2
<1>11. KeysRead'
  BY <1>1 DEF KeysRead
<1>12. ScheduleIsArmed'
  BY <1>5, <1>6, <1>7, <1>8, <1>9, SyncedArmed DEF Known
<1> QED BY <1>8, <1>9, <1>10, <1>11, <1>12 DEF IInv, Known

LEMMA ChangeKindInv ==
  ASSUME IInv, NEW c \in Clients, NEW i \in Inputs, ChangeKind(c, i)
  PROVE  IInv'
<1> DEFINE now == [active |-> active, staged |-> staged, state |-> state]
<1>1. /\ rest[c] = Idle /\ engine = "off" /\ Step(c, "persist")
      /\ live' = IF i \in live THEN live \ {i} ELSE live \cup {i}
      /\ route' = [r \in Receivers |-> IF r[1] = i THEN None ELSE route[r]]
      /\ Becomes(IF i \in live THEN Dropped(now, Owns(i)) ELSE Synced({i}, route'))
      /\ hinted' = hinted \ Owns(i)
      /\ UNCHANGED <<keyers, missing, engine, reader, world, asked, saved, unsent>>
  BY DEF ChangeKind
<1>2. route' \in [Receivers -> Flows \cup {None}] /\ TypeOK /\ Owns(i) \in SUBSET Receivers
  BY <1>1 DEF IInv, Known, TypeOK, Owns
<1>3. /\ now.active = active /\ now.staged = staged /\ now.state = state
      /\ \A r \in Receivers : r \in Owns(i) <=> r[1] = i
  BY DEF Owns
<1> HIDE DEF now
<1>4. /\ active' \in [Receivers -> Connections \cup {None}]
      /\ staged' \in [Receivers -> Parameters \cup {None}]
      /\ state' \in [Receivers -> {None, "not_routed", "waiting", "no_signal", "running"}]
      /\ \A r \in Receivers : r[1] # i => active'[r] = active[r] /\ staged'[r] = staged[r]
      /\ \A r \in Receivers : r[1] = i => staged'[r] = None \/ staged'[r].at = None
      /\ \A r \in Receivers : r[1] = i /\ i \notin live =>
           active'[r] # None /\ Reads(active'[r]) = route'[r]
      /\ UNCHANGED <<timer, fired>>
  <2>1. CASE i \in live
    <3>1. /\ active' = Dropped(now, Owns(i)).active /\ staged' = Dropped(now, Owns(i)).staged
          /\ state' = Dropped(now, Owns(i)).state /\ UNCHANGED <<timer, fired>>
      BY <1>1, <2>1 DEF Becomes
    <3>2. /\ now.active \in [Receivers -> Connections \cup {None}]
          /\ now.staged \in [Receivers -> Parameters \cup {None}]
          /\ now.state \in [Receivers -> {None, "not_routed", "waiting", "no_signal", "running"}]
      BY <1>2, <1>3 DEF TypeOK
    <3>3. /\ Dropped(now, Owns(i)).active \in [Receivers -> Connections \cup {None}]
          /\ Dropped(now, Owns(i)).staged \in [Receivers -> Parameters \cup {None}]
          /\ Dropped(now, Owns(i)).state
               \in [Receivers -> {None, "not_routed", "waiting", "no_signal", "running"}]
          /\ \A r \in Receivers :
               IF r \in Owns(i) THEN Dropped(now, Owns(i)).staged[r] = None
               ELSE /\ Dropped(now, Owns(i)).active[r] = now.active[r]
                    /\ Dropped(now, Owns(i)).staged[r] = now.staged[r]
      BY <1>2, <3>2, DroppedTypes
    <3> QED BY <1>3, <2>1, <3>1, <3>3
  <2>2. CASE i \notin live
    <3> DEFINE routes == [r \in Receivers |-> IF r[1] = i THEN None ELSE route[r]]
    <3>1. /\ active' = Synced({i}, routes).active /\ staged' = Synced({i}, routes).staged
          /\ state' = Synced({i}, routes).state /\ UNCHANGED <<timer, fired>>
          /\ route' = routes
      BY <1>1, <2>2 DEF Becomes
    <3>2. routes \in [Receivers -> Flows \cup {None}] /\ {i} \in SUBSET Inputs
      BY <1>2, <3>1
    <3> HIDE DEF routes
    <3>3. /\ Synced({i}, routes).active \in [Receivers -> Connections \cup {None}]
          /\ Synced({i}, routes).staged \in [Receivers -> Parameters \cup {None}]
          /\ Synced({i}, routes).state
               \in [Receivers -> {None, "not_routed", "waiting", "no_signal", "running"}]
          /\ \A r \in Receivers : r[1] \notin {i} =>
               /\ Synced({i}, routes).active[r] = active[r]
               /\ Synced({i}, routes).staged[r] = staged[r]
          /\ \A r \in Receivers : r[1] \in {i} =>
               /\ Synced({i}, routes).active[r] # None
               /\ Reads(Synced({i}, routes).active[r]) = routes[r]
               /\ Synced({i}, routes).staged[r].at = None
      BY <1>2, <3>2, SyncedTypes
    <3> QED BY <2>2, <3>1, <3>3
  <2> QED BY <2>1, <2>2
<1>5. /\ CallsKnown' /\ SavedKnown' /\ SavedWhenQuiet'
      /\ \A d \in Clients : rest'[d].at \in {"idle", "read", "stored", "push", "send", "bind", "persist"}
      /\ \A r \in Receivers : Storing(r) => Storing(r)'
  BY <1>1, LayoutChanges
<1>6. TypeOK'
  BY <1>1, <1>2, <1>4, <1>5 DEF TypeOK, world
<1>7. Agrees'
  <2> SUFFICES ASSUME NEW r \in Present' \cap InputReceivers
               PROVE  Storing(r)' \/ (active[r] # None /\ (route[r] = Reads(active[r]) \/ r \in hinted))'
    BY DEF Agrees
  <2>1. r \in Receivers /\ r[1] \in live'
    BY <1>2, <1>6, Kinds DEF Present, TypeOK
  <2>2. CASE r[1] = i
    BY <1>1, <1>4, <2>1, <2>2
  <2>3. CASE r[1] # i
    <3>1. /\ r \in Present /\ route'[r] = route[r] /\ active'[r] = active[r]
          /\ r \in hinted => r \in hinted'
      BY <1>1, <1>3, <1>4, <2>1, <2>3 DEF Present
    <3> QED BY <1>5, <2>1, <3>1 DEF IInv, Agrees
  <2> QED BY <2>2, <2>3
<1>8. KeysRead'
  BY <1>1 DEF KeysRead
<1>9. ScheduleIsArmed'
  BY <1>4, <1>5, <1>6, SyncedArmed DEF Known
<1> QED BY <1>5, <1>6, <1>7, <1>8, <1>9 DEF IInv, Known

\* A start that has read the hints has changed nothing yet.
LEMMA StartReadsInv ==
  ASSUME IInv, NEW c \in Clients, NEW rs \in SUBSET InputReceivers, NEW hint \in [rs -> Flows],
         StartReads(c, hint)
  PROVE  IInv'
<1> DEFINE call == [Idle EXCEPT !.at = "bind", !.body = hint]
<1>1. /\ rest' = [rest EXCEPT ![c] = call] /\ rest[c] = Idle
      /\ UNCHANGED <<node, mixer, world, asked, saved, unsent>>
  BY DEF StartReads
<1>2. /\ call.at = "bind" /\ call.of = None /\ call = [x \in CallFields |-> call[x]]
      /\ IsHint(call.body)
  BY DEF Idle, CallFields, IsHint
<1> HIDE DEF call
<1>3. /\ rest' = [d \in Clients |-> rest'[d]] /\ rest'[c] = call
      /\ \A d \in Clients : d # c => rest'[d] = rest[d]
  BY <1>1 DEF IInv, Known, CallsKnown
<1>4. TypeOK'
  BY <1>1, <1>2, <1>3 DEF IInv, Known, TypeOK, node, mixer, world
<1>5. CallsKnown'
  BY <1>2, <1>3, OneCall DEF IInv, Known
<1>6. KeysRead'
  BY <1>1 DEF IInv, KeysRead, Present, IsRead, mixer
<1>7. rest[c].at = "idle"
  BY <1>1 DEF Idle
<1> QED BY <1>1, <1>3, <1>4, <1>5, <1>6, <1>7, CallGoesOn DEF IInv, mixer

\* The route of a hint is the one a receiver may disagree with.
LEMMA StartBindsInv ==
  ASSUME IInv, NEW c \in Clients, StartBinds(c)
  PROVE  IInv'
<1> DEFINE hint == rest[c].body
<1>1. /\ rest[c].at = "bind" /\ IsHint(hint) /\ engine' \in {"off", "down"}
      /\ UNCHANGED <<node, live, keyers, missing, reader, world, asked, saved, unsent>>
  BY DEF StartBinds, IInv, Known, CallsKnown
<1>2. PICK bound \in SUBSET (DOMAIN hint \cap Present) :
        /\ route' = [r \in Receivers |-> IF r \in bound THEN hint[r] ELSE route[r]]
        /\ hinted' = hinted \cup bound
  BY DEF StartBinds
<1> DEFINE call == rest'[c]
<1>3. /\ rest' = [rest EXCEPT ![c] = call]
      /\ call.at \in {"idle", "persist"} /\ call.of = None /\ call = [x \in CallFields |-> call[x]]
  <2>1. CASE rest' = [rest EXCEPT ![c] = Idle]
    BY <2>1 DEF Idle, CallFields, IInv, Known, CallsKnown
  <2>2. CASE rest' = [rest EXCEPT ![c] = [Idle EXCEPT !.at = "persist"]]
    BY <2>2 DEF Idle, CallFields, IInv, Known, CallsKnown
  <2> QED BY <2>1, <2>2 DEF StartBinds
<1> HIDE DEF call
<1>4. /\ rest' = [d \in Clients |-> rest'[d]] /\ rest'[c] = call
      /\ \A d \in Clients : d # c => rest'[d] = rest[d]
  BY <1>3 DEF IInv, Known, CallsKnown, call
<1>5. \A r \in bound : r \in Receivers /\ r \in InputReceivers /\ hint[r] \in Flows
  BY <1>1 DEF IsHint, Receivers
<1> HIDE DEF hint
<1>6. TypeOK'
  <2>1. route' \in [Receivers -> Flows \cup {None}] /\ hinted' \subseteq Receivers
    BY <1>2, <1>5 DEF IInv, Known, TypeOK
  <2> QED BY <1>1, <1>3, <1>4, <2>1 DEF IInv, Known, TypeOK, node, world
<1>7. CallsKnown'
  BY <1>3, <1>4, OneCall DEF IInv, Known
<1>8. SavedKnown'
  BY <1>1 DEF IInv, Known, SavedKnown
<1>9. Agrees'
  <2> SUFFICES ASSUME NEW r \in Present \cap InputReceivers
               PROVE  Storing(r)' \/ (active[r] # None /\ (route[r] = Reads(active[r]) \/ r \in hinted))'
    BY <1>1 DEF Agrees, Present
  <2>1. r \in Receivers /\ active'[r] = active[r]
    BY <1>1 DEF Present, node
  <2>2. Storing(r) => Storing(r)'
    BY <1>1, <1>4 DEF Storing
  <2>3. r \in hinted => r \in hinted'
    BY <1>2
  <2>4. CASE r \in bound
    BY <1>2, <2>1, <2>2, <2>4 DEF IInv, Agrees
  <2>5. CASE r \notin bound
    BY <1>2, <2>1, <2>2, <2>3, <2>5 DEF IInv, Agrees
  <2> QED BY <2>4, <2>5
<1>10. KeysRead'
  BY <1>1 DEF KeysRead
<1>11. ScheduleIsArmed'
  BY <1>1 DEF IInv, ScheduleIsArmed, StagedOf, ActiveOf, node
<1>12. SavedWhenQuiet'
  <2>1. \A r \in Receivers : Quiet(r)' => Quiet(r)
    BY <1>1, <1>4 DEF Quiet
  <2> QED BY <1>1, <2>1, SavedStays DEF IInv, node
<1> QED BY <1>6, <1>7, <1>8, <1>9, <1>10, <1>11, <1>12 DEF IInv, Known

-----------------------------------------------------------------------------
(* The engine, the files and a restart of the process *)

\* What the engine and the files do changes neither receivers nor calls.
LEMMA ReceiversStay ==
  ASSUME IInv, TypeOK',
         UNCHANGED <<staged, active, timer, fired, live, keyers, route, hinted, rest, saved>>
  PROVE  Known' /\ Agrees' /\ ScheduleIsArmed' /\ SavedWhenQuiet'
<1>1. Known'
  BY DEF IInv, Known, CallsKnown, SavedKnown
<1>2. Agrees'
  BY DEF IInv, Agrees, Present, Storing
<1>3. ScheduleIsArmed' /\ SavedWhenQuiet'
  BY SavedStays DEF IInv, ScheduleIsArmed, StagedOf, ActiveOf, Quiet
<1> QED BY <1>1, <1>2, <1>3

LEMMA PushStateInv == IInv /\ PushState => IInv'
<1> SUFFICES ASSUME IInv, PushState PROVE IInv'
  OBVIOUS
<1>1. /\ engine' = "pushed"
      /\ missing' = {r \in Present : Waits(route[r])} \cup (missing \ Present)
      /\ UNCHANGED <<node, live, keyers, route, hinted, world, asked, rest, saved>>
  BY DEF PushState
<1>2. PICK sent \in SUBSET Present :
        /\ reader' = [r \in Receivers |-> IF r \in sent THEN Readable(route[r]) ELSE None]
        /\ unsent' = (Present \cap KeyReceivers) \ sent
  BY DEF PushState
<1>3. TypeOK'
  <2>1. missing' \subseteq Receivers /\ unsent' \subseteq Receivers
    BY <1>1, <1>2 DEF IInv, Known, TypeOK, Present
  <2>2. \A r \in Receivers : Readable(route[r]) \in Flows \cup {None}
    BY DEF Readable, IInv, Known, TypeOK
  <2>3. reader' \in [Receivers -> Flows \cup {None}]
    BY <1>2, <2>2
  <2> QED BY <1>1, <2>1, <2>3 DEF IInv, Known, TypeOK, node, world
<1>4. KeysRead'
  <2> SUFFICES ASSUME NEW r \in Present \cap KeyReceivers, r \notin unsent'
               PROVE  IsRead(r)'
    BY <1>1 DEF KeysRead, Present
  <2>1. r \in Receivers /\ r \in sent
    BY <1>2 DEF Present
  <2> QED BY <1>1, <1>2, <2>1 DEF IsRead, Readable
<1> QED BY <1>1, <1>3, <1>4, ReceiversStay DEF IInv, node

LEMMA EngineInv == IInv /\ Engine => IInv'
<1> SUFFICES ASSUME IInv, Engine PROVE IInv'
  OBVIOUS
<1>1. UNCHANGED <<node, live, keyers, route, hinted, world, asked, rest, saved>>
  BY DEF Engine
<1>2. TypeOK' /\ KeysRead'
  <2>1. CASE Ready
    <3>1. engine = "pushed" /\ engine' = "ready" /\ UNCHANGED <<missing, reader, unsent>>
      BY <2>1 DEF Ready
    <3>2. KeysRead'
      BY <1>1, <3>1 DEF IInv, KeysRead, Present, IsRead
    <3> QED BY <1>1, <3>1, <3>2 DEF IInv, Known, TypeOK, node, world
  <2>2. CASE Exits
    BY <1>1, <2>2 DEF Exits, IInv, Known, TypeOK, KeysRead, node, world
  <2>3. CASE Stops
    BY <1>1, <2>3 DEF Stops, IInv, Known, TypeOK, KeysRead, node, world
  <2> QED BY <2>1, <2>2, <2>3 DEF Engine
<1> QED BY <1>1, <1>2, ReceiversStay DEF IInv, node

LEMMA FilesInv == IInv /\ Files => IInv'
<1> SUFFICES ASSUME IInv, Files PROVE IInv'
  OBVIOUS
<1>1. UNCHANGED <<node, mixer, subject, asked, rest, saved, unsent>>
  BY DEF Files
<1>2. disk' \in [Flows -> DiskStates]
  <2>1. PICK f \in Moving : Appear(f) \/ Vanish(f)
    BY DEF Files
  <2>2. f \in Flows /\ disk[f] \in DiskStates
    BY <2>1, ConnectionAssumption DEF IInv, Known, TypeOK
  <2>3. CASE Appear(f)
    BY <2>2, <2>3 DEF Appear, DiskStates, IInv, Known, TypeOK
  <2>4. CASE Vanish(f)
    BY <2>2, <2>4 DEF Vanish, DiskStates, IInv, Known, TypeOK
  <2> QED BY <2>1, <2>3, <2>4
<1>3. TypeOK'
  BY <1>1, <1>2 DEF IInv, Known, TypeOK, node, mixer
<1>4. KeysRead'
  BY <1>1 DEF IInv, KeysRead, Present, IsRead, mixer
<1> QED BY <1>1, <1>3, <1>4, ReceiversStay DEF IInv, node, mixer

\* A restart gives an input's receivers parameters, and what they read.
LEMMA RestartInv == IInv /\ Restart => IInv'
<1> SUFFICES ASSUME IInv, Restart PROVE IInv'
  OBVIOUS
<1> DEFINE conns == [r \in Receivers |-> Restored(r)]
<1>1. /\ live' = saved.live /\ keyers' = saved.keyers /\ active' = conns
      /\ staged' = [r \in Receivers |-> IF conns[r] = None THEN None ELSE At(conns[r], None)]
      /\ state' = [r \in Receivers |-> IF conns[r] = None THEN None ELSE StateOf(conns[r])]
      /\ route' = [r \in Receivers |-> IF conns[r] = None THEN None ELSE Reads(conns[r])]
      /\ missing' = {r \in Receivers : Waits(route'[r])}
      /\ timer' = [r \in Receivers |-> None] /\ fired' = {}
      /\ engine' = "off" /\ reader' = [r \in Receivers |-> None] /\ unsent' = {}
      /\ hinted' = {} /\ asked' = {} /\ rest' = [c \in Clients |-> Idle]
      /\ UNCHANGED <<world, saved>>
  BY DEF Restart
<1>2. conns \in [Receivers -> Connections \cup {None}]
  <2> SUFFICES ASSUME NEW r \in Receivers PROVE Restored(r) \in Connections \cup {None}
    OBVIOUS
  <2>1. r[1] \in saved.live => saved.route[r] \in Flows \cup {None}
    BY Kinds DEF IInv, Known, SavedKnown
  <2> QED BY <2>1 DEF IInv, Known, SavedKnown, Restored, Connections
<1>3. \A r \in Receivers : r[1] \in saved.live => conns[r] # None
  <2>1. \A r \in Receivers : r[1] \in saved.live =>
          [on |-> saved.route[r] # None, flow |-> saved.route[r]] \in Connections
    BY Kinds DEF IInv, Known, SavedKnown, Connections
  <2> QED BY <2>1, ReadsType DEF Restored
<1>4. \A r \in Receivers : conns[r] = Restored(r)
  OBVIOUS
<1> HIDE DEF conns
<1>5. TypeOK'
  <2>1. \A r \in Receivers : conns[r] # None =>
          /\ At(conns[r], None) \in Parameters /\ Reads(conns[r]) \in Flows \cup {None}
          /\ StateOf(conns[r]) \in {"not_routed", "waiting", "no_signal", "running"}
    BY <1>2, AtType, ReadsType, StateOfType
  <2>2. /\ staged' \in [Receivers -> Parameters \cup {None}]
        /\ state' \in [Receivers -> {None, "not_routed", "waiting", "no_signal", "running"}]
        /\ route' \in [Receivers -> Flows \cup {None}]
    BY <1>1, <2>1
  <2>3. live' \subseteq Inputs /\ keyers' \subseteq Keyers
    BY <1>1 DEF IInv, Known, SavedKnown
  <2>4. \A c \in Clients : rest'[c].at = "idle"
    BY <1>1 DEF Idle
  <2>5. disk' = disk /\ subject' = subject
    BY <1>1 DEF world
  <2> QED BY <1>1, <1>2, <2>2, <2>3, <2>4, <2>5 DEF IInv, Known, TypeOK
<1>6. CallsKnown'
  BY <1>1 DEF CallsKnown, Idle, CallFields
<1>7. SavedKnown'
  BY <1>1 DEF IInv, Known, SavedKnown
<1>8. Agrees'
  <2>1. \A r \in Present' \cap InputReceivers : r \in Receivers /\ r[1] \in saved.live
    BY <1>1, Kinds DEF Present, IInv, Known, SavedKnown
  <2>2. \A r \in Receivers : conns[r] # None => route'[r] = Reads(conns[r])
    BY <1>1
  <2> QED BY <1>1, <1>3, <2>1, <2>2 DEF Agrees
<1>9. KeysRead'
  BY <1>1 DEF KeysRead
<1>10. ScheduleIsArmed'
  BY <1>1, <1>2, AtType DEF ScheduleIsArmed, StagedOf
<1>11. SavedWhenQuiet'
  BY <1>1, <1>4 DEF SavedWhenQuiet, Present, Restored
<1> QED BY <1>5, <1>6, <1>7, <1>8, <1>9, <1>10, <1>11 DEF IInv, Known

-----------------------------------------------------------------------------
(* Every step *)

LEMMA PatchInv == IInv /\ Patch => IInv'
BY AskPatchInv, PatchStagedInv, PatchUnscheduledInv, PatchImmediateInv, PatchScheduledInv
   DEF Patch

LEMMA TimersInv == IInv /\ Timers => IInv'
BY TimerDueInv, FireInv DEF Timers

LEMMA RestInv ==
  ASSUME IInv, NEW c \in Clients, Rest(c)
  PROVE  IInv'
<1>1. CASE RestSync(c) \/ RestPush(c) \/ RestSend(c) \/ RestPersist(c)
  BY <1>1, RestSyncInv, RestPushInv, RestSendInv, RestPersistInv
<1>2. CASE \E i \in Inputs : RestRead(c, i) \/ ChangeKind(c, i)
  BY <1>2, RestReadInv, ChangeKindInv
<1>3. CASE \E r \in InputReceivers, f \in Flows \cup {None} : RestStore(c, [q \in {r} |-> f])
  <2>1. PICK r \in InputReceivers, f \in Flows \cup {None} : RestStore(c, [q \in {r} |-> f])
    BY <1>3
  <2> DEFINE patch == [q \in {r} |-> f]
  <2>2. \A q \in DOMAIN patch : patch[q] \in Flows \cup {None}
    OBVIOUS
  <2>3. RestStore(c, patch)
    BY <2>1
  <2> HIDE DEF patch
  <2> QED BY <2>2, <2>3, RestStoreInv
<1>4. CASE RestStore(c, << >>)
  <2> DEFINE patch == << >>
  <2>1. \A q \in DOMAIN patch : patch[q] \in Flows \cup {None}
    OBVIOUS
  <2>2. RestStore(c, patch)
    BY <1>4
  <2> HIDE DEF patch
  <2> QED BY <2>1, <2>2, RestStoreInv
<1>5. CASE \E ins \in SUBSET Inputs, ks \in SUBSET Keyers : Relayout(c, ins, ks)
  BY <1>5, RelayoutInv
<1>6. CASE \E rs \in SUBSET InputReceivers : \E hint \in [rs -> Flows] : StartReads(c, hint)
  BY <1>6, StartReadsInv
<1>7. CASE StartBinds(c)
  BY <1>7, StartBindsInv
<1> QED BY <1>1, <1>2, <1>3, <1>4, <1>5, <1>6, <1>7 DEF Rest

LEMMA NextInv == IInv /\ [Next]_vars => IInv'
<1> SUFFICES ASSUME IInv, [Next]_vars PROVE IInv'
  OBVIOUS
<1>1. CASE Next
  BY <1>1, PatchInv, TimersInv, RefreshWaitingInv, AttachWaitingInv, RestInv, PushStateInv,
     EngineInv, FilesInv, RestartInv DEF Next
<1>2. CASE UNCHANGED vars
  <2>1. UNCHANGED <<node, mixer, world, asked, rest, saved, unsent>>
    BY <1>2 DEF vars
  <2>2. TypeOK'
    BY <2>1 DEF IInv, Known, TypeOK, node, mixer, world
  <2>3. KeysRead'
    BY <2>1 DEF IInv, KeysRead, Present, IsRead, mixer
  <2> QED BY <2>1, <2>2, <2>3, ReceiversStay DEF IInv, node, mixer
<1> QED BY <1>1, <1>2

THEOREM Invariant == Spec => []IInv
<1>1. Init => IInv
  BY InitInv
<1>2. IInv /\ [Next]_vars => IInv'
  BY NextInv
<1> QED BY <1>1, <1>2, PTL DEF Spec

\* Once no call is changing an input, its receivers' parameters and its routes
\* agree, and the engine reads every key (sync_from_rest, _apply_receiver).
THEOREM PlaneHolds == Spec => []PlaneInv
<1>1. IInv => PlaneInv
  <2> SUFFICES ASSUME IInv PROVE PlaneInv
    OBVIOUS
  <2>1. ControlAgrees
    <3> SUFFICES ASSUME NEW r \in Present \cap InputReceivers, Quiet(r)
                 PROVE  active[r] # None /\ (route[r] = Reads(active[r]) \/ r \in hinted)
      BY DEF ControlAgrees
    <3>1. ~Storing(r)
      <4> SUFFICES ASSUME NEW c \in Clients, rest[c].at = "stored", rest[c].of = r[1]
                   PROVE  FALSE
        BY DEF Storing
      <4> QED BY DEF Quiet
    <3> QED BY <3>1 DEF IInv, Agrees
  <2>2. KeysAreRead
    BY DEF IInv, KeysRead, KeysAreRead
  <2> QED BY <2>1, <2>2 DEF PlaneInv, IInv, Known
<1> QED BY <1>1, Invariant, PTL

\* Killed at any time, the process comes back with the receivers' parameters
\* that were acknowledged (export_state, _apply_state, import_routes).
THEOREM SavedHolds == Spec => []SavedWhenQuiet
<1>1. IInv => SavedWhenQuiet
  BY DEF IInv
<1> QED BY <1>1, Invariant, PTL

\* A scheduled activation has a timer that runs (_schedule_activation, _fire).
THEOREM ScheduleHolds == Spec => []ScheduleIsArmed
<1>1. IInv => ScheduleIsArmed
  BY DEF IInv
<1> QED BY <1>1, Invariant, PTL

-----------------------------------------------------------------------------
(* Registration.  The node's other side, for any inputs, keyers and panels:  *)
(* what it sends the registry is a tree, what it says of the registry is     *)
(* true, and a node that was deregistered stays so.                          *)
(*                                                                           *)
(* RegistryAgrees speaks of the time between two rounds only.  It follows    *)
(* from what holds at every request of one: what the round has read is still *)
(* to be sent or held as it was read (Sent), what is gone is still to be     *)
(* removed (Removed), and a change it has not read is still to be marked     *)
(* (Fresh).  HeldTree needs that what names a resource is removed before it  *)
(* (Pruned), also when a removal broke off half way (Noted).                 *)

\* shutdown() has deleted the node, and the registry holds nothing.
Deleted == down = "done" /\ reg = Forgotten

\* A set of resources with what each of them names.
HasParents(set) ==
  /\ {NodeResource, DeviceResource} \subseteq set
  /\ \A r \in set : r = NodeResource \/ Refers(r) \in set

\* A set of resources with the flow of each source and the sender of each flow.
HasChildren(set) ==
  \A c \in AllResources : Refers(c) \in set \ {NodeResource, DeviceResource} => c \in set

\* A round asks for what its snapshot says, and for the removal of what it does
\* not have.
Asks ==
  /\ pc # "send" => todo = {}
  /\ pc = "send" => Beat \in todo
  /\ pc = "send" \/ current => HasParents(snapshot.ids)
  /\ \A q \in todo :
       \/ q = Beat
       \/ q = Post(q.of) /\ q.of \in snapshot.ids
       \/ q = Delete(q.of) /\ q.of \in AllResources \ snapshot.ids

\* The registry holds the node unless it lost it, and while it does, what the
\* snapshot has is still to be posted or held as it was read.
Sent ==
  /\ (pc = "send" \/ current) /\ ~lost /\ ~Deleted
       => Post(NodeResource) \in todo \/ NodeResource \in DOMAIN reg
  /\ Post(NodeResource) \in todo => \A r \in snapshot.ids : Post(r) \in todo
  /\ (pc = "send" \/ current) /\ NodeResource \in DOMAIN reg
       => \A r \in snapshot.ids :
            Post(r) \in todo \/ (r \in DOMAIN reg /\ reg[r] = snapshot.rev)

\* What is to be removed goes with everything in the registry that names it.
Pruned ==
  \A q \in todo : q = Delete(q.of) =>
    \A c \in DOMAIN reg : c # NodeResource /\ Refers(c) = q.of => Delete(c) \in todo

\* _registered is what the last round that was registered had.
Noted ==
  /\ HasChildren(snapshot.ids) /\ HasChildren(known)
  /\ current /\ todo \subseteq {Beat} => known = snapshot.ids

\* A change that a round has not read is still to be marked, or marked.
Fresh ==
  ~dirty /\ marking = 0 /\ (pc = "send" \/ (current /\ pc # "read"))
    => snapshot = [ids |-> Resources, rev |-> rev]

\* The registry is up only when a round was registered.
Told ==
  /\ up => current
  /\ todo = {Beat} => current
  /\ Deleted => ~up \/ lost
  /\ lost => faults > 0
  /\ down = "done" /\ faults = 0 => Deleted

\* Without a fault the registry holds nothing that no round removes.
Removed ==
  faults = 0 => \A r \in DOMAIN reg :
    IF pc = "send" THEN r \in snapshot.ids \/ Delete(r) \in todo ELSE r \in known

\* After join() the round under way has registered the node already.
Halts ==
  /\ pc = "off" => down = "no"
  /\ pc = "ended" => stop
  /\ down # "no" => stop
  /\ down \in {"deleting", "done"} => pc = "ended" \/ waited
  /\ waited => pc # "read" /\ Post(NodeResource) \notin todo /\ stop

Typed ==
  /\ RegistryTypeOK /\ marking <= rev
  /\ reg = [r \in DOMAIN reg |-> reg[r]]
  /\ snapshot = [ids |-> snapshot.ids, rev |-> snapshot.rev]

RInv ==
  Typed /\ Asks /\ Sent /\ Pruned /\ Noted /\ Fresh /\ Told /\ Removed /\ Halts /\ HeldTree

-----------------------------------------------------------------------------
(* The resources *)

LEMMA DescribedIs ==
  ASSUME NEW ins \in SUBSET Inputs, NEW ps \in SUBSET Panels
  PROVE  /\ Described(ins, ps) \subseteq AllResources
         /\ HasParents(Described(ins, ps)) /\ HasChildren(Described(ins, ps))
<1> USE DEF ResourceId, NodeResource, DeviceResource
<1>1. Described(ins, ps) \subseteq AllResources
  BY DEF AllResources, Described, SourceResources, FlowResources, SenderResources,
         ReceiverResources
<1>2. HasParents(Described(ins, ps))
  <2>1. {NodeResource, DeviceResource} \subseteq Described(ins, ps)
    BY DEF Described
  <2> SUFFICES ASSUME NEW r \in Described(ins, ps), r # NodeResource
               PROVE  Refers(r) \in Described(ins, ps)
    BY <2>1 DEF HasParents
  <2>2. CASE r \in ReceiverResources(ins) \/ r = DeviceResource
    BY <2>2 DEF Refers, ReceiverResources, Described
  <2>3. CASE r \in SourceResources(ps)
    BY <2>3 DEF Refers, SourceResources, Described
  <2>4. CASE r \in FlowResources(ps)
    BY <2>4 DEF Refers, FlowResources, SourceResources, Described
  <2>5. CASE r \in SenderResources(ps)
    BY <2>5 DEF Refers, SenderResources, FlowResources, Described
  <2> QED BY <2>2, <2>3, <2>4, <2>5 DEF Described
<1>3. HasChildren(Described(ins, ps))
  <2> SUFFICES ASSUME NEW c \in AllResources,
                      Refers(c) \in Described(ins, ps) \ {NodeResource, DeviceResource}
               PROVE  c \in Described(ins, ps)
    BY DEF HasChildren
  <2>1. /\ c # DeviceResource /\ c \notin ReceiverResources(Inputs)
        /\ c \notin SourceResources(Panels)
    BY DEF Refers, ReceiverResources, SourceResources
  <2>2. CASE c = NodeResource
    BY <2>2 DEF Described
  <2>3. CASE c \in FlowResources(Panels)
    <3>1. PICK p \in Panels, role \in Outputs : c = ResourceId("flow", p, role)
      BY <2>3 DEF FlowResources
    <3>2. Refers(c) = ResourceId("source", p, role)
      BY <3>1 DEF Refers
    <3>3. Refers(c) \in SourceResources(ps)
      <4>1. Refers(c).kind = "source"
        BY <3>2
      <4>2. \A x \in Described(ins, ps) : x.kind = "source" => x \in SourceResources(ps)
        BY DEF Described, ReceiverResources, SourceResources, FlowResources, SenderResources
      <4> QED BY <4>1, <4>2
    <3>4. PICK q \in ps, other \in Outputs : Refers(c) = ResourceId("source", q, other)
      BY <3>3 DEF SourceResources
    <3>5. p = ResourceId("source", p, role).owner /\ q = ResourceId("source", q, other).owner
      OBVIOUS
    <3>6. p \in ps
      BY <3>2, <3>4, <3>5
    <3> QED BY <3>1, <3>6 DEF FlowResources, Described
  <2>4. CASE c \in SenderResources(Panels)
    <3>1. PICK p \in Panels, role \in Outputs : c = ResourceId("sender", p, role)
      BY <2>4 DEF SenderResources
    <3>2. Refers(c) = ResourceId("flow", p, role)
      BY <3>1 DEF Refers
    <3>3. Refers(c) \in FlowResources(ps)
      <4>1. Refers(c).kind = "flow"
        BY <3>2
      <4>2. \A x \in Described(ins, ps) : x.kind = "flow" => x \in FlowResources(ps)
        BY DEF Described, ReceiverResources, SourceResources, FlowResources, SenderResources
      <4> QED BY <4>1, <4>2
    <3>4. PICK q \in ps, other \in Outputs : Refers(c) = ResourceId("flow", q, other)
      BY <3>3 DEF FlowResources
    <3>5. p = ResourceId("flow", p, role).owner /\ q = ResourceId("flow", q, other).owner
      OBVIOUS
    <3>6. p \in ps
      BY <3>2, <3>4, <3>5
    <3> QED BY <3>1, <3>6 DEF SenderResources, Described
  <2> QED BY <2>1, <2>2, <2>3, <2>4 DEF AllResources, Described
<1> QED BY <1>1, <1>2, <1>3

\* The resource another one names comes in an earlier kind.
LEMMA ParentFirst ==
  ASSUME NEW r \in AllResources
  PROVE  /\ Level[r.kind] \in Nat
         /\ r = NodeResource \/ Level[Refers(r).kind] < Level[r.kind]
         /\ r = NodeResource \/ Level[NodeResource.kind] < Level[r.kind]
<1> USE DEF ResourceId, NodeResource, DeviceResource
<1>1. CASE r \in ReceiverResources(Inputs) \/ r \in {NodeResource, DeviceResource}
  BY <1>1 DEF Refers, ReceiverResources, Level
<1>2. CASE r \in SourceResources(Panels)
  BY <1>2 DEF Refers, SourceResources, Level
<1>3. CASE r \in FlowResources(Panels)
  BY <1>3 DEF Refers, FlowResources, Level
<1>4. CASE r \in SenderResources(Panels)
  BY <1>4 DEF Refers, SenderResources, Level
<1> QED BY <1>1, <1>2, <1>3, <1>4 DEF AllResources, Described

\* The first requests of a round: the node is registered first, the heartbeat
\* comes when nothing else is left.
LEMMA DueIs ==
  ASSUME RInv, NEW q \in Due, pc = "send"
  PROVE  /\ q \in todo
         /\ q = Beat => todo = {Beat}
         /\ q # Beat => Beat \in todo \ {q} /\ todo \ {q} # {}
         /\ Post(NodeResource) \in todo => q = Post(NodeResource)
<1>1. q \in todo /\ Beat \in todo /\ \A other \in todo : ~Before(other, q)
  BY DEF Due, RInv, Asks
<1>2. \A x \in todo : x = Beat \/ x = Post(x.of) \/ x = Delete(x.of)
  BY DEF RInv, Asks
<1>3. ASSUME NEW x \in todo, x # Beat  PROVE Before(x, Beat)
  BY <1>2, <1>3 DEF Before, Beat, Post, Delete
<1>4. ASSUME Post(NodeResource) \in todo, q # Post(NodeResource)
      PROVE  FALSE
  <2>1. CASE q = Beat \/ q = Delete(q.of)
    BY <1>1, <1>4, <2>1 DEF Before, Beat, Post, Delete
  <2>2. CASE q = Post(q.of)
    <3>1. q.of # NodeResource /\ q.of \in AllResources
      BY <1>1, <1>4, <2>2 DEF RInv, Typed, RegistryTypeOK
    <3>2. Level[NodeResource.kind] < Level[q.of.kind]
      BY <3>1, ParentFirst
    <3>3. Before(Post(NodeResource), q)
      BY <2>2, <3>2 DEF Before, Post
    <3> QED BY <1>1, <1>4, <3>3
  <2> QED BY <1>1, <1>2, <2>1, <2>2
<1> QED BY <1>1, <1>3, <1>4

\* A resource is posted after the one it names.
LEMMA PostDue ==
  ASSUME RInv, NEW r, Post(r) \in Due, pc = "send"
  PROVE  /\ r \in snapshot.ids /\ r \in AllResources
         /\ r = NodeResource \/ (Refers(r) \in snapshot.ids /\ Post(Refers(r)) \notin todo)
<1>1. r \in snapshot.ids /\ r \in AllResources
  BY DEF Due, RInv, Typed, RegistryTypeOK, Asks, Beat, Post, Delete
<1>2. r = NodeResource \/ Refers(r) \in snapshot.ids
  BY <1>1 DEF RInv, Asks, HasParents
<1>3. ASSUME r # NodeResource, Post(Refers(r)) \in todo  PROVE FALSE
  <2>1. Level[Refers(r).kind] < Level[r.kind]
    BY <1>1, <1>3, ParentFirst
  <2>2. Before(Post(Refers(r)), Post(r))
    BY <2>1 DEF Before, Post
  <2> QED BY <1>3, <2>2 DEF Due
<1> QED BY <1>1, <1>2, <1>3

\* A resource is removed after those that name it.
LEMMA DeleteDue ==
  ASSUME RInv, NEW r, Delete(r) \in Due, pc = "send"
  PROVE  /\ r \in AllResources \ snapshot.ids /\ r # NodeResource
         /\ \A c \in DOMAIN reg : c = NodeResource \/ Refers(c) # r
         /\ \A x \in AllResources : Post(x) \notin todo
<1>1. r \in AllResources \ snapshot.ids /\ r # NodeResource /\ Delete(r) \in todo
  BY DEF Due, RInv, Asks, HasParents, Beat, Post, Delete
<1>2. ASSUME NEW c \in DOMAIN reg, c # NodeResource, Refers(c) = r  PROVE FALSE
  <2>1. Delete(c) \in todo
    BY <1>1, <1>2 DEF RInv, Pruned, Delete
  <2>2. c \in AllResources
    BY DEF RInv, Typed, RegistryTypeOK
  <2>3. Level[r.kind] < Level[c.kind]
    BY <1>2, <2>2, ParentFirst
  <2>4. Before(Delete(c), Delete(r))
    BY <2>3 DEF Before, Delete
  <2> QED BY <2>1, <2>4 DEF Due
<1>3. ASSUME NEW x \in AllResources, Post(x) \in todo  PROVE FALSE
  <2>1. Before(Post(x), Delete(r))
    BY DEF Before, Post, Delete
  <2> QED BY <1>3, <2>1 DEF Due
<1> QED BY <1>1, <1>2, <1>3

-----------------------------------------------------------------------------
(* What a request that succeeds leaves *)

\* The heartbeat ends the round.
LEMMA BeatAnswered ==
  ASSUME RInv, Beat \in Due, Answered(Beat, todo \ {Beat}), UNCHANGED dirty
  PROVE  RInv'
<1>1. /\ pc = "send" /\ todo = {Beat} /\ current /\ NodeResource \in DOMAIN reg
      /\ ~Deleted /\ known = snapshot.ids
  BY DueIs DEF Answered, Accepts, RInv, Told, Noted, Beat, Deleted, Forgotten
<1>2. /\ reg' = reg /\ todo' = {} /\ pc' = "wait" /\ up' = TRUE /\ lost' = FALSE
      /\ known' = known /\ current' = current
      /\ UNCHANGED <<inputs, panels, rev, marking, dirty, snapshot, stop, down, faults>>
  BY <1>1 DEF Answered, Applied, Beat
<1>3. waited' = (waited \/ down = "joining")
  BY DEF Answered
<1>4. Typed'
  BY <1>2, <1>3 DEF RInv, Typed, RegistryTypeOK
<1>5. Asks'
  BY <1>1, <1>2 DEF RInv, Asks, HasParents
<1>6. Sent'
  BY <1>1, <1>2 DEF RInv, Sent, Post, Beat
<1>7. Pruned' /\ Noted'
  BY <1>1, <1>2 DEF RInv, Pruned, Noted, HasChildren
<1>8. Fresh'
  BY <1>1, <1>2 DEF RInv, Fresh, Resources, Described, SourceResources, FlowResources,
                    SenderResources, ReceiverResources
<1>9. Told'
  BY <1>1, <1>2 DEF RInv, Told, Deleted
<1>10. Removed'
  BY <1>1, <1>2 DEF RInv, Removed, Beat, Delete
<1>11. Halts'
  BY <1>1, <1>2, <1>3 DEF RInv, Halts
<1>12. HeldTree'
  BY <1>2 DEF RInv, HeldTree
<1> QED BY <1>4, <1>5, <1>6, <1>7, <1>8, <1>9, <1>10, <1>11, <1>12 DEF RInv

\* A resource is registered as the round has read it.
LEMMA PostAnswered ==
  ASSUME RInv, NEW r, Post(r) \in Due, Answered(Post(r), todo \ {Post(r)}), UNCHANGED dirty
  PROVE  RInv'
<1>1. /\ pc = "send" /\ r \in snapshot.ids /\ r \in AllResources
      /\ r = NodeResource \/ (Refers(r) \in snapshot.ids /\ Post(Refers(r)) \notin todo)
      /\ Post(NodeResource) \in todo => r = NodeResource
      /\ Beat \in todo \ {Post(r)} /\ Post(r) # Beat /\ Post(r) \in todo
  <2>1. pc = "send" /\ Post(r) # Beat
    BY DEF Answered, Post, Beat
  <2>2. Post(NodeResource) \in todo => Post(r) = Post(NodeResource)
    BY <2>1, DueIs
  <2>3. Post(r).of = r /\ Post(NodeResource).of = NodeResource
    BY DEF Post
  <2> QED BY <2>1, <2>2, <2>3, DueIs, PostDue
<1>2. /\ r = NodeResource \/ Refers(r) \in DOMAIN reg
      /\ reg' = [x \in DOMAIN reg \cup {r} |-> IF x = r THEN snapshot.rev ELSE reg[x]]
  BY DEF Answered, Accepts, Applied, Post
<1>3. /\ todo' = todo \ {Post(r)} /\ pc' = "send"
      /\ known' = IF todo' = {Beat} THEN snapshot.ids ELSE known
      /\ current' = (todo' = {Beat} \/ current) /\ up' = up
      /\ lost' = lost /\ waited' = (waited \/ down = "joining")
      /\ UNCHANGED <<inputs, panels, rev, marking, dirty, snapshot, stop, down, faults>>
  BY <1>1, <1>2 DEF Answered, RInv, Typed, RegistryTypeOK
<1>4. DOMAIN reg' = DOMAIN reg \cup {r} /\ reg'[r] = snapshot.rev
      /\ \A x \in DOMAIN reg : x # r => reg'[x] = reg[x]
  BY <1>2
<1>5. ~Deleted /\ ~Deleted'
  <2>1. reg' # Forgotten
    BY <1>4 DEF Forgotten
  <2>2. CASE Deleted
    BY <1>1, <1>2, <2>2 DEF RInv, Halts, Deleted, Forgotten
  <2> QED BY <2>1, <2>2 DEF Deleted
<1>6. \A x : Post(x).of = x /\ Delete(x).of = x /\ Post(x) # Beat /\ Delete(x) # Beat
  BY DEF Post, Delete, Beat
<1>7. \A x, y : Post(x) # Delete(y)
  BY DEF Post, Delete
<1>8. Typed'
  <2>1. snapshot.rev \in 0 .. MaxChanges /\ snapshot.ids \subseteq AllResources
    BY DEF RInv, Typed, RegistryTypeOK
  <2>2. reg' = [x \in DOMAIN reg' |-> reg'[x]] /\ DOMAIN reg' \subseteq AllResources
    BY <1>1, <1>2, <1>4 DEF RInv, Typed, RegistryTypeOK
  <2>3. \A x \in DOMAIN reg' : reg'[x] \in 0 .. MaxChanges
    BY <1>4, <2>1 DEF RInv, Typed, RegistryTypeOK
  <2>4. known' \subseteq AllResources /\ current' \in BOOLEAN /\ waited' \in BOOLEAN
    BY <1>3, <2>1 DEF RInv, Typed, RegistryTypeOK
  <2> QED BY <1>1, <1>3, <2>2, <2>3, <2>4 DEF RInv, Typed, RegistryTypeOK
<1>9. Asks'
  BY <1>1, <1>3 DEF RInv, Asks, HasParents
<1>10. Sent'
  <2>1. ~lost => Post(NodeResource) \in todo' \/ NodeResource \in DOMAIN reg'
    BY <1>1, <1>3, <1>4, <1>5 DEF RInv, Sent
  <2>2. Post(NodeResource) \notin todo'
    BY <1>1, <1>3
  <2>3. ASSUME NodeResource \in DOMAIN reg', NEW x \in snapshot.ids, Post(x) \notin todo'
        PROVE  x \in DOMAIN reg' /\ reg'[x] = snapshot.rev
    <3>1. CASE x = r
      BY <1>4, <3>1
    <3>2. CASE x # r
      <4>1. Post(x) \notin todo
        BY <1>3, <1>6, <2>3, <3>2
      <4>2. r # NodeResource
        BY <1>1, <4>1, <2>3 DEF RInv, Sent
      <4>3. x \in DOMAIN reg /\ reg[x] = snapshot.rev
        BY <1>1, <1>4, <4>1, <4>2, <2>3 DEF RInv, Sent
      <4> QED BY <1>4, <3>2, <4>3
    <3> QED BY <3>1, <3>2
  <2> QED BY <1>3, <2>1, <2>2, <2>3 DEF Sent
<1>11. Pruned'
  <2> SUFFICES ASSUME NEW q \in todo', q = Delete(q.of),
                      NEW c \in DOMAIN reg', c # NodeResource, Refers(c) = q.of
               PROVE  Delete(c) \in todo'
    BY DEF Pruned
  <2>1. q \in todo /\ q.of \notin snapshot.ids
    BY <1>3, <1>6, <1>7 DEF RInv, Asks
  <2>2. c # r
    BY <1>1, <2>1
  <2> QED BY <1>3, <1>4, <1>7, <2>1, <2>2 DEF RInv, Pruned
<1>12. Noted'
  <2>1. HasChildren(snapshot'.ids) /\ HasChildren(known')
    BY <1>3 DEF RInv, Noted
  <2>2. todo' \subseteq {Beat} => known' = snapshot.ids
    BY <1>1, <1>3
  <2> QED BY <1>3, <2>1, <2>2 DEF Noted
<1>13. Fresh'
  BY <1>1, <1>3 DEF RInv, Fresh, Resources, Described, SourceResources, FlowResources,
                    SenderResources, ReceiverResources
<1>14. Told'
  <2>1. down = "done" => faults # 0
    BY <1>5 DEF RInv, Told
  <2>2. up' => current'
    BY <1>3 DEF RInv, Told
  <2>3. todo' = {Beat} => current'
    BY <1>3
  <2>4. lost' => faults' > 0
    BY <1>3 DEF RInv, Told
  <2> QED BY <1>3, <1>5, <2>1, <2>2, <2>3, <2>4 DEF Told
<1>15. Removed'
  BY <1>1, <1>3, <1>4, <1>7 DEF RInv, Removed
<1>16. Halts'
  BY <1>1, <1>3 DEF RInv, Halts
<1>17. HeldTree'
  BY <1>2, <1>4 DEF RInv, HeldTree
<1> QED BY <1>8, <1>9, <1>10, <1>11, <1>12, <1>13, <1>14, <1>15, <1>16, <1>17 DEF RInv

\* A resource that is gone is removed.
LEMMA DeleteAnswered ==
  ASSUME RInv, NEW r, Delete(r) \in Due, Answered(Delete(r), todo \ {Delete(r)}),
         UNCHANGED dirty
  PROVE  RInv'
<1>1. \A x : Post(x).of = x /\ Delete(x).of = x /\ Post(x) # Beat /\ Delete(x) # Beat
  BY DEF Post, Delete, Beat
<1>2. \A x, y : Post(x) # Delete(y)
  BY DEF Post, Delete
<1>3. /\ pc = "send" /\ r \in AllResources \ snapshot.ids /\ r # NodeResource
      /\ \A c \in DOMAIN reg : c = NodeResource \/ Refers(c) # r
      /\ \A x \in AllResources : Post(x) \notin todo
      /\ Beat \in todo \ {Delete(r)} /\ Delete(r) \in todo
  BY <1>1, DueIs, DeleteDue DEF Answered
<1>4. reg' = [x \in DOMAIN reg \ {r} |-> reg[x]]
  BY <1>3 DEF Answered, Applied, Delete, Restricted, Below
<1>5. /\ todo' = todo \ {Delete(r)} /\ pc' = "send"
      /\ known' = IF todo' = {Beat} THEN snapshot.ids ELSE known
      /\ current' = (todo' = {Beat} \/ current) /\ up' = up
      /\ lost' = lost /\ waited' = (waited \/ down = "joining")
      /\ UNCHANGED <<inputs, panels, rev, marking, dirty, snapshot, stop, down, faults>>
  BY <1>1, <1>3 DEF Answered, RInv, Typed, RegistryTypeOK
<1>6. DOMAIN reg' = DOMAIN reg \ {r} /\ \A x \in DOMAIN reg' : reg'[x] = reg[x]
  BY <1>4
<1>7. Typed'
  <2>1. reg' = [x \in DOMAIN reg' |-> reg'[x]] /\ DOMAIN reg' \subseteq AllResources
        /\ \A x \in DOMAIN reg' : reg'[x] \in 0 .. MaxChanges
    BY <1>4, <1>6 DEF RInv, Typed, RegistryTypeOK
  <2>2. known' \subseteq AllResources /\ current' \in BOOLEAN /\ waited' \in BOOLEAN
    BY <1>5 DEF RInv, Typed, RegistryTypeOK
  <2> QED BY <1>3, <1>5, <2>1, <2>2 DEF RInv, Typed, RegistryTypeOK
<1>8. Asks'
  BY <1>3, <1>5 DEF RInv, Asks, HasParents
<1>9. NodeResource \in snapshot.ids /\ snapshot.ids \subseteq AllResources
  BY <1>3 DEF RInv, Asks, HasParents, Typed, RegistryTypeOK
<1>10. Deleted => Deleted'
  BY <1>4, <1>5 DEF Deleted, Forgotten
<1>11. Sent'
  <2>1. Post(NodeResource) \notin todo'
    BY <1>3, <1>5, <1>9
  <2>2. ~lost /\ ~Deleted => NodeResource \in DOMAIN reg'
    BY <1>3, <1>6, <1>9 DEF RInv, Sent
  <2>3. NodeResource \in DOMAIN reg'
          => \A x \in snapshot.ids : x \in DOMAIN reg' /\ reg'[x] = snapshot.rev
    BY <1>3, <1>6, <1>9 DEF RInv, Sent
  <2> QED BY <1>5, <1>10, <2>1, <2>2, <2>3 DEF Sent
<1>12. Pruned'
  BY <1>1, <1>3, <1>5, <1>6 DEF RInv, Pruned
<1>13. Noted'
  <2>1. HasChildren(snapshot'.ids) /\ HasChildren(known')
    BY <1>5 DEF RInv, Noted
  <2>2. todo' \subseteq {Beat} => known' = snapshot.ids
    BY <1>3, <1>5
  <2> QED BY <1>5, <2>1, <2>2 DEF Noted
<1>14. Fresh'
  BY <1>3, <1>5 DEF RInv, Fresh, Resources, Described, SourceResources, FlowResources,
                    SenderResources, ReceiverResources
<1>15. Told'
  <2>1. up' => current'
    BY <1>5 DEF RInv, Told
  <2>2. todo' = {Beat} => current'
    BY <1>5
  <2>3. lost' => faults' > 0
    BY <1>5 DEF RInv, Told
  <2>4. Deleted' => ~up' \/ lost'
    <3>1. CASE Deleted
      BY <1>5, <3>1 DEF RInv, Told
    <3>2. ASSUME ~Deleted, Deleted', ~lost  PROVE FALSE
      <4>1. NodeResource \in DOMAIN reg'
        BY <1>3, <1>6, <1>9, <3>2 DEF RInv, Sent
      <4> QED BY <3>2, <4>1 DEF Deleted, Forgotten
    <3> QED BY <1>5, <3>1, <3>2
  <2>5. down' = "done" /\ faults' = 0 => Deleted'
    BY <1>5, <1>10 DEF RInv, Told
  <2> QED BY <2>1, <2>2, <2>3, <2>4, <2>5 DEF Told
<1>16. Removed'
  <2> SUFFICES ASSUME faults = 0, NEW x \in DOMAIN reg'
               PROVE  x \in snapshot.ids \/ Delete(x) \in todo'
    BY <1>5 DEF Removed
  <2>1. x \in DOMAIN reg /\ x # r
    BY <1>6
  <2>2. x \in snapshot.ids \/ Delete(x) \in todo
    BY <1>3, <2>1 DEF RInv, Removed
  <2>3. Delete(x) # Delete(r)
    BY <1>1, <2>1
  <2> QED BY <1>5, <2>2, <2>3
<1>17. Halts'
  <2>1. Post(NodeResource) \notin todo'
    BY <1>3, <1>5, <1>9
  <2> QED BY <1>3, <1>5, <2>1 DEF RInv, Halts
<1>18. HeldTree'
  BY <1>3, <1>6 DEF RInv, HeldTree
<1> QED BY <1>7, <1>8, <1>11, <1>12, <1>13, <1>14, <1>15, <1>16, <1>17, <1>18 DEF RInv

LEMMA SucceedsKeeps ==
  ASSUME RInv, Succeeds
  PROVE  RInv'
<1>1. PICK q \in Due : Answered(q, todo \ {q}) /\ UNCHANGED dirty
  BY DEF Succeeds
<1>2. q = Beat \/ q = Post(q.of) \/ q = Delete(q.of)
  BY DEF Due, RInv, Asks
<1>3. CASE q = Beat
  BY <1>1, <1>3, BeatAnswered
<1>4. CASE q = Post(q.of)
  <2> DEFINE r == q.of
  <2>1. Post(r) \in Due /\ Answered(Post(r), todo \ {Post(r)}) /\ UNCHANGED dirty
    BY <1>1, <1>4
  <2> HIDE DEF r
  <2> QED BY <2>1, PostAnswered
<1>5. CASE q = Delete(q.of)
  <2> DEFINE r == q.of
  <2>1. Delete(r) \in Due /\ Answered(Delete(r), todo \ {Delete(r)}) /\ UNCHANGED dirty
    BY <1>1, <1>5
  <2> HIDE DEF r
  <2> QED BY <2>1, DeleteAnswered
<1> QED BY <1>2, <1>3, <1>4, <1>5

-----------------------------------------------------------------------------
(* What a request that fails leaves *)

\* What a request that succeeded leaves in the registry, also when its answer
\* is lost: with faults counted.
LEMMA FailsKeeps ==
  ASSUME RInv, NEW applied, Fails(applied), UNCHANGED <<inputs, panels, rev, marking, dirty>>,
         applied = [x \in DOMAIN applied |-> applied[x]],
         DOMAIN applied \subseteq AllResources,
         \A x \in DOMAIN applied : applied[x] \in 0 .. MaxChanges,
         \A x \in DOMAIN applied : x = NodeResource \/ Refers(x) \in DOMAIN applied,
         faults' \in 0 .. MaxFaults, faults' # 0 \/ applied = Forgotten,
         lost => faults' > 0,
         Deleted => applied = Forgotten,
         down = "done" /\ faults' = 0 => faults = 0
  PROVE  RInv'
<1>1. /\ pc = "send" /\ reg' = applied /\ todo' = {} /\ current' = FALSE /\ up' = FALSE
      /\ pc' = "wait" /\ waited' = (waited \/ down = "joining")
      /\ UNCHANGED <<snapshot, known, stop, down, lost, inputs, panels, rev, marking, dirty>>
  BY DEF Fails, description
<1>2. Typed'
  BY <1>1 DEF RInv, Typed, RegistryTypeOK
<1>3. Asks' /\ Sent' /\ Pruned' /\ Fresh'
  BY <1>1 DEF Asks, Sent, Pruned, Fresh
<1>4. Noted'
  BY <1>1 DEF RInv, Noted, HasChildren
<1>5. Told'
  BY <1>1 DEF RInv, Told, Deleted
<1>6. Removed'
  BY <1>1 DEF Removed, Forgotten
<1>7. Halts'
  BY <1>1 DEF RInv, Halts
<1>8. HeldTree'
  BY <1>1 DEF HeldTree
<1> QED BY <1>2, <1>3, <1>4, <1>5, <1>6, <1>7, <1>8 DEF RInv

LEMMA RequestLostKeeps ==
  ASSUME RInv, RequestLost
  PROVE  RInv'
<1>1. Fails(reg) /\ faults' = faults + 1 /\ faults < MaxFaults
  BY DEF RequestLost
<1>2. /\ reg = [x \in DOMAIN reg |-> reg[x]] /\ DOMAIN reg \subseteq AllResources
      /\ \A x \in DOMAIN reg : reg[x] \in 0 .. MaxChanges
      /\ \A x \in DOMAIN reg : x = NodeResource \/ Refers(x) \in DOMAIN reg
      /\ UNCHANGED <<inputs, panels, rev, marking, dirty>>
  BY <1>1 DEF RInv, Typed, RegistryTypeOK, HeldTree, Fails, description
<1>3. /\ faults' \in 0 .. MaxFaults /\ faults' # 0 /\ faults' > 0
      /\ Deleted => reg = Forgotten
  BY <1>1, RegistrationAssumption DEF RInv, Typed, RegistryTypeOK, Deleted
<1> QED BY <1>1, <1>2, <1>3, FailsKeeps

\* Only when nothing of the node is held is a request refused: the registry
\* lost it, or it is deleted.
LEMMA RefusedKeeps ==
  ASSUME RInv, Refused
  PROVE  RInv'
<1>1. PICK q \in Due : ~Accepts(q) /\ Fails(reg) /\ faults' = faults
  BY DEF Refused
<1>2. /\ reg = [x \in DOMAIN reg |-> reg[x]] /\ DOMAIN reg \subseteq AllResources
      /\ \A x \in DOMAIN reg : reg[x] \in 0 .. MaxChanges
      /\ \A x \in DOMAIN reg : x = NodeResource \/ Refers(x) \in DOMAIN reg
      /\ UNCHANGED <<inputs, panels, rev, marking, dirty>> /\ pc = "send"
  BY <1>1 DEF RInv, Typed, RegistryTypeOK, HeldTree, Fails, description
<1>3. /\ faults' \in 0 .. MaxFaults
      /\ Deleted => reg = Forgotten
      /\ lost => faults' > 0
      /\ down = "done" /\ faults' = 0 => faults = 0
  BY <1>1 DEF RInv, Typed, RegistryTypeOK, Deleted, Told
<1>4. q \in todo /\ q.method # "DELETE"
  BY <1>1, <1>2, DueIs DEF Accepts, RInv, Asks, Beat, Post, Delete
<1>5. ASSUME ~lost, ~Deleted  PROVE FALSE
  <2>1. snapshot.ids \subseteq AllResources /\ NodeResource \in snapshot.ids
    BY <1>2 DEF RInv, Typed, RegistryTypeOK, Asks, HasParents
  <2>2. CASE q = Beat
    <3>1. NodeResource \in DOMAIN reg
      BY <1>1, <1>2, <1>5, <2>2, DueIs DEF RInv, Sent, Post, Beat
    <3> QED BY <1>1, <2>2, <3>1 DEF Accepts, Beat
  <2>3. CASE q = Post(q.of)
    <3> DEFINE r == q.of
    <3>1. Post(r) \in Due /\ r # NodeResource /\ Refers(r) \notin DOMAIN reg
      <4>1. q.method = "POST"
        BY <2>3 DEF Post
      <4> QED BY <1>1, <2>3, <4>1 DEF Accepts
    <3> HIDE DEF r
    <3>2. Refers(r) \in snapshot.ids /\ Post(Refers(r)) \notin todo
      BY <1>2, <3>1, PostDue
    <3>3. Post(NodeResource) \notin todo
      BY <3>2 DEF RInv, Sent
    <3> QED BY <1>2, <1>5, <3>1, <3>2, <3>3 DEF RInv, Sent
  <2> QED BY <1>4, <2>2, <2>3 DEF RInv, Asks, Delete
<1>6. faults' # 0 \/ reg = Forgotten
  BY <1>1, <1>3, <1>5 DEF Deleted
<1> QED BY <1>1, <1>2, <1>3, <1>6, FailsKeeps

\* The registry applies the request, and the answer is lost.
LEMMA AnswerLostKeeps ==
  ASSUME RInv, AnswerLost
  PROVE  RInv'
<1>1. PICK q \in Due : Accepts(q) /\ Fails(Applied(q))
  BY DEF AnswerLost
<1>2. /\ faults' = faults + 1 /\ faults' \in 0 .. MaxFaults /\ faults' # 0 /\ faults' > 0
      /\ UNCHANGED <<inputs, panels, rev, marking, dirty>> /\ pc = "send"
  BY <1>1, RegistrationAssumption DEF AnswerLost, RInv, Typed, RegistryTypeOK, Fails,
                                      description
<1>3. q \in todo /\ (q = Beat \/ q = Post(q.of) \/ q = Delete(q.of))
  BY <1>2, DueIs DEF RInv, Asks
<1>4. /\ reg = [x \in DOMAIN reg |-> reg[x]] /\ DOMAIN reg \subseteq AllResources
      /\ \A x \in DOMAIN reg : reg[x] \in 0 .. MaxChanges
      /\ \A x \in DOMAIN reg : x = NodeResource \/ Refers(x) \in DOMAIN reg
      /\ snapshot.rev \in 0 .. MaxChanges
  BY DEF RInv, Typed, RegistryTypeOK, HeldTree
<1>5. CASE q = Beat
  <2>1. Applied(q) = reg
    BY <1>5 DEF Applied, Beat
  <2>2. Deleted => reg = Forgotten
    BY DEF Deleted
  <2> QED BY <1>1, <1>2, <1>4, <2>1, <2>2, FailsKeeps
<1>6. CASE q = Post(q.of)
  <2> DEFINE r == q.of
  <2> DEFINE applied == [x \in DOMAIN reg \cup {r} |-> IF x = r THEN snapshot.rev ELSE reg[x]]
  <2>1. /\ Applied(q) = applied /\ Post(r) \in Due
        /\ r = NodeResource \/ Refers(r) \in DOMAIN reg
    <3>1. q.method = "POST"
      BY <1>6 DEF Post
    <3> QED BY <1>1, <1>6, <3>1 DEF Accepts, Applied
  <2>2. /\ r \in AllResources
        /\ r = NodeResource => Post(NodeResource) \in todo
    BY <1>2, <1>3, <1>6, <2>1, PostDue
  <2>3. /\ applied = [x \in DOMAIN applied |-> applied[x]]
        /\ DOMAIN applied = DOMAIN reg \cup {r}
        /\ \A x \in DOMAIN applied : applied[x] \in 0 .. MaxChanges
    BY <1>4
  <2>4. ~Deleted
    BY <1>2, <2>1, <2>2 DEF RInv, Halts, Deleted, Forgotten
  <2>5. \A x \in DOMAIN applied : x = NodeResource \/ Refers(x) \in DOMAIN applied
    BY <1>4, <2>1, <2>3
  <2>6. Fails(applied)
    BY <1>1, <2>1
  <2> HIDE DEF applied, r
  <2> QED BY <1>2, <1>4, <2>2, <2>3, <2>4, <2>5, <2>6, FailsKeeps
<1>7. CASE q = Delete(q.of)
  <2> DEFINE r == q.of
  <2> DEFINE applied == [x \in DOMAIN reg \ {r} |-> reg[x]]
  <2>1. Delete(r) \in Due /\ q.method = "DELETE"
    BY <1>7 DEF Delete
  <2>2. r # NodeResource /\ \A c \in DOMAIN reg : c = NodeResource \/ Refers(c) # r
    BY <1>2, <2>1, DeleteDue
  <2>3. Applied(q) = applied
    BY <2>1, <2>2 DEF Applied, Restricted, Below
  <2>4. /\ applied = [x \in DOMAIN applied |-> applied[x]]
        /\ DOMAIN applied = DOMAIN reg \ {r}
        /\ DOMAIN applied \subseteq AllResources
        /\ \A x \in DOMAIN applied : applied[x] \in 0 .. MaxChanges
    BY <1>4
  <2>5. Deleted => applied = Forgotten
    BY DEF Deleted, Forgotten
  <2>6. \A x \in DOMAIN applied : x = NodeResource \/ Refers(x) \in DOMAIN applied
    BY <1>4, <2>2, <2>4
  <2>7. Fails(applied)
    BY <1>1, <2>3
  <2> HIDE DEF applied, r
  <2> QED BY <1>2, <2>4, <2>5, <2>6, <2>7, FailsKeeps
<1> QED BY <1>3, <1>5, <1>6, <1>7

-----------------------------------------------------------------------------
(* What the other steps leave *)

\* The registry loses everything.
LEMMA RegistryLosesKeeps ==
  ASSUME RInv, RegistryLoses
  PROVE  RInv'
<1>1. /\ faults < MaxFaults /\ reg' = Forgotten /\ lost' = TRUE /\ faults' = faults + 1
      /\ UNCHANGED <<description, loop, life>> /\ DOMAIN reg' = {}
  BY DEF RegistryLoses, Forgotten
<1>2. Typed'
  BY <1>1, RegistrationAssumption DEF RInv, Typed, RegistryTypeOK, description, loop, life,
                                      Forgotten
<1>3. Asks' /\ Noted'
  BY <1>1 DEF RInv, Asks, HasParents, Noted, HasChildren, loop
<1>4. Sent' /\ Pruned' /\ Removed' /\ HeldTree'
  BY <1>1 DEF RInv, Sent, Pruned, Removed, HeldTree, loop
<1>5. Fresh'
  BY <1>1 DEF RInv, Fresh, Resources, Described, SourceResources, FlowResources,
              SenderResources, ReceiverResources, loop, description
<1>6. Told'
  <2>1. faults' # 0 /\ faults' > 0
    BY <1>1, RegistrationAssumption DEF RInv, Typed, RegistryTypeOK
  <2> QED BY <1>1, <2>1 DEF RInv, Told, loop
<1>7. Halts'
  BY <1>1 DEF RInv, Halts, loop, life
<1> QED BY <1>2, <1>3, <1>4, <1>5, <1>6, <1>7 DEF RInv

\* The description changes; the mark comes later.
LEMMA ChangesKeeps ==
  ASSUME RInv, NEW ins \in SUBSET Inputs, NEW ps \in SUBSET Panels, Changes(ins, ps)
  PROVE  RInv'
<1>1. /\ inputs' = ins /\ panels' = ps /\ rev < MaxChanges /\ rev' = rev + 1
      /\ marking' = marking + 1
      /\ UNCHANGED <<dirty, loop, life, reg, lost, faults>>
  BY DEF Changes
<1>2. marking' # 0 /\ rev' \in 0 .. MaxChanges
  BY <1>1, RegistrationAssumption DEF RInv, Typed, RegistryTypeOK
<1>3. Typed'
  <2>1. marking' \in 0 .. MaxChanges
    BY <1>1, RegistrationAssumption DEF RInv, Typed, RegistryTypeOK
  <2> QED BY <1>1, <1>2, <2>1 DEF RInv, Typed, RegistryTypeOK, loop, life
<1>4. Asks' /\ Noted' /\ Pruned' /\ Removed' /\ HeldTree'
  BY <1>1 DEF RInv, Asks, HasParents, Noted, HasChildren, Pruned, Removed, HeldTree, loop
<1>5. Sent' /\ Told'
  BY <1>1 DEF RInv, Sent, Told, Deleted, loop, life
<1>6. Fresh'
  BY <1>2 DEF Fresh
<1>7. Halts'
  BY <1>1 DEF RInv, Halts, loop, life
<1> QED BY <1>3, <1>4, <1>5, <1>6, <1>7 DEF RInv

LEMMA MarkChangedKeeps ==
  ASSUME RInv, MarkChanged
  PROVE  RInv'
<1>1. /\ marking > 0 /\ marking' = marking - 1 /\ dirty' = TRUE
      /\ UNCHANGED <<inputs, panels, rev, loop, life, reg, lost, faults>>
  BY DEF MarkChanged
<1>2. Typed'
  BY <1>1, RegistrationAssumption DEF RInv, Typed, RegistryTypeOK, loop, life
<1>3. Asks' /\ Noted' /\ Pruned' /\ Removed' /\ HeldTree'
  BY <1>1 DEF RInv, Asks, HasParents, Noted, HasChildren, Pruned, Removed, HeldTree, loop
<1>4. Sent' /\ Told' /\ Fresh'
  BY <1>1 DEF RInv, Sent, Told, Fresh, Deleted, loop, life
<1>5. Halts'
  BY <1>1 DEF RInv, Halts, loop, life
<1> QED BY <1>2, <1>3, <1>4, <1>5 DEF RInv

\* A round begins: it reads the resources, or beats only.
LEMMA BeginRoundKeeps ==
  ASSUME RInv, BeginRound
  PROVE  RInv'
<1>1. /\ pc = "top" /\ ~stop /\ todo = {}
      /\ UNCHANGED <<inputs, panels, rev, marking, snapshot, known, current, up,
                     life, reg, lost, faults>>
      /\ \/ dirty' = FALSE /\ pc' = "read" /\ todo' = {}
         \/ current /\ dirty = FALSE /\ dirty' = dirty /\ pc' = "send" /\ todo' = {Beat}
  BY DEF BeginRound, RInv, Typed, RegistryTypeOK, Asks
<1>2. \A x : Post(x) # Beat /\ Delete(x) # Beat
  BY DEF Post, Delete, Beat
<1>3. Beat \in [method : {"POST", "DELETE", "BEAT"}, of : AllResources]
  BY DEF Beat, AllResources, Described
<1>4. Typed'
  BY <1>1, <1>3 DEF RInv, Typed, RegistryTypeOK, life
<1>5. Asks'
  BY <1>1 DEF RInv, Asks, HasParents
<1>6. Sent'
  <2>1. CASE pc' = "read"
    BY <1>1, <2>1 DEF RInv, Sent, Deleted, life
  <2>2. CASE pc' = "send"
    BY <1>1, <1>2, <2>2 DEF RInv, Sent, Deleted, life
  <2> QED BY <1>1, <2>1, <2>2
<1>7. Pruned'
  BY <1>1, <1>2 DEF Pruned
<1>8. Noted'
  <2>1. current => known = snapshot.ids
    BY <1>1 DEF RInv, Noted
  <2> QED BY <1>1, <2>1 DEF RInv, Noted, HasChildren
<1>9. Fresh'
  <2>1. CASE pc' = "read"
    <3>1. pc' # "send"
      BY <2>1
    <3> QED BY <2>1, <3>1 DEF Fresh
  <2>2. CASE pc' = "send"
    <3>1. marking = 0 => snapshot = [ids |-> Resources, rev |-> rev]
      BY <1>1, <2>2 DEF RInv, Fresh
    <3>2. Resources' = Resources
      BY <1>1 DEF Resources, Described, SourceResources, FlowResources, SenderResources,
                  ReceiverResources
    <3> QED BY <1>1, <3>1, <3>2 DEF Fresh
  <2> QED BY <1>1, <2>1, <2>2
<1>10. Told'
  BY <1>1 DEF RInv, Told, Deleted, life
<1>11. Removed'
  BY <1>1 DEF RInv, Removed, Noted
<1>12. Halts'
  BY <1>1, <1>2 DEF RInv, Halts, life
<1>13. HeldTree'
  BY <1>1 DEF RInv, HeldTree
<1> QED BY <1>4, <1>5, <1>6, <1>7, <1>8, <1>9, <1>10, <1>11, <1>12, <1>13 DEF RInv

\* The round reads what there is, and is made from it.
LEMMA ReadResourcesKeeps ==
  ASSUME RInv, ReadResources
  PROVE  RInv'
<1> DEFINE now == Resources
<1>1. /\ pc = "read" /\ pc' = "send" /\ todo = {}
      /\ snapshot' = [ids |-> now, rev |-> rev]
      /\ todo' = {Post(r) : r \in now} \cup {Delete(r) : r \in known \ now} \cup {Beat}
      /\ UNCHANGED <<description, known, current, up, life, reg, lost, faults>>
  BY DEF ReadResources, Round, RInv, Asks
<1>2. now \subseteq AllResources /\ HasParents(now) /\ HasChildren(now)
  BY DescribedIs DEF Resources, RInv, Typed, RegistryTypeOK
<1>3. Resources' = now
  BY <1>1 DEF Resources, Described, SourceResources, FlowResources, SenderResources,
              ReceiverResources, description
<1> HIDE DEF now
<1>4. \A x : Post(x).of = x /\ Delete(x).of = x /\ Post(x) # Beat /\ Delete(x) # Beat
  BY DEF Post, Delete, Beat
<1>5. \A x, y : Post(x) # Delete(y)
  BY DEF Post, Delete
<1>6. known \subseteq AllResources
  BY DEF RInv, Typed, RegistryTypeOK
<1>7. snapshot'.ids = now /\ snapshot'.rev = rev /\ NodeResource \in now
  BY <1>1, <1>2 DEF HasParents
<1>8. Typed'
  <2>1. \A x \in AllResources :
          /\ Post(x) \in [method : {"POST", "DELETE", "BEAT"}, of : AllResources]
          /\ Delete(x) \in [method : {"POST", "DELETE", "BEAT"}, of : AllResources]
    BY DEF Post, Delete
  <2>2. Beat \in [method : {"POST", "DELETE", "BEAT"}, of : AllResources]
    BY DEF Beat, AllResources, Described
  <2>3. todo' \subseteq [method : {"POST", "DELETE", "BEAT"}, of : AllResources]
    BY <1>1, <1>2, <1>6, <2>1, <2>2
  <2> QED BY <1>1, <1>2, <1>7, <2>3 DEF RInv, Typed, RegistryTypeOK, description, life
<1>9. Asks'
  <2>1. \A q \in todo' :
          \/ q = Beat
          \/ q = Post(q.of) /\ q.of \in now
          \/ q = Delete(q.of) /\ q.of \in AllResources \ now
    BY <1>1, <1>4, <1>6
  <2> QED BY <1>1, <1>2, <1>7, <2>1 DEF Asks
<1>10. Sent'
  BY <1>1, <1>7 DEF Sent
<1>11. Pruned'
  <2> SUFFICES ASSUME NEW q \in todo', q = Delete(q.of),
                      NEW c \in DOMAIN reg', c # NodeResource, Refers(c) = q.of
               PROVE  Delete(c) \in todo'
    BY DEF Pruned
  <2>1. q.of \in known \ now
    BY <1>1, <1>4, <1>5
  <2>2. c \in AllResources
    BY <1>1 DEF RInv, Typed, RegistryTypeOK
  <2>3. c \in known
    BY <1>2, <2>1, <2>2 DEF RInv, Noted, HasChildren, HasParents
  <2>4. c \notin now
    BY <1>2, <2>1 DEF HasParents
  <2> QED BY <1>1, <2>3, <2>4
<1>12. Noted'
  BY <1>1, <1>2, <1>4, <1>7 DEF RInv, Noted, HasChildren
<1>13. Fresh'
  BY <1>1, <1>3 DEF Fresh, description
<1>14. Told'
  BY <1>1, <1>4, <1>7 DEF RInv, Told, Deleted, life
<1>15. Removed'
  BY <1>1, <1>7 DEF RInv, Removed
<1>16. Halts'
  <2>1. waited' = FALSE
    BY <1>1 DEF RInv, Halts, Typed, RegistryTypeOK, life
  <2> QED BY <1>1, <2>1 DEF RInv, Halts, life
<1>17. HeldTree'
  BY <1>1 DEF RInv, HeldTree
<1> QED BY <1>8, <1>9, <1>10, <1>11, <1>12, <1>13, <1>14, <1>15, <1>16, <1>17 DEF RInv

\* Steps of the thread that neither read the description nor ask for anything.
LEMMA RestsKeeps ==
  ASSUME RInv, pc \in {"off", "top", "wait"}, pc' \in {"top", "ended"}, pc' = "ended" => stop,
         UNCHANGED <<description, todo, snapshot, known, current, up, life, reg, lost, faults>>
  PROVE  RInv'
<1>1. Typed'
  BY DEF RInv, Typed, RegistryTypeOK, description, life
<1>2. Asks' /\ Noted' /\ Pruned' /\ Removed' /\ HeldTree'
  BY DEF RInv, Asks, HasParents, Noted, HasChildren, Pruned, Removed, HeldTree
<1>3. Sent' /\ Told'
  BY DEF RInv, Sent, Told, Deleted, life
<1>4. Fresh'
  BY DEF RInv, Fresh, Resources, Described, SourceResources, FlowResources, SenderResources,
         ReceiverResources, description
<1>5. Halts'
  BY DEF RInv, Halts, life
<1> QED BY <1>1, <1>2, <1>3, <1>4, <1>5 DEF RInv

-----------------------------------------------------------------------------
(* Shutdown and crash *)

\* A shutdown begins, or stops waiting for the thread.
LEMMA ShutdownKeeps ==
  ASSUME RInv, Shutdown \/ Joined
  PROVE  RInv'
<1>1. /\ UNCHANGED <<description, loop, reg, lost, faults>>
      /\ down # "done" /\ down' \in {"joining", "deleting"}
  BY DEF Shutdown, Joined
<1>2. Typed'
  BY <1>1 DEF Shutdown, Joined, RInv, Typed, RegistryTypeOK, description, loop
<1>3. Asks' /\ Noted' /\ Pruned' /\ Removed' /\ HeldTree'
  BY <1>1 DEF RInv, Asks, HasParents, Noted, HasChildren, Pruned, Removed, HeldTree, loop
<1>4. Sent' /\ Told'
  BY <1>1 DEF RInv, Sent, Told, Deleted, loop
<1>5. Fresh'
  BY <1>1 DEF RInv, Fresh, Resources, Described, SourceResources, FlowResources,
              SenderResources, ReceiverResources, description, loop
<1>6. Halts'
  <2>1. CASE Shutdown
    BY <2>1 DEF Shutdown, RInv, Halts, loop
  <2>2. CASE Joined
    BY <2>2 DEF Joined, RInv, Halts, loop
  <2> QED BY <2>1, <2>2
<1> QED BY <1>2, <1>3, <1>4, <1>5, <1>6 DEF RInv

\* The node is deleted with everything below it, or the request fails.
LEMMA DeregisterKeeps ==
  ASSUME RInv, Deregister
  PROVE  RInv'
<1>1. /\ down = "deleting" /\ down' = "done" /\ up' = FALSE
      /\ \/ reg' = Forgotten /\ faults' = faults
         \/ reg' = reg /\ faults' = faults + 1 /\ faults < MaxFaults
      /\ UNCHANGED <<inputs, panels, rev, marking, dirty, pc, todo, snapshot, known, current,
                     stop, waited, lost>>
  BY DEF Deregister, description
<1>2. /\ faults' \in 0 .. MaxFaults
      /\ faults' = 0 => reg' = Forgotten
      /\ faults > 0 => faults' > 0
      /\ faults' = 0 => faults = 0
  BY <1>1, RegistrationAssumption DEF RInv, Typed, RegistryTypeOK
<1>3. DOMAIN Forgotten = {} /\ Forgotten = [x \in DOMAIN Forgotten |-> Forgotten[x]]
  BY DEF Forgotten
<1>4. Typed'
  <2>1. reg' = [x \in DOMAIN reg' |-> reg'[x]]
    BY <1>1, <1>3 DEF RInv, Typed
  <2>2. DOMAIN reg' \subseteq AllResources /\ \A x \in DOMAIN reg' : reg'[x] \in 0 .. MaxChanges
    BY <1>1, <1>3 DEF RInv, Typed, RegistryTypeOK
  <2>3. snapshot' = [ids |-> snapshot'.ids, rev |-> snapshot'.rev] /\ marking' <= rev'
    BY <1>1 DEF RInv, Typed
  <2>4. RegistryTypeOK'
    BY <1>1, <1>2, <2>2 DEF RInv, Typed, RegistryTypeOK
  <2> QED BY <2>1, <2>3, <2>4 DEF RInv, Typed
<1>5. Asks' /\ Noted'
  BY <1>1 DEF RInv, Asks, HasParents, Noted, HasChildren
<1>6. Pruned' /\ Removed' /\ HeldTree'
  BY <1>1, <1>2, <1>3 DEF RInv, Pruned, Removed, HeldTree
<1>7. Sent'
  BY <1>1, <1>3 DEF RInv, Sent, Deleted
<1>8. Told'
  BY <1>1, <1>2 DEF RInv, Told, Deleted
<1>9. Fresh'
  BY <1>1 DEF RInv, Fresh, Resources, Described, SourceResources, FlowResources,
              SenderResources, ReceiverResources
<1>10. Halts'
  BY <1>1 DEF RInv, Halts
<1> QED BY <1>4, <1>5, <1>6, <1>7, <1>8, <1>9, <1>10 DEF RInv

\* The process is killed: only the registry and the description stay.
LEMMA CrashKeeps ==
  ASSUME RInv, Crash
  PROVE  RInv'
<1>1. /\ faults < MaxFaults /\ faults' = faults + 1 /\ pc' = "off" /\ todo' = {}
      /\ known' = {} /\ current' = FALSE /\ up' = FALSE /\ marking' = 0 /\ dirty' = FALSE
      /\ stop' = FALSE /\ down' = "no" /\ waited' = FALSE
      /\ UNCHANGED <<inputs, panels, rev, snapshot, reg, lost>>
  BY DEF Crash
<1>2. faults' \in 0 .. MaxFaults /\ faults' # 0 /\ faults' > 0
  BY <1>1, RegistrationAssumption DEF RInv, Typed, RegistryTypeOK
<1>3. Typed'
  <2>1. reg' = [x \in DOMAIN reg' |-> reg'[x]]
    BY <1>1 DEF RInv, Typed
  <2>2. snapshot' = [ids |-> snapshot'.ids, rev |-> snapshot'.rev]
    BY <1>1 DEF RInv, Typed
  <2>3. marking' <= rev' /\ marking' \in 0 .. MaxChanges
    BY <1>1, RegistrationAssumption DEF RInv, Typed, RegistryTypeOK
  <2>4. RegistryTypeOK'
    BY <1>1, <1>2, <2>3 DEF RInv, Typed, RegistryTypeOK
  <2> QED BY <2>1, <2>2, <2>3, <2>4 DEF RInv, Typed
<1>4. Asks' /\ Pruned' /\ Sent' /\ Told' /\ Fresh' /\ Removed' /\ Halts'
  BY <1>1, <1>2 DEF Asks, Pruned, Sent, Told, Fresh, Removed, Halts, Deleted
<1>5. Noted'
  BY <1>1 DEF RInv, Noted, HasChildren
<1>6. HeldTree'
  BY <1>1 DEF RInv, HeldTree
<1> QED BY <1>3, <1>4, <1>5, <1>6 DEF RInv

LEMMA StutterKeeps ==
  ASSUME RInv, UNCHANGED registration
  PROVE  RInv'
<1>1. Typed'
  BY DEF RInv, Typed, RegistryTypeOK, registration, description, loop, life
<1>2. Asks' /\ Noted' /\ Pruned' /\ Removed' /\ HeldTree'
  BY DEF RInv, Asks, HasParents, Noted, HasChildren, Pruned, Removed, HeldTree, registration,
         loop
<1>3. Sent' /\ Told'
  BY DEF RInv, Sent, Told, Deleted, registration, loop, life
<1>4. Fresh'
  BY DEF RInv, Fresh, Resources, Described, SourceResources, FlowResources, SenderResources,
         ReceiverResources, registration, description, loop
<1>5. Halts'
  BY DEF RInv, Halts, registration, loop, life
<1> QED BY <1>1, <1>2, <1>3, <1>4, <1>5 DEF RInv

LEMMA RegistrationStarts ==
  ASSUME RegistrationInit
  PROVE  RInv
<1>1. reg = Forgotten /\ DOMAIN reg = {} /\ reg = [x \in DOMAIN reg |-> reg[x]]
  BY DEF RegistrationInit, Forgotten
<1>2. snapshot = [ids |-> {}, rev |-> 0]
  BY DEF RegistrationInit
<1>3. Typed
  <2>1. 0 \in 0 .. MaxChanges /\ 0 \in 0 .. MaxFaults
    BY RegistrationAssumption
  <2>2. RegistryTypeOK
    <3>1. snapshot.ids = {} /\ snapshot.rev = 0
      BY <1>2
    <3>2. inputs \subseteq Inputs /\ panels \subseteq Panels /\ todo = {} /\ known = {}
      BY DEF RegistrationInit
    <3>3. /\ rev = 0 /\ marking = 0 /\ faults = 0 /\ dirty = FALSE /\ stop = FALSE
          /\ down = "no" /\ waited = FALSE /\ lost = FALSE /\ pc = "off"
          /\ current = FALSE /\ up = FALSE
      BY DEF RegistrationInit
    <3> QED BY <1>1, <2>1, <3>1, <3>2, <3>3 DEF RegistryTypeOK
  <2>3. snapshot = [ids |-> snapshot.ids, rev |-> snapshot.rev]
    BY <1>2
  <2>4. marking <= rev
    BY DEF RegistrationInit
  <2> QED BY <1>1, <2>2, <2>3, <2>4 DEF Typed
<1>4. Asks /\ Sent /\ Pruned /\ Fresh /\ Told /\ Removed /\ Halts
  BY <1>1 DEF RegistrationInit, Asks, Sent, Pruned, Fresh, Told, Removed, Halts, Deleted
<1>5. Noted
  BY <1>2 DEF RegistrationInit, Noted, HasChildren
<1>6. HeldTree
  BY <1>1 DEF HeldTree
<1> QED BY <1>3, <1>4, <1>5, <1>6 DEF RInv

LEMMA RegistrationSteps ==
  ASSUME RInv, [RegistrationNext]_registration
  PROVE  RInv'
<1>1. CASE ChangeInputs
  <2>1. PICK ins \in SUBSET Inputs : Changes(ins, panels)
    BY <1>1 DEF ChangeInputs
  <2>2. panels \in SUBSET Panels
    BY DEF RInv, Typed, RegistryTypeOK
  <2> QED BY <2>1, <2>2, ChangesKeeps
<1>2. CASE ChangePanels
  <2>1. PICK ps \in SUBSET Panels : Changes(inputs, ps)
    BY <1>2 DEF ChangePanels
  <2>2. inputs \in SUBSET Inputs
    BY DEF RInv, Typed, RegistryTypeOK
  <2> QED BY <2>1, <2>2, ChangesKeeps
<1>3. CASE ChangeContent
  <2>1. inputs \in SUBSET Inputs /\ panels \in SUBSET Panels
    BY DEF RInv, Typed, RegistryTypeOK
  <2> QED BY <1>3, <2>1, ChangesKeeps DEF ChangeContent
<1>4. CASE EndLoop \/ NextRound \/ Boot
  BY <1>4, RestsKeeps DEF EndLoop, NextRound, Boot
<1>5. CASE MarkChanged \/ BeginRound \/ ReadResources \/ Succeeds
  BY <1>5, MarkChangedKeeps, BeginRoundKeeps, ReadResourcesKeeps, SucceedsKeeps
<1>6. CASE Refused \/ RequestLost \/ AnswerLost \/ RegistryLoses
  BY <1>6, RefusedKeeps, RequestLostKeeps, AnswerLostKeeps, RegistryLosesKeeps
<1>7. CASE Shutdown \/ Joined \/ Deregister \/ Crash
  BY <1>7, ShutdownKeeps, DeregisterKeeps, CrashKeeps
<1>8. CASE UNCHANGED registration
  BY <1>8, StutterKeeps
<1> QED BY <1>1, <1>2, <1>3, <1>4, <1>5, <1>6, <1>7, <1>8 DEF RegistrationNext, Thread

LEMMA RegistrationInvariant == RegistrationSpec => []RInv
<1>1. RegistrationInit => RInv
  BY RegistrationStarts
<1>2. RInv /\ [RegistrationNext]_registration => RInv'
  BY RegistrationSteps
<1> QED BY <1>1, <1>2, PTL DEF RegistrationSpec

-----------------------------------------------------------------------------
(* The theorems *)

\* _register_all() sends a tree: no resource is refused for want of what it
\* names, and none stays without it when stale ones go.
THEOREM TreeHolds == RegistrationSpec => []TreeInv
<1>1. ASSUME RInv  PROVE ParentsFirst
  <2> SUFFICES ASSUME pc = "send", ~lost, down # "done",
                      NEW q \in Due, q.method = "POST"
               PROVE  Accepts(q)
    BY DEF ParentsFirst
  <2> DEFINE r == q.of
  <2>1. q = Post(r)
    BY <1>1 DEF Due, RInv, Asks, Beat, Post, Delete
  <2>2. Post(r) \in Due
    BY <2>1
  <2> HIDE DEF r
  <2>3. /\ r \in snapshot.ids
        /\ r = NodeResource \/ (Refers(r) \in snapshot.ids /\ Post(Refers(r)) \notin todo)
    BY <1>1, <2>2, PostDue
  <2>4. ASSUME r # NodeResource  PROVE Refers(r) \in DOMAIN reg
    BY <1>1, <2>3, <2>4 DEF RInv, Sent, Deleted
  <2>5. q.method = "POST" /\ q.of = r
    BY <2>1 DEF Post
  <2> QED BY <2>4, <2>5 DEF Accepts
<1>2. RInv => TreeInv
  BY <1>1 DEF TreeInv, RInv, Typed
<1> QED BY <1>2, RegistrationInvariant, PTL

\* Between two rounds, when the thread thinks the registry is up and nothing
\* happened that it has not been told of, the registry has every resource as it
\* is now, and, without a fault, no other.
THEOREM RegistryHolds == RegistrationSpec => []RegistryAgrees
<1>1. ASSUME RInv, InStep
      PROVE  /\ \A r \in Resources : r \in DOMAIN reg /\ reg[r] = rev
             /\ faults = 0 => DOMAIN reg \subseteq Resources
  <2>1. current /\ pc # "send" /\ pc # "read" /\ todo = {} /\ ~lost /\ ~Deleted
    BY <1>1 DEF RInv, InStep, Told, Asks
  <2>2. snapshot.ids = Resources /\ snapshot.rev = rev
    BY <1>1, <2>1 DEF RInv, InStep, Fresh
  <2>3. known = snapshot.ids
    BY <1>1, <2>1 DEF RInv, Noted
  <2>4. NodeResource \in DOMAIN reg
    BY <1>1, <2>1 DEF RInv, Sent
  <2>5. \A r \in snapshot.ids : r \in DOMAIN reg /\ reg[r] = snapshot.rev
    BY <1>1, <2>1, <2>4 DEF RInv, Sent
  <2>6. faults = 0 => DOMAIN reg \subseteq known
    BY <1>1, <2>1 DEF RInv, Removed
  <2> QED BY <2>2, <2>3, <2>5, <2>6
<1>2. RInv => RegistryAgrees
  BY <1>1 DEF RegistryAgrees, RegistryTells, NoGhosts
<1> QED BY <1>2, RegistrationInvariant, PTL

\* No late request of the thread brings the node back after shutdown().
THEOREM DeregisteredHolds == RegistrationSpec => StaysDeregistered
<1>1. ASSUME RInv, [RegistrationNext]_registration, Deleted  PROVE reg' = Forgotten
  <2> USE <1>1
  <2>1. ASSUME NEW q \in Due, pc = "send", Accepts(q)  PROVE Applied(q) = Forgotten
    <3>1. q \in todo /\ (q = Beat \/ q = Post(q.of) \/ q = Delete(q.of))
      BY <2>1, DueIs DEF RInv, Asks
    <3>2. NodeResource \notin DOMAIN reg /\ DOMAIN reg = {}
      BY DEF Deleted, Forgotten
    <3>3. ASSUME q = Beat  PROVE FALSE
      <4>1. q.method = "BEAT" /\ q.of = NodeResource
        BY <3>3 DEF Beat
      <4> QED BY <2>1, <3>2, <4>1 DEF Accepts
    <3>4. ASSUME q = Post(q.of)  PROVE FALSE
      <4>1. q.method = "POST"
        BY <3>4 DEF Post
      <4>2. q.of = NodeResource
        BY <2>1, <3>2, <4>1 DEF Accepts
      <4>3. Post(NodeResource) \in todo
        BY <3>1, <3>4, <4>2
      <4> QED BY <2>1, <4>3 DEF RInv, Halts, Deleted
    <3>5. q.method = "DELETE"
      BY <3>1, <3>3, <3>4 DEF Delete
    <3> QED BY <3>2, <3>5 DEF Applied, Restricted, Below, Forgotten
  <2>2. CASE Succeeds
    BY <2>1, <2>2 DEF Succeeds, Answered
  <2>3. CASE AnswerLost
    BY <2>1, <2>3 DEF AnswerLost, Fails
  <2>4. CASE Refused \/ RequestLost
    BY <2>4 DEF Refused, RequestLost, Fails, Deleted
  <2>5. CASE RegistryLoses \/ Deregister
    BY <2>5 DEF RegistryLoses, Deregister, Deleted
  <2>6. CASE ChangeInputs \/ ChangePanels \/ ChangeContent \/ MarkChanged
    BY <2>6 DEF ChangeInputs, ChangePanels, ChangeContent, Changes, MarkChanged, Deleted
  <2>7. CASE \/ BeginRound \/ EndLoop \/ ReadResources \/ NextRound
             \/ Shutdown \/ Joined \/ Crash \/ Boot
    BY <2>7 DEF BeginRound, EndLoop, ReadResources, NextRound, Shutdown, Joined, Crash, Boot,
                Deleted
  <2>8. CASE UNCHANGED registration
    BY <2>8 DEF registration, Deleted
  <2> QED BY <2>2, <2>3, <2>4, <2>5, <2>6, <2>7, <2>8 DEF RegistrationNext, Thread
<1>2. RInv /\ [RegistrationNext]_registration
        => [down = "done" /\ reg = Forgotten => reg' = Forgotten]_registration
  BY <1>1 DEF Deleted
<1> QED BY <1>2, RegistrationInvariant, PTL DEF RegistrationSpec, StaysDeregistered
=============================================================================
