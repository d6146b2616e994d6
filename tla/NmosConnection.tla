--------------------------- MODULE NmosConnection ---------------------------
(* The IS-05 side of the NMOS node (src/src/flowxer/nmos/service.py) with    *)
(* what it drives in the mixer service (engine/mixer.py): the receivers of   *)
(* the live inputs and keyers, staged, scheduled and active parameters, the  *)
(* route each one gives its input or keyer, what the engine was last told to *)
(* read, flows that appear and disappear below the MXL root, REST calls that *)
(* change the same inputs, the saved state and a restart from it.            *)
(* Everything under the node's lock is one step; what REST calls do outside  *)
(* it is a step each.                                                        *)
EXTENDS NmosNode, Naturals, FiniteSets, FiniteSetsExt

CONSTANTS
  Flows,     \* MXL flows
  Moving,    \* the flows whose files come and go; the others are there
  Times,     \* activation times
  Clients,   \* REST calls that can be in flight
  AtOnce,    \* (bound) how many receivers IS-05 and REST work with
  None       \* a model value

Connections == [on : BOOLEAN, flow : Flows \cup {None}]

\* Staged parameters: with the time that a scheduled activation has.
Parameters == [on : BOOLEAN, flow : Flows \cup {None}, at : Times \cup {None}]

ASSUME ConnectionAssumption ==
  /\ None \notin Flows \cup Times \cup Connections \cup Parameters
  /\ Moving \subseteq Flows
  /\ "key" \notin Roles
  /\ Inputs \cap Keyers = {}

InputReceivers == Inputs \X Roles
KeyReceivers == Keyers \X {"key"}
Receivers == InputReceivers \cup KeyReceivers

VARIABLES
  live,      \* the inputs of kind mxl_live
  keyers,    \* the keyers of the layout
  route,     \* what each input essence and key route names (a flow or None)
  staged,    \* _staged: parameters, and when they become active
  active,    \* _active
  timer,     \* _scheduled: the time of the timer that can still be cancelled
  fired,     \* timers that run already and wait for the lock
  state,     \* _input_states
  missing,   \* _missing_domains
  disk,      \* what is below the MXL root of each flow
  engine,    \* "off", "down", "pushed" (on_ready is done), "ready"
  reader,    \* what the engine was last told each receiver reads
  subject,   \* (bound) the receivers that requests work with and whose commands may fail
  asked,     \* the receivers of the IS-05 requests that are being served
  rest,      \* each REST call: where it is, its input, what it read and sends
  saved,     \* the state file
  unsent,    \* (history) keys the engine was not told: between on_ready and ready, or lost
  hinted     \* (history) receivers whose input a start routed by its group hint

node == <<staged, active, timer, fired, state>>
world == <<disk, subject>>
mixer == <<live, keyers, route, missing, engine, reader, hinted>>
vars == <<node, mixer, world, asked, rest, saved, unsent>>

Owns(owner) == {r \in Receivers : r[1] = owner}

\* _receiver_roles(): the receivers there are now.
Present == {r \in Receivers : r[1] \in live \cup keyers}

\* What requests ask for: without a flow an enabled receiver reads nothing,
\* like a disabled one, so that one is left out.
Asked == {conn \in Connections : conn.on => conn.flow # None}

Empty == [on |-> FALSE, flow |-> None]

\* What is read: nothing while master_enable is false.
Reads(connection) == IF connection.on THEN connection.flow ELSE None

\* active() and staged(): what is not there is empty, what is not staged is active.
ActiveOf(r) == IF active[r] = None THEN Empty ELSE active[r]

At(connection, time) == [on |-> connection.on, flow |-> connection.flow, at |-> time]

StagedOf(r) == IF staged[r] = None THEN At(ActiveOf(r), None) ELSE staged[r]

-----------------------------------------------------------------------------
(* Flows on disk, routes and the engine *)

DiskStates == {"nodomain", "noflow", "nograins", "grains"}

\* flow_presence()
Presence(f) ==
  IF f = None \/ disk[f] \in {"nodomain", "noflow"} THEN "waiting"
  ELSE IF disk[f] = "nograins" THEN "no_signal" ELSE "running"

StateOf(connection) ==
  IF Reads(connection) = None THEN "not_routed" ELSE Presence(connection.flow)

\* _mxl_source_path(): a flow is read once its domain exists.
Waits(f) == f # None /\ disk[f] = "nodomain"
Readable(f) == IF Waits(f) THEN None ELSE f

\* _push_route(), _push_key(): the routes `to' of the receivers rs.  While the
\* engine is not up nothing is sent, and what fails is not sent again; what waits
\* for its domain is noted.
Push(rs, to) ==
  /\ missing' = (missing \ rs) \cup {r \in rs : Waits(to[r])}
  /\ \E sent \in SUBSET rs :
       /\ IF engine = "ready" THEN rs \ subject \subseteq sent ELSE sent = {}
       /\ reader' = [r \in Receivers |-> IF r \in sent THEN Readable(to[r]) ELSE reader[r]]
       /\ unsent' = IF engine \in {"pushed", "ready"} THEN (unsent \cup (rs \cap KeyReceivers)) \ sent ELSE unsent

\* _apply_receiver(): the state and the route that `to' gives each of rs.
Apply(rs, to) ==
  /\ state' = [r \in Receivers |-> IF r \in rs THEN StateOf(to[r]) ELSE state[r]]
  /\ route' = [r \in Receivers |-> IF r \in rs THEN Reads(to[r]) ELSE route[r]]
  /\ hinted' = hinted \ rs
  /\ Push(rs, [r \in Receivers |-> Reads(to[r])])

\* export_state() with export_routes(): the document persist() writes.
Document(conns, routes) ==
  [live |-> live, keyers |-> keyers,
   route |-> [r \in InputReceivers |-> IF r \in Present THEN routes[r] ELSE None],
   active |-> [r \in Receivers |-> IF r \in Present THEN conns[r] ELSE None]]

-----------------------------------------------------------------------------
(* IS-05 *)

\* The request names a receiver the node has; its body is applied later.
AskPatch(r) ==
  /\ r \in Present \cap subject /\ r \notin asked
  /\ asked' = asked \cup {r}
  /\ UNCHANGED <<node, mixer, world, rest, saved, unsent>>

\* (Bug: the route is applied but not saved.)
ActivateUnsaved(r, conn) ==
  /\ active' = [active EXCEPT ![r] = conn]
  /\ staged' = [staged EXCEPT ![r] = At(conn, None)]
  /\ timer' = [timer EXCEPT ![r] = None]
  /\ IF r \in Present
     THEN Apply({r}, [q \in Receivers |-> conn])
     ELSE UNCHANGED <<state, route, hinted, missing, reader, unsent>>
  /\ UNCHANGED <<live, keyers, engine, world, rest, saved>>

\* activate(): the staged parameters become active, a timer is cancelled and
\* the route applied and saved.  An unknown receiver fails after that much.
Activate(r, conn) ==
  /\ active' = [active EXCEPT ![r] = conn]
  /\ staged' = [staged EXCEPT ![r] = At(conn, None)]
  /\ timer' = [timer EXCEPT ![r] = None]
  /\ IF r \in Present
     THEN /\ Apply({r}, [q \in Receivers |-> conn])
          /\ saved' = Document(active', route')
     ELSE UNCHANGED <<state, route, hinted, missing, reader, unsent, saved>>
  /\ UNCHANGED <<live, keyers, engine, world, rest>>

Stages(r, conn, time) ==
  /\ staged' = [staged EXCEPT ![r] = At(conn, time)]
  /\ UNCHANGED <<active, state, mixer, fired, world, rest, saved, unsent>>

\* The request's body is applied (bound: one request of a receiver at a time).
Served(r) == r \in asked /\ asked' = asked \ {r}

\* A PATCH of the staged parameters without an activation.
PatchStaged(r, conn) ==
  /\ Served(r)
  /\ Stages(r, conn, StagedOf(r).at)
  /\ UNCHANGED timer

\* With an activation that has no mode, or one that is refused: the parameters
\* are staged all the same, and a time that was scheduled is forgotten.
PatchUnscheduled(r, conn) ==
  /\ Served(r)
  /\ Stages(r, conn, None)
  /\ UNCHANGED timer

PatchImmediate(r, conn) ==
  /\ Served(r)
  /\ Activate(r, conn)
  /\ UNCHANGED fired

\* (Bug: the new timer is the one that is cancelled.)
PatchScheduledCancelled(r, conn, time) ==
  /\ Served(r)
  /\ Stages(r, conn, time)
  /\ timer' = [timer EXCEPT ![r] = None]

\* _schedule_activation(): a new timer takes the place of the one there is.
PatchScheduled(r, conn, time) ==
  /\ Served(r)
  /\ Stages(r, conn, time)
  /\ timer' = [timer EXCEPT ![r] = time]

\* The timer's thread begins and waits for the lock: it cannot be cancelled now.
TimerDue(r) ==
  /\ timer[r] # None
  /\ fired' = fired \cup {<<r, timer[r]>>}
  /\ timer' = [timer EXCEPT ![r] = None]
  /\ UNCHANGED <<staged, active, state, mixer, world, asked, rest, saved, unsent>>

\* _fire(): unless something else was staged meanwhile.
Fire(r, time) ==
  /\ <<r, time>> \in fired
  /\ fired' = fired \ {<<r, time>>}
  /\ IF staged[r] # None /\ StagedOf(r).at = time
     THEN Activate(r, [on |-> staged[r].on, flow |-> staged[r].flow])
     ELSE UNCHANGED <<staged, active, timer, state, mixer, world, rest, saved, unsent>>
  /\ UNCHANGED asked

\* (Bug: what waits is passed over.)
RefreshKeepsWaiting ==
  /\ state' = [r \in Receivers |->
                 IF r \in Present /\ active[r] # None /\ state[r] \in {"no_signal", "running"}
                 THEN Presence(active[r].flow) ELSE state[r]]
  /\ UNCHANGED <<staged, active, timer, fired, mixer, world, asked, rest, saved, unsent>>

\* refresh_waiting(): what left `waiting' is applied again, the rest only gets
\* its state.
RefreshWaiting ==
  LET seen == {r \in Present : /\ active[r] # None
                               /\ state[r] \in {"waiting", "no_signal", "running"}}
      arrived == {r \in seen : state[r] = "waiting" /\ Presence(active[r].flow) # "waiting"}
      new == [r \in Receivers |-> IF r \in arrived THEN Reads(active[r]) ELSE route[r]]
  IN /\ state' = [r \in Receivers |->
                    IF r \in arrived THEN StateOf(active[r])
                    ELSE IF r \in seen THEN Presence(active[r].flow) ELSE state[r]]
     /\ route' = new /\ hinted' = hinted \ arrived
     /\ Push(arrived, new)
     /\ UNCHANGED <<staged, active, timer, fired, live, keyers, engine, world, asked, rest, saved>>

\* _attach_waiting_sources(), while Program is on air: a route that waited for
\* its domain is sent once that exists.
AttachWaiting(r) ==
  /\ engine # "off" /\ r \in missing
  /\ IF route[r] = None \/ r \notin Present
     THEN missing' = missing \ {r} /\ UNCHANGED <<reader, unsent>>
     ELSE ~Waits(route[r]) /\ Push({r}, route)
  /\ UNCHANGED <<node, live, keyers, route, hinted, engine, world, asked, rest, saved>>

-----------------------------------------------------------------------------
(* REST calls, and the layout *)

\* sync_from_rest() of the inputs ins, under the lock: what the routes say
\* becomes active, staged and the state.
Synced(ins, routes) ==
  LET conn(r) == [on |-> routes[r] # None, flow |-> routes[r]]
      rs == UNION {Owns(i) : i \in ins}
  IN [active |-> [r \in Receivers |-> IF r \in rs THEN conn(r) ELSE active[r]],
      staged |-> [r \in Receivers |-> IF r \in rs THEN At(conn(r), None) ELSE staged[r]],
      state |-> [r \in Receivers |-> IF r \in rs THEN StateOf(conn(r)) ELSE state[r]]]

\* _drop_input_receivers()
Dropped(sync, rs) ==
  [active |-> [r \in Receivers |-> IF r \in rs THEN None ELSE sync.active[r]],
   staged |-> [r \in Receivers |-> IF r \in rs THEN None ELSE sync.staged[r]],
   state |-> [r \in Receivers |-> IF r \in rs THEN None ELSE sync.state[r]]]

Becomes(sync) ==
  /\ active' = sync.active /\ staged' = sync.staged /\ state' = sync.state
  /\ UNCHANGED <<timer, fired>>

Idle == [at |-> "idle", of |-> None, keeps |-> << >>, body |-> << >>, routed |-> FALSE]

Step(c, to) == rest' = [rest EXCEPT ![c].at = to]

\* The inputs and keyers that calls work with.
Subjects == {r[1] : r \in subject}

\* update_input(): the input as it is.
RestRead(c, i) ==
  /\ rest[c] = Idle /\ i \in live \cap Subjects /\ \A d \in Clients : rest[d].of # i
  /\ rest' = [rest EXCEPT ![c] =
                [Idle EXCEPT !.at = "read", !.of = i,
                             !.keeps = [r \in Owns(i) |-> route[r]]]]
  /\ UNCHANGED <<node, mixer, world, asked, saved, unsent>>

\* The copy with the patch, in place of the input; a patch may name an essence
\* (then the route is pushed at the end) or only other fields.
RestStore(c, patch) ==
  LET call == rest[c]
  IN /\ call.at = "read"
     /\ live' = live \cup {call.of}
     /\ DOMAIN patch \subseteq Owns(call.of)
     /\ route' = [r \in Receivers |->
                    IF r \in DOMAIN patch THEN patch[r]
                    ELSE IF r \in Owns(call.of) THEN call.keeps[r] ELSE route[r]]
     /\ rest' = [rest EXCEPT ![c].at = "stored", ![c].routed = (DOMAIN patch # {})]
     /\ UNCHANGED <<node, keyers, missing, engine, reader, hinted, world, asked, saved, unsent>>

\* (Bug: the IS-05 parameters are not brought in line.)
RestSyncNothing(c) ==
  /\ rest[c].at = "stored"
  /\ Step(c, IF rest[c].routed THEN "push" ELSE "persist")
  /\ UNCHANGED <<node, mixer, world, asked, saved, unsent>>

RestSync(c) ==
  /\ rest[c].at = "stored"
  /\ Becomes(IF rest[c].of \in live THEN Synced({rest[c].of}, route)
             ELSE [active |-> active, staged |-> staged, state |-> state])
  /\ hinted' = hinted \ Owns(rest[c].of)
  /\ Step(c, IF rest[c].routed THEN "push" ELSE "persist")
  /\ UNCHANGED <<live, keyers, route, missing, engine, reader, world, asked, saved, unsent>>

\* The route is read, then sent.
RestPush(c) ==
  /\ rest[c].at = "push"
  /\ rest' = [rest EXCEPT ![c].at = "send",
                          ![c].body = [r \in Owns(rest[c].of) |-> route[r]]]
  /\ UNCHANGED <<node, mixer, world, asked, saved, unsent>>

RestSend(c) ==
  /\ rest[c].at = "send"
  /\ Push(Owns(rest[c].of),
          [r \in Receivers |-> IF r[1] = rest[c].of THEN rest[c].body[r] ELSE None])
  /\ Step(c, "persist")
  /\ UNCHANGED <<node, live, keyers, route, hinted, engine, world, asked, saved>>

\* The middleware saves what a successful call changed, then it is answered.
RestPersist(c) ==
  /\ rest[c].at = "persist"
  /\ saved' = Document(active, route)
  /\ rest' = [rest EXCEPT ![c] = Idle]
  /\ UNCHANGED <<node, mixer, world, asked, unsent>>

\* reconcile_inputs() after the live inputs became ins and the keyers ks: a
\* receiver that is gone loses what was active; what was only staged goes with
\* the state of its owner.
Reconcile(ins, ks) ==
  LET sync == Synced(ins, [r \in Receivers |-> IF r[1] \in live THEN route[r] ELSE None])
      gone == {r \in Receivers : r[1] \notin ins \cup ks}
  IN Becomes(Dropped(sync,
       {r \in gone : active[r] # None
                       \/ \E q \in Owns(r[1]) : state[q] # None}))

\* delete_input() and apply_workspace(), off air: receivers come and go with
\* their inputs and keyers.
Relayout(c, ins, ks) ==
  /\ rest[c] = Idle /\ engine = "off" /\ <<ins, ks>> # <<live, keyers>>
  /\ SymDiff(ins, live) \cup SymDiff(ks, keyers) \subseteq Subjects
  /\ live' = ins /\ keyers' = ks
  /\ route' = [r \in Receivers |-> IF r[1] \in (ins \cap live) \cup (ks \cap keyers)
                                   THEN route[r] ELSE None]
  /\ Reconcile(ins, ks) /\ hinted' = {}
  /\ Step(c, "persist")
  /\ UNCHANGED <<missing, engine, reader, world, asked, saved, unsent>>

\* register_input() of a live input, or update_input() of the kind to or from
\* it, off air: only that input's receivers come or go.
ChangeKind(c, i) ==
  LET now == [active |-> active, staged |-> staged, state |-> state]
  IN /\ rest[c] = Idle /\ engine = "off" /\ i \in Subjects
     /\ live' = IF i \in live THEN live \ {i} ELSE live \cup {i}
     /\ route' = [r \in Receivers |-> IF r[1] = i THEN None ELSE route[r]]
     /\ hinted' = hinted \ Owns(i)
     /\ Becomes(IF i \in live THEN Dropped(now, Owns(i)) ELSE Synced({i}, route'))
     /\ Step(c, "persist")
     /\ UNCHANGED <<keyers, missing, engine, reader, world, asked, saved, unsent>>

-----------------------------------------------------------------------------
(* A start, the engine, the files and a restart of the process *)

\* _bind_group_hints() of a start or of the autostart: the flow that each
\* essence without one has by the group hint of its input.
StartReads(c, hint) ==
  /\ rest[c] = Idle /\ engine = "off"
  /\ \A r \in DOMAIN hint :
       /\ r \in Present \cap subject /\ route[r] = None
       /\ disk[hint[r]] \in {"nograins", "grains"}
  /\ rest' = [rest EXCEPT ![c] = [Idle EXCEPT !.at = "bind", !.body = hint]]
  /\ UNCHANGED <<node, mixer, world, asked, saved, unsent>>

\* Each becomes the route of an input that was not replaced meanwhile; the IS-05
\* parameters stay as they are.  The engine is started, or the start is refused;
\* the autostart and a refused start save nothing.
StartBinds(c) ==
  LET hint == rest[c].body
  IN /\ rest[c].at = "bind" /\ engine = "off"
     /\ \E bound \in SUBSET (DOMAIN hint \cap Present) :
          /\ route' = [r \in Receivers |-> IF r \in bound THEN hint[r] ELSE route[r]]
          /\ hinted' = hinted \cup bound
     /\ \/ engine' = "down" /\ rest' = [rest EXCEPT ![c] = [Idle EXCEPT !.at = "persist"]]
        \/ engine' \in {"off", "down"} /\ rest' = [rest EXCEPT ![c] = Idle]
     /\ UNCHANGED <<node, live, keyers, missing, reader, world, asked, saved, unsent>>

\* _on_engine_ready(), under the lock: every route is pushed to the new engine;
\* those it refuses, or does not answer in time, are passed over.
PushState ==
  /\ engine = "down" /\ engine' = "pushed"
  /\ missing' = {r \in Present : Waits(route[r])} \cup (missing \ Present)
  /\ \E sent \in SUBSET Present :
       /\ Present \ subject \subseteq sent
       /\ reader' = [r \in Receivers |-> IF r \in sent THEN Readable(route[r]) ELSE None]
       /\ unsent' = (Present \cap KeyReceivers) \ sent
  /\ UNCHANGED <<node, live, keyers, route, hinted, world, asked, rest, saved>>

Ready == engine = "pushed" /\ engine' = "ready" /\ UNCHANGED <<missing, reader, unsent>>
Exits ==
  /\ engine \in {"pushed", "ready"} /\ engine' = "down"
  /\ reader' = [r \in Receivers |-> None] /\ unsent' = {} /\ UNCHANGED missing
Stops ==
  /\ engine # "off" /\ engine' = "off"
  /\ reader' = [r \in Receivers |-> None] /\ missing' = {} /\ unsent' = {}

Engine ==
  /\ Ready \/ Exits \/ Stops
  /\ UNCHANGED <<node, live, keyers, route, hinted, world, asked, rest, saved>>

\* A domain, a flow in it and its grains appear; the flow or the domain goes.
Appear(f) ==
  disk[f] # "grains" /\
  disk' = [disk EXCEPT ![f] = CASE @ = "nodomain" -> "noflow" [] @ = "noflow" -> "nograins"
                                [] @ = "nograins" -> "grains"]
Vanish(f) == \E to \in {"nodomain", "noflow"} : disk[f] # to /\ disk' = [disk EXCEPT ![f] = to]
Files ==
  /\ \E f \in Moving : Appear(f) \/ Vanish(f)
  /\ UNCHANGED <<node, mixer, subject, asked, rest, saved, unsent>>

\* What the state file gives a receiver: its parameters, or those its route tells.
Restored(r) ==
  IF saved.active[r] # None THEN saved.active[r]
  ELSE IF r[1] \in saved.live THEN [on |-> saved.route[r] # None, flow |-> saved.route[r]]
  ELSE None

\* The process is killed and starts again: _apply_state() and import_routes()
\* activate what was saved.
Restart ==
  LET conns == [r \in Receivers |-> Restored(r)]
  IN /\ live' = saved.live /\ keyers' = saved.keyers
     /\ active' = conns
     /\ staged' = [r \in Receivers |-> IF conns[r] = None THEN None ELSE At(conns[r], None)]
     /\ state' = [r \in Receivers |-> IF conns[r] = None THEN None ELSE StateOf(conns[r])]
     /\ route' = [r \in Receivers |-> IF conns[r] = None THEN None ELSE Reads(conns[r])]
     /\ missing' = {r \in Receivers : Waits(route'[r])}
     /\ timer' = [r \in Receivers |-> None] /\ fired' = {}
     /\ engine' = "off" /\ reader' = [r \in Receivers |-> None] /\ unsent' = {} /\ hinted' = {}
     /\ asked' = {} /\ rest' = [c \in Clients |-> Idle]
     /\ UNCHANGED <<world, saved>>

-----------------------------------------------------------------------------
Init ==
  /\ live = {} /\ keyers = Keyers /\ route = [r \in Receivers |-> None]
  /\ staged = [r \in Receivers |-> None] /\ active = [r \in Receivers |-> None]
  /\ timer = [r \in Receivers |-> None] /\ fired = {}
  /\ state = [r \in Receivers |-> None] /\ missing = {}
  /\ disk = [f \in Flows |-> IF f \in Moving THEN "nodomain" ELSE "grains"]
  /\ engine = "off" /\ reader = [r \in Receivers |-> None] /\ unsent = {} /\ hinted = {}
  /\ subject \in kSubset(AtOnce, Receivers) /\ asked = {} /\ rest = [c \in Clients |-> Idle]
  /\ saved = Document(active, route)

Patch ==
  \/ \E r \in Receivers : AskPatch(r)
  \/ \E r \in Receivers, conn \in Asked :
       \/ PatchStaged(r, conn) \/ PatchUnscheduled(r, conn) \/ PatchImmediate(r, conn)
       \/ \E time \in Times : PatchScheduled(r, conn, time)

Timers == \E r \in Receivers : TimerDue(r) \/ \E time \in Times : Fire(r, time)

Rest(c) ==
  \/ RestSync(c) \/ RestPush(c) \/ RestSend(c) \/ RestPersist(c)
  \/ \E i \in Inputs : RestRead(c, i)
  \/ \E r \in InputReceivers, f \in Flows \cup {None} : RestStore(c, [q \in {r} |-> f])
  \/ RestStore(c, << >>)
  \/ \E ins \in SUBSET Inputs, ks \in SUBSET Keyers : Relayout(c, ins, ks)
  \/ \E i \in Inputs : ChangeKind(c, i)
  \/ \E rs \in SUBSET InputReceivers : \E hint \in [rs -> Flows] : StartReads(c, hint)
  \/ StartBinds(c)

Next ==
  \/ Patch \/ Timers \/ RefreshWaiting \/ \E r \in Receivers : AttachWaiting(r)
  \/ \E c \in Clients : Rest(c)
  \/ PushState \/ Engine \/ Files \/ Restart

\* The refresh and watch threads run for ever, and the engine comes up.
Fairness ==
  /\ WF_vars(RefreshWaiting)
  /\ \A r \in Receivers : WF_vars(AttachWaiting(r))

Spec == Init /\ [][Next]_vars /\ Fairness
-----------------------------------------------------------------------------
(* Properties *)

\* Every variable keeps its type.
TypeOK ==
  /\ live \subseteq Inputs /\ keyers \subseteq Keyers
  /\ route \in [Receivers -> Flows \cup {None}]
  /\ reader \in [Receivers -> Flows \cup {None}]
  /\ active \in [Receivers -> Connections \cup {None}]
  /\ staged \in [Receivers -> Parameters \cup {None}]
  /\ timer \in [Receivers -> Times \cup {None}] /\ fired \subseteq Receivers \X Times
  /\ state \in [Receivers -> {None, "not_routed", "waiting", "no_signal", "running"}]
  /\ missing \subseteq Receivers /\ unsent \subseteq Receivers /\ hinted \subseteq Receivers
  /\ disk \in [Flows -> DiskStates]
  /\ engine \in {"off", "down", "pushed", "ready"}
  /\ subject \subseteq Receivers /\ asked \subseteq subject
  /\ \A c \in Clients : rest[c].at \in {"idle", "read", "stored", "push", "send", "bind", "persist"}

\* No REST call is changing the input of r, or the layout (a start that has not
\* bound its hints yet changed nothing).
Quiet(r) == \A c \in Clients : rest[c].at \in {"idle", "bind"} \/ rest[c].of \notin {r[1], None}

\* "They are one control plane": when no REST call is on the way, the IS-05
\* parameters of an input's receiver say what the input is routed to, however
\* activations, timers, REST calls and the waiting for flows interleaved.  The
\* code's exception is a route that a start gave by the group hint: it lasts
\* until the next activation, REST call or layout for that receiver.
ControlAgrees ==
  \A r \in Present \cap InputReceivers :
    Quiet(r) => active[r] # None /\ (route[r] = Reads(active[r]) \/ r \in hinted)

\* The same of a keyer's receiver: a keyer that is removed and comes back with
\* the layout reads what its receiver says.
KeyAgrees == \A r \in Present \cap KeyReceivers : route[r] = Reads(ActiveOf(r))

\* What was acknowledged is in the state file: killed at any time, the process
\* comes back with the same inputs and keyers and the parameters of every receiver.
SavedWhenQuiet ==
  \A r \in Receivers :
    Quiet(r) =>
      /\ r \in Present <=> r[1] \in saved.live \cup saved.keyers
      /\ r \in Present => Restored(r) = active[r]

\* A scheduled activation is never forgotten: as long as it is staged, a timer
\* for its time runs, also when others were replaced or cancelled.
ScheduleIsArmed ==
  \A r \in Receivers :
    staged[r] # None /\ StagedOf(r).at # None
      => timer[r] = StagedOf(r).at \/ <<r, StagedOf(r).at>> \in fired

\* The engine reads what r is routed to, or r waits for its domain.
IsRead(r) == reader[r] = route[r] \/ (reader[r] = None /\ r \in missing)

\* The engine reads every key as it is routed, unless the last command for that
\* key did not reach it: it was no longer down and not yet ready, or refused the
\* command or did not answer (the code logs that and does not send it again).
KeysAreRead ==
  engine = "ready" => \A r \in (Present \cap KeyReceivers) \ unsent : IsRead(r)

\* _engine_call: "While the engine is not up (off-air, restarting) nothing is
\* sent: its state is pushed when it is ready."
EngineReads ==
  engine = "ready" => \A r \in Present : Quiet(r) => IsRead(r)

\* Once the files stay and the engine runs, no receiver keeps waiting, and no
\* key waits for its domain.
WaitingEnds ==
  <>[](engine = "ready" /\ \A f \in Flows : disk[f] = "grains")
    => <>[](/\ \A r \in Present : state[r] # "waiting"
            /\ missing \cap Present = {})

\* IS-05, the console and the engine agree on every receiver.
PlaneInv == TypeOK /\ ControlAgrees /\ KeysAreRead
=============================================================================
