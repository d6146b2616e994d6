-------------------------- MODULE NmosRegistration --------------------------
(* The IS-04 side of the NMOS node (src/src/flowxer/nmos/service.py,         *)
(* registry.py and ids.py): the resources the node describes, and the        *)
(* thread that registers them in an external registry, heartbeats, registers *)
(* again what changed, removes what is gone and, on shutdown, deregisters    *)
(* the node.  Requests get lost, answers get lost, the registry loses the    *)
(* node (it restarts, or expires it) and the process is killed.              *)
EXTENDS NmosNode, Naturals

CONSTANTS
  Panels,      \* the rendering MEs
  Outputs,     \* the senders of an ME: "video", "audio", "pvw-video"
  Nobody,      \* a model value: no resource
  MaxChanges,  \* bound on the changes of the description
  MaxFaults    \* bound on the faults (requests, answers, registry, process)

ASSUME RegistrationAssumption ==
  /\ MaxChanges \in Nat /\ MaxFaults \in Nat
  /\ "key" \notin Roles

VARIABLES
  inputs,      \* the live inputs
  panels,      \* the rendering MEs of the layout
  rev,         \* how often what the resources say has changed
  marking,     \* changes made, their mark_changed() still to come
  dirty,       \* _dirty
  reg,         \* the registry: what each resource it holds says (its rev)
  stop,        \* _stop
  pc,          \* where the registry thread is
  todo,        \* the requests of the round that are left
  snapshot,    \* the resources of the round, as read under the lock
  known,       \* _registered
  current,     \* the thread's flag: nothing has to be registered again
  up,          \* registry_up
  down,        \* where shutdown() is: "no", "joining", "deleting", "done"
  waited,      \* the thread has ended a request since shutdown() began
  lost,        \* (history) the registry lost the node after the last heartbeat
  faults       \* (bound) the faults so far

description == <<inputs, panels, rev, marking, dirty>>
loop == <<pc, todo, snapshot, known, current, up>>
life == <<stop, down, waited>>
registration == <<description, loop, life, reg, lost, faults>>

-----------------------------------------------------------------------------
(* The resources *)

\* ids.py: an id is a function of the kind, the owner and the role, so that it
\* survives a restart.
ResourceId(kind, owner, role) == [kind |-> kind, owner |-> owner, role |-> role]

NodeResource == ResourceId("node", Nobody, Nobody)
DeviceResource == ResourceId("device", Nobody, Nobody)

\* Two receivers for each live input, one for each keyer.
ReceiverResources(ins) ==
  {ResourceId("receiver", i, role) : i \in ins, role \in Roles}
    \cup {ResourceId("receiver", k, "key") : k \in Keyers}

\* Every output of a rendering ME is a source, a flow of it and a sender of that.
SourceResources(ps) == {ResourceId("source", p, role) : p \in ps, role \in Outputs}
FlowResources(ps) == {ResourceId("flow", p, role) : p \in ps, role \in Outputs}
SenderResources(ps) == {ResourceId("sender", p, role) : p \in ps, role \in Outputs}

\* The resource another one names, which the registry must hold before it.
Refers(r) ==
  CASE r.kind = "node" -> Nobody
    [] r.kind = "device" -> NodeResource
    [] r.kind = "source" -> DeviceResource
    [] r.kind = "flow" -> ResourceId("source", r.owner, r.role)
    [] r.kind = "sender" -> ResourceId("flow", r.owner, r.role)
    [] r.kind = "receiver" -> DeviceResource

Described(ins, ps) ==
  {NodeResource, DeviceResource} \cup SourceResources(ps) \cup FlowResources(ps)
    \cup SenderResources(ps) \cup ReceiverResources(ins)

Resources == Described(inputs, panels)

AllResources == Described(Inputs, Panels)

Post(r) == [method |-> "POST", of |-> r]
Delete(r) == [method |-> "DELETE", of |-> r]
Beat == [method |-> "BEAT", of |-> NodeResource]

\* (Bug: senders before the flows they name.)
LevelSendersFirst ==
  [node |-> 0, device |-> 1, source |-> 2, sender |-> 3, flow |-> 4, receiver |-> 5]

\* The place of a kind in a round: parents first.
Level == [node |-> 0, device |-> 1, source |-> 2, flow |-> 3, sender |-> 4, receiver |-> 5]

\* (Bug: a resource that is gone is not removed.)
RoundWithoutDelete(now, before) == {Post(r) : r \in now} \cup {Beat}

\* The requests of a round: every resource, what is stale, and the heartbeat.
Round(now, before) ==
  {Post(r) : r \in now} \cup {Delete(r) : r \in before \ now} \cup {Beat}

\* The order of a round: kind by kind, what is stale children first, and the
\* heartbeat last.  Within a kind any order: what is stale is a set.
Before(a, b) ==
  \/ a.method = "POST" /\ b.method = "POST" /\ Level[a.of.kind] < Level[b.of.kind]
  \/ a.method = "POST" /\ b.method # "POST"
  \/ a.method = "DELETE" /\ b.method = "DELETE" /\ Level[a.of.kind] > Level[b.of.kind]
  \/ a.method = "DELETE" /\ b.method = "BEAT"

\* The requests that can be the next one.
Due == {request \in todo : \A other \in todo : ~Before(other, request)}

-----------------------------------------------------------------------------
(* The registry, a service of its own *)

\* A registry that holds nothing.
Forgotten == [r \in {} |-> 0]

\* What deleting a resource takes with it: the node takes everything.
Below(r) == IF r = NodeResource THEN DOMAIN reg ELSE {r}

Restricted(to) == [r \in to |-> reg[r]]

\* Registers r as the snapshot of the round describes it; a resource whose
\* parent the registry does not hold is refused.
Accepts(request) ==
  CASE request.method = "POST" ->
         request.of = NodeResource \/ Refers(request.of) \in DOMAIN reg
    [] request.method = "BEAT" -> request.of \in DOMAIN reg
    [] request.method = "DELETE" -> TRUE     \* 404 counts as deleted

Applied(request) ==
  CASE request.method = "POST" ->
         [r \in DOMAIN reg \cup {request.of} |->
            IF r = request.of THEN snapshot.rev ELSE reg[r]]
    [] request.method = "DELETE" -> Restricted(DOMAIN reg \ Below(request.of))
    [] request.method = "BEAT" -> reg

\* The registry restarts, or no heartbeat came for long: it holds nothing.
RegistryLoses ==
  /\ faults < MaxFaults /\ reg # Forgotten
  /\ reg' = Forgotten
  /\ lost' = TRUE
  /\ faults' = faults + 1
  /\ UNCHANGED <<description, loop, life>>

-----------------------------------------------------------------------------
(* What changes the description *)

Changes(ins, ps) ==
  /\ rev < MaxChanges
  /\ inputs' = ins
  /\ panels' = ps
  /\ rev' = rev + 1
  /\ marking' = marking + 1
  /\ UNCHANGED <<dirty, loop, life, reg, lost, faults>>

\* A live input is created or removed, the layout gets more or fewer MEs, or an
\* activation, a label or Program on air changes what a resource says.
ChangeInputs == \E ins \in SUBSET Inputs : ins # inputs /\ Changes(ins, panels)
ChangePanels == \E ps \in SUBSET Panels : ps # panels /\ Changes(inputs, ps)
ChangeContent == Changes(inputs, panels)

\* mark_changed(): after the change, outside the lock.
MarkChanged ==
  /\ marking > 0
  /\ marking' = marking - 1
  /\ dirty' = TRUE
  /\ UNCHANGED <<inputs, panels, rev, loop, life, reg, lost, faults>>

-----------------------------------------------------------------------------
(* The registry thread *)

\* The top of the loop: what changed is registered, otherwise the heartbeat.
BeginRound ==
  /\ pc = "top" /\ ~stop
  /\ IF ~current \/ dirty
     THEN dirty' = FALSE /\ pc' = "read" /\ todo' = {}
     ELSE dirty' = dirty /\ pc' = "send" /\ todo' = {Beat}
  /\ UNCHANGED <<inputs, panels, rev, marking, snapshot, known, current, up,
                 life, reg, lost, faults>>

EndLoop ==
  /\ pc = "top" /\ stop
  /\ pc' = "ended"
  /\ UNCHANGED <<description, todo, snapshot, known, current, up, life, reg, lost, faults>>

\* _register_all(): the resources as they are, under the lock.
ReadResources ==
  /\ pc = "read"
  /\ snapshot' = [ids |-> Resources, rev |-> rev]
  /\ todo' = Round(Resources, known)
  /\ pc' = "send"
  /\ UNCHANGED <<description, known, current, up, life, reg, lost, faults>>

\* A request succeeds.  With the last one before the heartbeat the round is
\* registered, with the heartbeat the registry is up.
Answered(request, rest) ==
  /\ pc = "send" /\ Accepts(request)
  /\ reg' = Applied(request)
  /\ todo' = rest
  /\ known' = IF rest = {Beat} THEN snapshot.ids ELSE known
  /\ current' = (rest = {Beat} \/ current)
  /\ up' = (rest = {} \/ up)
  /\ lost' = (lost /\ request # Beat)
  /\ pc' = IF rest = {} THEN "wait" ELSE "send"
  /\ waited' = (waited \/ down = "joining")
  /\ UNCHANGED <<inputs, panels, rev, marking, snapshot, stop, down, faults>>

\* (Bug: the mark is cleared when the round is registered.)
SucceedsClearingMark ==
  \E request \in Due :
    LET rest == todo \ {request}
    IN Answered(request, rest) /\ dirty' = (dirty /\ rest # {Beat})

Succeeds ==
  \E request \in Due : Answered(request, todo \ {request}) /\ UNCHANGED dirty

\* A request fails: the round ends, and the next one registers everything.
Fails(applied) ==
  /\ pc = "send"
  /\ reg' = applied
  /\ todo' = {}
  /\ current' = FALSE
  /\ up' = FALSE
  /\ pc' = "wait"
  /\ waited' = (waited \/ down = "joining")
  /\ UNCHANGED <<description, snapshot, known, stop, down, lost>>

Refused ==
  \E request \in Due : ~Accepts(request) /\ Fails(reg) /\ UNCHANGED faults

RequestLost == faults < MaxFaults /\ Fails(reg) /\ faults' = faults + 1

AnswerLost ==
  /\ faults < MaxFaults
  /\ \E request \in Due : Accepts(request) /\ Fails(Applied(request))
  /\ faults' = faults + 1

\* _stop.wait(HEARTBEAT_S)
NextRound ==
  /\ pc = "wait"
  /\ pc' = "top"
  /\ UNCHANGED <<description, todo, snapshot, known, current, up, life, reg, lost, faults>>

-----------------------------------------------------------------------------
(* Shutdown and crash *)

\* (Bug: shutdown() does not stop the thread.)
ShutdownKeepsThread ==
  /\ down = "no" /\ pc # "off"
  /\ down' = "joining" /\ stop' = stop /\ waited' = FALSE
  /\ UNCHANGED <<description, loop, reg, lost, faults>>

Shutdown ==
  /\ down = "no" /\ pc # "off"
  /\ down' = "joining" /\ stop' = TRUE /\ waited' = FALSE
  /\ UNCHANGED <<description, loop, reg, lost, faults>>

\* join() waits a second longer than one request may take: it ends with the
\* thread, or when a whole request has ended since.
Joined ==
  /\ down = "joining" /\ (pc = "ended" \/ waited)
  /\ down' = "deleting"
  /\ UNCHANGED <<description, loop, reg, stop, waited, lost, faults>>

\* The node is deleted, with everything below it; a failure is only logged.
Deregister ==
  /\ down = "deleting" /\ down' = "done" /\ up' = FALSE
  /\ \/ reg' = Forgotten /\ UNCHANGED faults
     \/ faults < MaxFaults /\ faults' = faults + 1 /\ reg' = reg
  /\ UNCHANGED <<description, pc, todo, snapshot, known, current, stop, waited, lost>>

\* The process is killed: the registry keeps what it holds.
Crash ==
  /\ faults < MaxFaults /\ pc # "off" /\ down # "done"
  /\ pc' = "off" /\ todo' = {} /\ known' = {} /\ current' = FALSE /\ up' = FALSE
  /\ marking' = 0 /\ dirty' = FALSE
  /\ stop' = FALSE /\ down' = "no" /\ waited' = FALSE
  /\ faults' = faults + 1
  /\ UNCHANGED <<inputs, panels, rev, snapshot, reg, lost>>

\* boot() starts the thread.
Boot ==
  /\ pc = "off"
  /\ pc' = "top"
  /\ UNCHANGED <<description, todo, snapshot, known, current, up, life, reg, lost, faults>>

-----------------------------------------------------------------------------
RegistrationInit ==
  /\ inputs = {} /\ panels = Panels /\ rev = 0 /\ marking = 0 /\ dirty = FALSE
  /\ reg = Forgotten /\ lost = FALSE /\ faults = 0
  /\ stop = FALSE /\ down = "no" /\ waited = FALSE
  /\ pc = "off" /\ todo = {} /\ known = {} /\ current = FALSE /\ up = FALSE
  /\ snapshot = [ids |-> {}, rev |-> 0]

Thread == BeginRound \/ EndLoop \/ ReadResources \/ Succeeds \/ Refused \/ NextRound

RegistrationNext ==
  \/ ChangeInputs \/ ChangePanels \/ ChangeContent \/ MarkChanged
  \/ Thread \/ RequestLost \/ AnswerLost \/ RegistryLoses
  \/ Shutdown \/ Joined \/ Deregister \/ Crash \/ Boot

\* The thread and the callers keep running; requests, answers, the registry
\* and the process may fail, but not for ever (MaxFaults).
ThreadFairness ==
  /\ WF_registration(Thread) /\ WF_registration(MarkChanged) /\ WF_registration(Boot)
  /\ WF_registration(Joined) /\ WF_registration(Deregister)

RegistrationSpec == RegistrationInit /\ [][RegistrationNext]_registration /\ ThreadFairness
-----------------------------------------------------------------------------
(* Properties *)

\* Every variable keeps its type.
RegistryTypeOK ==
  /\ inputs \subseteq Inputs /\ panels \subseteq Panels /\ rev \in 0..MaxChanges
  /\ marking \in 0..MaxChanges /\ dirty \in BOOLEAN
  /\ DOMAIN reg \subseteq AllResources /\ \A r \in DOMAIN reg : reg[r] \in 0..MaxChanges
  /\ stop \in BOOLEAN /\ down \in {"no", "joining", "deleting", "done"}
  /\ waited \in BOOLEAN /\ lost \in BOOLEAN /\ faults \in 0..MaxFaults
  /\ pc \in {"off", "top", "read", "send", "wait", "ended"}
  /\ todo \subseteq [method : {"POST", "DELETE", "BEAT"}, of : AllResources]
  /\ known \subseteq AllResources /\ current \in BOOLEAN /\ up \in BOOLEAN
  /\ snapshot.ids \subseteq AllResources /\ snapshot.rev \in 0..MaxChanges

\* The thread sits between two rounds, thinks the registry is up, and nothing
\* happened that it has not been told of.
InStep ==
  pc \in {"wait", "top"} /\ up /\ ~dirty /\ marking = 0 /\ ~lost

\* registry_up says the truth: whatever failed or changed during the rounds
\* before, the registry then holds every resource as the node describes it now.
RegistryTells ==
  InStep => \A r \in Resources : r \in DOMAIN reg /\ reg[r] = rev

\* What does not exist any more (an input deleted, fewer panels) is removed, as
\* long as no request fails and the process is not killed.
NoGhosts == InStep /\ faults = 0 => DOMAIN reg \subseteq Resources

\* The comment of _register_all without the proviso: "Remove what no longer
\* exists".  It is what a controller that reads the registry relies on.
NoGhostsEver == InStep => DOMAIN reg \subseteq Resources

\* Resources are registered parents first: none is refused for want of what it
\* refers to, unless the registry lost the node meanwhile or it is deleted.
ParentsFirst ==
  pc = "send" /\ ~lost /\ down # "done"
    => \A request \in Due : request.method = "POST" => Accepts(request)

\* What is stale goes children first, also when a removal fails half way: the
\* registry never holds a resource whose parent it does not hold.
HeldTree ==
  \A r \in DOMAIN reg : r = NodeResource \/ Refers(r) \in DOMAIN reg

\* Once shutdown() has deleted the node, no late request of the registry thread
\* brings it back, even when join() gave up waiting for that thread.
StaysDeregistered == [][down = "done" /\ reg = Forgotten => reg' = Forgotten]_registration

\* Whatever is lost, in the end the registry has every resource as it is now,
\* unless the node is shut down.
CatchesUp ==
  <>[](down # "no" \/ \A r \in Resources : r \in DOMAIN reg /\ reg[r] = rev)

\* What the registry holds and is sent is a tree at every step.
TreeInv == RegistryTypeOK /\ ParentsFirst /\ HeldTree

\* Between two rounds the registry holds what the node has, no less and no more.
RegistryAgrees == RegistryTells /\ NoGhosts
=============================================================================
