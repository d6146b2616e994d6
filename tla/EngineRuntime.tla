--------------------------- MODULE EngineRuntime ---------------------------
(* The media engine as a supervised child process: VisionMixer.start and   *)
(* stop (engine/mixer.py), the EngineRuntime each start makes with its     *)
(* supervisor thread (engine/runtime.py), and the engine processes, which  *)
(* share one control port.  The calls run on threads of the API; only      *)
(* starts exclude each other.                                              *)
EXTENDS Naturals

CONSTANTS
  Runs,       \* the EngineRuntime instances, one per start that gets that far
  Clients,    \* the threads that call start and stop
  Autostart,  \* the thread of FLOWXER_PROGRAM_AUTOSTART: it only starts
  MaxSpawns,  \* bound: a supervisor tries to start so many processes
  None        \* no runtime, no client

ASSUME RuntimeAssumption ==
  /\ MaxSpawns \in Nat \ {0}
  /\ None \notin Runs \cup Clients

VARIABLES
  call,           \* per client: the step of its call, the runtime, the process stop() saw
  lock,           \* the client that holds the mixer's lock (a start)
  engine,         \* VisionMixer.engine
  mixerState,     \* VisionMixer.state
  autostartDone,  \* the event that ends the autostart's retries
  rt,             \* the EngineRuntimes
  life,           \* the engine processes: each runtime's first, second, ...
  asked,          \* the processes that were sent SIGTERM
  pushed,         \* the processes that were given the mixer's state
  missed          \* (history) those whose runtime is ready though its push failed or took another engine
vars == <<call, lock, engine, mixerState, autostartDone, rt, life, asked, pushed, missed>>
mixer == <<lock, engine, mixerState, autostartDone>>
pushes == <<pushed, missed>>
processes == <<life, asked, pushes>>

Spawns == 1 .. MaxSpawns
NoProcess == 0

(* EngineRuntime: stop and ready are its events, process the one stop()    *)
(* sees, spawned the number of the supervisor's own, at its thread's step. *)
NewRuntime ==
  [at |-> "none", stop |-> FALSE, ready |-> FALSE, process |-> NoProcess, spawned |-> 0, state |-> "stopped"]

Idle(run) == [at |-> "idle", run |-> run, seen |-> NoProcess]
To(c, step) == call' = [call EXCEPT ![c].at = step]

Alive(r, n) == life[r][n] \in {"starting", "answering"}
Answering == {p \in Runs \X Spawns : life[p[1]][p[2]] = "answering"}
Mine(r) == <<r, rt[r].spawned>>
SeenLives(c) == call[c].seen # NoProcess /\ Alive(call[c].run, call[c].seen)
MineLives(r) == rt[r].spawned # 0 /\ Alive(r, rt[r].spawned)

Init ==
  /\ call = [c \in Clients |-> Idle(None)]
  /\ lock = None /\ engine = None /\ mixerState = "idle" /\ autostartDone = FALSE
  /\ rt = [r \in Runs |-> NewRuntime]
  /\ life = [r \in Runs |-> [n \in Spawns |-> "none"]]
  /\ asked = {} /\ pushed = {} /\ missed = {}

---------------------------------------------------------------------------
(* VisionMixer.start: under the lock, refused while the state is running;  *)
(* it makes a runtime and runtime.start() starts the supervisor.           *)
Start(c, r) ==
  /\ call[c].at = "idle" /\ (c = Autostart => ~autostartDone)
  /\ lock = None /\ mixerState # "running"
  /\ rt[r].at = "none"
  /\ lock' = c
  /\ rt' = [rt EXCEPT ![r].at = "loop"]
  /\ call' = [call EXCEPT ![c] = [at |-> "waiting", run |-> r, seen |-> NoProcess]]
  /\ UNCHANGED <<engine, mixerState, autostartDone, processes>>

(* runtime.start() sees the ready event.                                   *)
StartReady(c) ==
  /\ call[c].at = "waiting" /\ rt[call[c].run].ready
  /\ To(c, "ready")
  /\ UNCHANGED <<mixer, rt, processes>>

(* It sees that the first process failed, or its deadline passes (the      *)
(* process is spawned long before that): it stops the runtime.             *)
StartFails(c) ==
  /\ call[c].at = "waiting"
  /\ rt[call[c].run].state = "restarting" \/ rt[call[c].run].process # NoProcess
  /\ To(c, "halt")
  /\ UNCHANGED <<mixer, rt, processes>>

StartUses(c) ==
  /\ call[c].at = "ready"
  /\ engine' = call[c].run
  /\ To(c, "used")
  /\ UNCHANGED <<lock, mixerState, autostartDone, rt, processes>>

StartReturns(c) ==
  /\ call[c].at = "used"
  /\ mixerState' = "running" /\ autostartDone' = TRUE /\ lock' = None
  /\ call' = [call EXCEPT ![c] = Idle(None)]
  /\ UNCHANGED <<engine, rt, processes>>

---------------------------------------------------------------------------
(* VisionMixer.stop: without the lock; it reads the engine ...             *)
Stop(c) ==
  /\ call[c].at = "idle" /\ c # Autostart
  /\ autostartDone' = TRUE
  /\ call' = [call EXCEPT ![c] = [at |-> IF engine = None THEN "stopped" ELSE "clear",
                                  run |-> engine, seen |-> NoProcess]]
  /\ UNCHANGED <<lock, engine, mixerState, rt, processes>>

StopKeeps(c) ==
  /\ call[c].at = "clear"
  /\ To(c, "halt")
  /\ UNCHANGED <<mixer, rt, processes>>

(* ... drops it, and stops it.                                             *)
StopClears(c) ==
  /\ call[c].at = "clear"
  /\ engine' = None
  /\ To(c, "halt")
  /\ UNCHANGED <<lock, mixerState, autostartDone, rt, processes>>

StopReturns(c) ==
  /\ call[c].at = "stopped"
  /\ mixerState' = "idle"
  /\ To(c, "idle")
  /\ UNCHANGED <<lock, engine, autostartDone, rt, processes>>

---------------------------------------------------------------------------
(* EngineRuntime.stop, of a failed start or of the mixer's stop: under the *)
(* runtime's lock it sets the event and reads the process.                 *)
Halt(c) ==
  /\ call[c].at = "halt"
  /\ rt' = [rt EXCEPT ![call[c].run].stop = TRUE]
  /\ call' = [call EXCEPT ![c] = [at |-> "terminate", run |-> call[c].run, seen |-> rt[call[c].run].process]]
  /\ UNCHANGED <<mixer, processes>>

(* _terminate: SIGTERM to a process that runs, and SIGKILL in the end.     *)
Terminate(c) ==
  /\ call[c].at = "terminate"
  /\ asked' = IF SeenLives(c) THEN asked \cup {<<call[c].run, call[c].seen>>} ELSE asked
  /\ To(c, "ending")
  /\ UNCHANGED <<mixer, rt, life, pushes>>

SeenEnds(c) ==
  /\ call[c].at = "ending"
  /\ ~SeenLives(c)
  /\ To(c, "join")
  /\ UNCHANGED <<mixer, rt, processes>>

(* The supervisor's thread is joined, or the join times out; stop()        *)
(* returns to the mixer's stop or to the start, which fails.               *)
Join(c) ==
  /\ call[c].at = "join"
  /\ rt' = [rt EXCEPT ![call[c].run].ready = FALSE, ![call[c].run].state = "stopped"]
  /\ \/ /\ lock = c
        /\ lock' = None /\ mixerState' = "error"
        /\ call' = [call EXCEPT ![c] = Idle(None)]
     \/ /\ lock # c
        /\ To(c, "stopped")
        /\ UNCHANGED <<lock, mixerState>>
  /\ UNCHANGED <<engine, autostartDone, processes>>

---------------------------------------------------------------------------
(* _supervise, the thread of runtime r.                                    *)
Ended(r) == [rt[r] EXCEPT !.at = "done", !.state = "stopped"]

OnwardOnce(r) == IF rt[r].stop \/ rt[r].spawned > 1 THEN Ended(r)
                 ELSE [rt[r] EXCEPT !.at = "pause", !.state = "restarting"]

(* After a process: the thread ends, or backs off and goes on.             *)
Onward(r) == IF rt[r].stop THEN Ended(r) ELSE [rt[r] EXCEPT !.at = "pause", !.state = "restarting"]

Loop(r) ==
  /\ rt[r].at = "loop"
  /\ \/ rt[r].stop /\ rt' = [rt EXCEPT ![r] = Ended(r)]
     \/ ~rt[r].stop /\ rt' = [rt EXCEPT ![r].at = "spawn", ![r].state = "starting"]
  /\ UNCHANGED <<call, mixer, processes>>

Spawn(r) ==
  /\ rt[r].at = "spawn" /\ rt[r].spawned < MaxSpawns
  /\ rt' = [rt EXCEPT ![r].at = "publish", ![r].spawned = @ + 1]
  /\ life' = [life EXCEPT ![r][rt[r].spawned + 1] = "starting"]
  /\ UNCHANGED <<call, mixer, asked, pushes>>

(* The process cannot be started (OSError); it counts as a start.          *)
SpawnFails(r) ==
  /\ rt[r].at = "spawn" /\ rt[r].spawned + 1 < MaxSpawns
  /\ rt' = [rt EXCEPT ![r] = [Onward(r) EXCEPT !.spawned = @ + 1]]
  /\ life' = [life EXCEPT ![r][rt[r].spawned + 1] = "ended"]
  /\ UNCHANGED <<call, mixer, asked, pushes>>

(* Only now can stop() see the process.                                    *)
Publish(r) ==
  /\ rt[r].at = "publish"
  /\ rt' = [rt EXCEPT ![r].at = "await", ![r].process = rt[r].spawned]
  /\ UNCHANGED <<call, mixer, processes>>

(* _wait_ready: an engine answers on the control port, whichever it is ... *)
Answered(r) ==
  /\ rt[r].at = "await" /\ ~rt[r].stop /\ MineLives(r) /\ Answering # {}
  /\ rt' = [rt EXCEPT ![r].at = "push"]
  /\ UNCHANGED <<call, mixer, processes>>

(* ... or the process ended, or stop() was called ...                      *)
WaitGivenUp(r) ==
  /\ rt[r].at = "await" /\ (rt[r].stop \/ ~MineLives(r))
  /\ rt' = [rt EXCEPT ![r].at = "wait"]
  /\ UNCHANGED <<call, mixer, processes>>

(* ... or there was no answer in time: the process is terminated.          *)
WaitTimesOut(r) ==
  /\ rt[r].at = "await" /\ ~rt[r].stop /\ MineLives(r) /\ rt[r].spawned < MaxSpawns
  /\ rt' = [rt EXCEPT ![r].at = "wait"]
  /\ asked' = asked \cup {Mine(r)}
  /\ UNCHANGED <<call, mixer, life, pushes>>

(* on_ready pushes the state to the engine on the port, or an exception    *)
(* ends the push: it is logged, and the runtime is ready all the same.     *)
Push(r) ==
  /\ rt[r].at = "push"
  /\ rt' = [rt EXCEPT ![r].at = "wait", ![r].state = "running", ![r].ready = TRUE]
  /\ \E reached \in {Answering, {}} :
       /\ pushed' = pushed \cup reached
       /\ missed' = missed \cup ({Mine(r)} \ reached)
  /\ UNCHANGED <<call, mixer, life, asked>>

ReapEarly(r) ==
  /\ rt[r].at = "wait"
  /\ rt' = [rt EXCEPT ![r].at = "reaped", ![r].process = NoProcess]
  /\ UNCHANGED <<call, mixer, processes>>

(* process.wait() returns; what is left of the group is killed.            *)
Reap(r) ==
  /\ rt[r].at = "wait" /\ ~MineLives(r)
  /\ rt' = [rt EXCEPT ![r].at = "reaped", ![r].process = NoProcess]
  /\ UNCHANGED <<call, mixer, processes>>

AgainReady(r) ==
  /\ rt[r].at = "reaped"
  /\ rt' = [rt EXCEPT ![r] = Onward(r)]
  /\ UNCHANGED <<call, mixer, processes>>

Again(r) ==
  /\ rt[r].at = "reaped"
  /\ rt' = [rt EXCEPT ![r] = [Onward(r) EXCEPT !.ready = FALSE]]
  /\ UNCHANGED <<call, mixer, processes>>

(* The backoff passes, or stop() ends it.                                  *)
Pause(r) ==
  /\ rt[r].at = "pause"
  /\ \/ rt[r].stop /\ rt' = [rt EXCEPT ![r] = Ended(r)]
     \/ ~rt[r].stop /\ rt' = [rt EXCEPT ![r].at = "loop"]
  /\ UNCHANGED <<call, mixer, processes>>

---------------------------------------------------------------------------
(* An engine process takes the control port, or exits when another engine  *)
(* has it.                                                                 *)
Bind(r, n) ==
  /\ life[r][n] = "starting"
  /\ life' = [life EXCEPT ![r][n] = IF Answering = {} THEN "answering" ELSE "ended"]
  /\ UNCHANGED <<call, mixer, rt, asked, pushes>>

(* It ends on a signal, ...                                                *)
Exit(r, n) ==
  /\ Alive(r, n) /\ <<r, n>> \in asked
  /\ life' = [life EXCEPT ![r][n] = "ended"]
  /\ UNCHANGED <<call, mixer, rt, asked, pushes>>

(* ... or crashes (the last process of the bound does not).                *)
Crash(r, n) ==
  /\ Alive(r, n) /\ n < MaxSpawns
  /\ life' = [life EXCEPT ![r][n] = "ended"]
  /\ UNCHANGED <<call, mixer, rt, asked, pushes>>

---------------------------------------------------------------------------
Caller(c) ==
  \/ StartReady(c) \/ StartFails(c) \/ StartUses(c) \/ StartReturns(c)
  \/ StopClears(c) \/ StopReturns(c)
  \/ Halt(c) \/ Terminate(c) \/ SeenEnds(c) \/ Join(c)

Supervisor(r) ==
  \/ Loop(r) \/ Spawn(r) \/ Publish(r) \/ Answered(r) \/ WaitGivenUp(r)
  \/ Push(r) \/ Reap(r) \/ Again(r) \/ Pause(r)

Next ==
  \/ \E c \in Clients : Stop(c) \/ Caller(c) \/ \E r \in Runs : Start(c, r)
  \/ \E r \in Runs : Supervisor(r) \/ SpawnFails(r) \/ WaitTimesOut(r)
  \/ \E r \in Runs, n \in Spawns : Bind(r, n) \/ Exit(r, n) \/ Crash(r, n)

Spec == Init /\ [][Next]_vars

(* A call and a supervisor that can go on do, and an engine gets up or     *)
(* ends when it is told to.  No call has to be made.                       *)
Fairness ==
  /\ \A c \in Clients : WF_vars(Caller(c))
  /\ \A r \in Runs : WF_vars(Supervisor(r))
  /\ \A r \in Runs, n \in Spawns : WF_vars(Bind(r, n)) /\ WF_vars(Exit(r, n))
FairSpec == Spec /\ Fairness

---------------------------------------------------------------------------
CallSteps == {"idle", "waiting", "ready", "used", "clear", "stopped", "halt", "terminate", "ending", "join"}
ThreadSteps == {"none", "loop", "spawn", "publish", "await", "push", "wait", "reaped", "pause", "done"}

CallType == [at : CallSteps, run : Runs \cup {None}, seen : 0 .. MaxSpawns]
RuntimeType ==
  [at : ThreadSteps, stop : BOOLEAN, ready : BOOLEAN, process : 0 .. MaxSpawns, spawned : 0 .. MaxSpawns,
   state : {"stopped", "starting", "restarting", "running"}]

(* The type of every variable; the states of a runtime are the four that   *)
(* its status (summary) reports.                                           *)
TypeOK ==
  /\ call \in [Clients -> CallType]
  /\ lock \in Clients \cup {None}
  /\ engine \in Runs \cup {None}
  /\ mixerState \in {"idle", "running", "error"}
  /\ autostartDone \in BOOLEAN
  /\ rt \in [Runs -> RuntimeType]
  /\ life \in [Runs -> [Spawns -> {"none", "starting", "answering", "ended"}]]
  /\ asked \subseteq Runs \X Spawns
  /\ pushed \subseteq Runs \X Spawns /\ missed \subseteq Runs \X (0 .. MaxSpawns)

(* An engine that runs is the last one its runtime spawned, and the        *)
(* supervisor's thread is still there to wait for it: whatever stops,      *)
(* starts and crashes come together, a supervisor never spawns an engine   *)
(* beside its own and never ends before it.                                *)
Supervised ==
  \A r \in Runs, n \in Spawns : Alive(r, n) =>
    n = rt[r].spawned /\ rt[r].at \in {"publish", "await", "push", "wait"}

(* stop() is never called on the runtime the mixer uses: a start that gave *)
(* up is not used later, and every stop drops the runtime first.           *)
UsedIsNotStopped == engine # None => ~rt[engine].stop

(* Commands go out, one by one, while the runtime is ready; so an engine   *)
(* that answers then was given the whole state before, also after crashes  *)
(* and restarts and whichever calls cross them: the mark of one process    *)
(* never serves for the next.  The code has two exceptions: the engine's   *)
(* own push failed, or it went to the engine of another runtime.           *)
ReadyHasState ==
  \A r \in Runs, n \in Spawns :
    rt[r].ready /\ life[r][n] = "answering" => <<r, n>> \in pushed \cup missed

(* A stop of the mixer's engine that has returned has ended it ("stop the  *)
(* media engine"): no process of its runtime runs.                         *)
StopEndsEngine ==
  \A c \in Clients : call[c].at = "idle" /\ call[c].run # None =>
    \A n \in Spawns : ~Alive(call[c].run, n)

(* stop() that sees the process ends the supervisor too: no restart comes  *)
(* after it.                                                               *)
StopEndsSupervisor ==
  \A c \in Clients, r \in Runs :
    (call[c].at = "terminate" /\ call[c].run = r /\ call[c].seen # NoProcess) ~> rt[r].at = "done"

(* A start returns, with an engine or without: it gives the lock back, so  *)
(* a later start is possible.                                              *)
StartsReturn == \A c \in Clients : lock = c ~> lock # c

(* Until it is stopped, a supervisor gets an engine ready again and again, *)
(* whichever starts fail or crash.                                         *)
ServesAgain ==
  \A r \in Runs : (rt[r].at # "none" /\ ~rt[r].stop /\ ~rt[r].ready) ~> (rt[r].ready \/ rt[r].stop)

(* Every call and every restart comes to its end, whatever fails.          *)
CallsAndRestartsEnd == StopEndsSupervisor /\ StartsReturn /\ ServesAgain
=============================================================================
