------------------------ MODULE EngineRuntimeProofs ------------------------
(***************************************************************************)
(* Theorems about the supervised engine (EngineRuntime), for any number of *)
(* runtimes and clients.                                                   *)
(*                                                                         *)
(* Supervised is inductive with the types.  That the mixer's runtime is    *)
(* not stopped rests on who knows a runtime: a start has a new one to      *)
(* itself until the mixer uses it, and a call that will stop a runtime has *)
(* taken it from the mixer (Used).  That a ready engine was pushed its     *)
(* state needs that the ready mark ends before the next process (Given).   *)
(***************************************************************************)
EXTENDS EngineRuntime, TLAPS

(* The runtimes that calls work on.                                        *)
Working == CallSteps \ {"idle", "stopped"}

CallsTyped ==
  /\ call \in [Clients -> CallType]
  /\ \A c \in Clients : call[c].at \in Working => call[c].run \in Runs

OthersTyped ==
  /\ lock \in Clients \cup {None}
  /\ engine \in Runs \cup {None}
  /\ mixerState \in {"idle", "running", "error"}
  /\ autostartDone \in BOOLEAN
  /\ life \in [Runs -> [Spawns -> {"none", "starting", "answering", "ended"}]]
  /\ asked \subseteq Runs \X Spawns
  /\ pushed \subseteq Runs \X Spawns /\ missed \subseteq Runs \X (0 .. MaxSpawns)

CallsInv == TypeOK /\ CallsTyped

(* Nobody knows a runtime that was not started; one that is being started  *)
(* is known to its start alone, and not stopped; the mixer's is not one    *)
(* that a call stops.                                                      *)
Fresh(r) == rt[r].at = "none" => ~rt[r].stop /\ engine # r /\ \A c \in Clients : call[c].run # r

Own(c) ==
  call[c].at \in {"waiting", "ready"} =>
    /\ ~rt[call[c].run].stop /\ engine # call[c].run
    /\ \A d \in Clients \ {c} : call[d].run # call[c].run

Stopping(c) == call[c].at \in {"halt", "terminate", "ending", "join"} => engine # call[c].run

Used ==
  /\ UsedIsNotStopped
  /\ \A r \in Runs : Fresh(r)
  /\ \A c \in Clients : Own(c) /\ Stopping(c)

(* Ready is set by the push for the last process, and cleared before the   *)
(* next one is spawned.                                                    *)
Given ==
  \A r \in Runs :
    /\ rt[r].at = "push" => rt[r].spawned # 0
    /\ rt[r].ready => /\ rt[r].at \in {"wait", "reaped"}
                      /\ Mine(r) \in pushed \cup missed

---------------------------------------------------------------------------
(* Initially nothing runs and no call is made. *)
LEMMA InitInv == Init => CallsInv /\ Supervised /\ Used /\ Given
<1> SUFFICES ASSUME Init PROVE CallsInv /\ Supervised /\ Used /\ Given
  OBVIOUS
<1> USE RuntimeAssumption DEF Init, Idle, NewRuntime, NoProcess, Spawns
<1>1. CallsTyped
  BY DEF CallsTyped, CallType, CallSteps, Working
<1>2. rt \in [Runs -> RuntimeType]
  BY DEF RuntimeType, ThreadSteps
<1>3. OthersTyped
  BY DEF OthersTyped
<1>4. Supervised
  BY DEF Supervised, Alive
<1>5. Used
  BY DEF Used, UsedIsNotStopped, Fresh, Own, Stopping
<1>6. Given
  BY DEF Given
<1>7. QED
  BY <1>1, <1>2, <1>3, <1>4, <1>5, <1>6 DEF CallsInv, CallsTyped, OthersTyped, TypeOK

(* What _supervise makes of its runtime after a process has the type.      *)
LEMMA Endings ==
  ASSUME rt \in [Runs -> RuntimeType], NEW r \in Runs
  PROVE  /\ Ended(r) \in RuntimeType
         /\ Ended(r).stop = rt[r].stop /\ Ended(r).at = "done" /\ Ended(r).ready = rt[r].ready
         /\ Ended(r).spawned = rt[r].spawned
         /\ Onward(r) \in RuntimeType
         /\ Onward(r).stop = rt[r].stop /\ Onward(r).process = rt[r].process /\ Onward(r).spawned = rt[r].spawned
         /\ Onward(r).ready = rt[r].ready /\ Onward(r).at \in {"done", "pause"}
  BY DEF Ended, Onward, RuntimeType, ThreadSteps

(* Every step keeps the types: of the calls and of the runtimes they work  *)
(* on, ...                                                                 *)
LEMMA CallsStep == CallsInv /\ [Next]_vars => CallsTyped'
<1> SUFFICES ASSUME CallsInv, [Next]_vars PROVE CallsTyped'
  OBVIOUS
<1> USE RuntimeAssumption DEF CallsInv, CallsTyped, TypeOK, CallType, CallSteps, Working, NoProcess, To, mixer, processes
<1>1. ASSUME NEW c \in Clients, NEW r \in Runs, Start(c, r) PROVE CallsTyped'
  BY <1>1 DEF Start, mixer
<1>2. ASSUME NEW c \in Clients, StartReady(c) PROVE CallsTyped'
  BY <1>2 DEF StartReady, To
<1>3. ASSUME NEW c \in Clients, StartFails(c) PROVE CallsTyped'
  BY <1>3 DEF StartFails
<1>4. ASSUME NEW c \in Clients, StartUses(c) PROVE CallsTyped'
  BY <1>4 DEF StartUses
<1>5. ASSUME NEW c \in Clients, StartReturns(c) PROVE CallsTyped'
  BY <1>5 DEF StartReturns, Idle
<1>6. ASSUME NEW c \in Clients, Stop(c) PROVE CallsTyped'
  BY <1>6 DEF Stop
<1>7. ASSUME NEW c \in Clients, StopClears(c) PROVE CallsTyped'
  BY <1>7 DEF StopClears
<1>8. ASSUME NEW c \in Clients, StopReturns(c) PROVE CallsTyped'
  BY <1>8 DEF StopReturns
<1>9. ASSUME NEW c \in Clients, Halt(c) PROVE CallsTyped'
  BY <1>9 DEF Halt, RuntimeType
<1>10. ASSUME NEW c \in Clients, Terminate(c) PROVE CallsTyped'
  BY <1>10 DEF Terminate, SeenLives
<1>11. ASSUME NEW c \in Clients, SeenEnds(c) PROVE CallsTyped'
  BY <1>11 DEF SeenEnds, SeenLives
<1>12. ASSUME NEW c \in Clients, Join(c) PROVE CallsTyped'
  <2>1. \/ call' = [call EXCEPT ![c] = Idle(None)]
        \/ call' = [call EXCEPT ![c].at = "stopped"]
    BY <1>12 DEF Join
  <2>2. CASE call' = [call EXCEPT ![c] = Idle(None)]
    BY <2>2 DEF Idle
  <2>3. CASE call' = [call EXCEPT ![c].at = "stopped"]
    BY <2>3
  <2>4. QED
    BY <2>1, <2>2, <2>3
<1>13. ASSUME NEW r \in Runs, Loop(r) PROVE CallsTyped'
  BY <1>13 DEF Loop, Ended
<1>14. ASSUME NEW r \in Runs, Spawn(r) PROVE CallsTyped'
  BY <1>14 DEF Spawn, mixer
<1>15. ASSUME NEW r \in Runs, SpawnFails(r) PROVE CallsTyped'
  BY <1>15 DEF SpawnFails, Onward, Ended
<1>16. ASSUME NEW r \in Runs, Publish(r) PROVE CallsTyped'
  BY <1>16 DEF Publish
<1>17. ASSUME NEW r \in Runs, Answered(r) PROVE CallsTyped'
  BY <1>17 DEF Answered, MineLives
<1>18. ASSUME NEW r \in Runs, WaitGivenUp(r) PROVE CallsTyped'
  BY <1>18 DEF WaitGivenUp, MineLives
<1>19. ASSUME NEW r \in Runs, WaitTimesOut(r) PROVE CallsTyped'
  BY <1>19 DEF WaitTimesOut, MineLives, Mine
<1>20. ASSUME NEW r \in Runs, Push(r) PROVE CallsTyped'
  BY <1>20 DEF Push
<1>21. ASSUME NEW r \in Runs, Reap(r) PROVE CallsTyped'
  BY <1>21 DEF Reap, MineLives
<1>22. ASSUME NEW r \in Runs, Again(r) PROVE CallsTyped'
  BY <1>22 DEF Again, Onward, Ended
<1>23. ASSUME NEW r \in Runs, Pause(r) PROVE CallsTyped'
  BY <1>23 DEF Pause, Ended
<1>24. ASSUME NEW r \in Runs, NEW n \in Spawns, Bind(r, n) PROVE CallsTyped'
  BY <1>24 DEF Bind
<1>25. ASSUME NEW r \in Runs, NEW n \in Spawns, Exit(r, n) PROVE CallsTyped'
  BY <1>25 DEF Exit
<1>26. ASSUME NEW r \in Runs, NEW n \in Spawns, Crash(r, n) PROVE CallsTyped'
  BY <1>26 DEF Crash
<1>27. CASE UNCHANGED vars
  BY <1>27 DEF vars, mixer, processes
<1>28. QED
  BY <1>1, <1>2, <1>3, <1>4, <1>5, <1>6, <1>7, <1>8, <1>9, <1>10, <1>11, <1>12, <1>13, <1>14, <1>15, <1>16, <1>17, <1>18, <1>19, <1>20, <1>21, <1>22, <1>23, <1>24, <1>25, <1>26, <1>27 DEF Next, Caller, Supervisor

(* ... of the runtimes, ...                                                *)
LEMMA RuntimesStep ==
  ASSUME rt \in [Runs -> RuntimeType], \A c \in Clients : call[c].at \in Working => call[c].run \in Runs, [Next]_vars
  PROVE  rt' \in [Runs -> RuntimeType]
<1> USE RuntimeAssumption DEF RuntimeType, ThreadSteps
<1>1. ASSUME NEW c \in Clients, NEW r \in Runs, Start(c, r) PROVE rt' \in [Runs -> RuntimeType]
  BY <1>1 DEF Start, mixer
<1>2. ASSUME NEW c \in Clients, StartReady(c) PROVE rt' \in [Runs -> RuntimeType]
  BY <1>2 DEF StartReady, mixer, processes, To
<1>3. ASSUME NEW c \in Clients, StartFails(c) PROVE rt' \in [Runs -> RuntimeType]
  BY <1>3 DEF StartFails, mixer, processes
<1>4. ASSUME NEW c \in Clients, StartUses(c) PROVE rt' \in [Runs -> RuntimeType]
  BY <1>4 DEF StartUses, mixer, processes
<1>5. ASSUME NEW c \in Clients, StartReturns(c) PROVE rt' \in [Runs -> RuntimeType]
  BY <1>5 DEF StartReturns, mixer, processes, Idle
<1>6. ASSUME NEW c \in Clients, Stop(c) PROVE rt' \in [Runs -> RuntimeType]
  BY <1>6 DEF Stop, mixer, processes
<1>7. ASSUME NEW c \in Clients, StopClears(c) PROVE rt' \in [Runs -> RuntimeType]
  BY <1>7 DEF StopClears, mixer, processes
<1>8. ASSUME NEW c \in Clients, StopReturns(c) PROVE rt' \in [Runs -> RuntimeType]
  BY <1>8 DEF StopReturns, mixer, processes
<1>9. ASSUME NEW c \in Clients, Halt(c) PROVE rt' \in [Runs -> RuntimeType]
  BY <1>9 DEF Halt, Working, CallSteps
<1>10. ASSUME NEW c \in Clients, Terminate(c) PROVE rt' \in [Runs -> RuntimeType]
  BY <1>10 DEF Terminate, mixer, processes, SeenLives
<1>11. ASSUME NEW c \in Clients, SeenEnds(c) PROVE rt' \in [Runs -> RuntimeType]
  BY <1>11 DEF SeenEnds, mixer, processes, SeenLives
<1>12. ASSUME NEW c \in Clients, Join(c) PROVE rt' \in [Runs -> RuntimeType]
  <2>1. call[c].run \in Runs
    BY <1>12 DEF Join, Working, CallSteps
  <2>2. [rt[call[c].run] EXCEPT !.ready = FALSE, !.state = "stopped"] \in RuntimeType
    BY <2>1
  <2>3. rt' = [rt EXCEPT ![call[c].run] = [rt[call[c].run] EXCEPT !.ready = FALSE, !.state = "stopped"]]
    BY <1>12 DEF Join
  <2>4. QED
    BY <2>1, <2>2, <2>3
<1>13. ASSUME NEW r \in Runs, Loop(r) PROVE rt' \in [Runs -> RuntimeType]
  <2>1. CASE rt[r].stop
    BY <1>13, <2>1, Endings DEF Loop
  <2>2. CASE ~rt[r].stop
    BY <1>13, <2>2 DEF Loop
  <2>3. QED
    BY <2>1, <2>2
<1>14. ASSUME NEW r \in Runs, Spawn(r) PROVE rt' \in [Runs -> RuntimeType]
  BY <1>14 DEF Spawn, mixer
<1>15. ASSUME NEW r \in Runs, SpawnFails(r) PROVE rt' \in [Runs -> RuntimeType]
  <2>1. rt[r].spawned + 1 \in 0 .. MaxSpawns
    BY <1>15 DEF SpawnFails
  <2>2. [Onward(r) EXCEPT !.spawned = @ + 1] \in RuntimeType
    BY <2>1, Endings
  <2>3. rt' = [rt EXCEPT ![r] = [Onward(r) EXCEPT !.spawned = @ + 1]]
    BY <1>15 DEF SpawnFails
  <2>4. QED
    BY <2>2, <2>3
<1>16. ASSUME NEW r \in Runs, Publish(r) PROVE rt' \in [Runs -> RuntimeType]
  <2>1. [rt[r] EXCEPT !.at = "await", !.process = rt[r].spawned] \in RuntimeType
    BY DEF RuntimeType, ThreadSteps, NoProcess
  <2>2. rt' = [rt EXCEPT ![r] = [rt[r] EXCEPT !.at = "await", !.process = rt[r].spawned]]
    BY <1>16 DEF Publish
  <2>3. QED
    BY <2>1, <2>2
<1>17. ASSUME NEW r \in Runs, Answered(r) PROVE rt' \in [Runs -> RuntimeType]
  BY <1>17 DEF Answered, MineLives
<1>18. ASSUME NEW r \in Runs, WaitGivenUp(r) PROVE rt' \in [Runs -> RuntimeType]
  BY <1>18 DEF WaitGivenUp, MineLives
<1>19. ASSUME NEW r \in Runs, WaitTimesOut(r) PROVE rt' \in [Runs -> RuntimeType]
  BY <1>19 DEF WaitTimesOut, MineLives, Mine
<1>20. ASSUME NEW r \in Runs, Push(r) PROVE rt' \in [Runs -> RuntimeType]
  <2>1. [rt[r] EXCEPT !.at = "wait", !.state = "running", !.ready = TRUE] \in RuntimeType
    BY DEF RuntimeType, ThreadSteps, NoProcess
  <2>2. rt' = [rt EXCEPT ![r] = [rt[r] EXCEPT !.at = "wait", !.state = "running", !.ready = TRUE]]
    BY <1>20 DEF Push
  <2>3. QED
    BY <2>1, <2>2
<1>21. ASSUME NEW r \in Runs, Reap(r) PROVE rt' \in [Runs -> RuntimeType]
  <2>0. NoProcess \in 0 .. MaxSpawns
    BY DEF NoProcess
  <2>1. [rt[r] EXCEPT !.at = "reaped", !.process = NoProcess] \in RuntimeType
    BY <2>0 DEF RuntimeType, ThreadSteps
  <2>2. rt' = [rt EXCEPT ![r] = [rt[r] EXCEPT !.at = "reaped", !.process = NoProcess]]
    BY <1>21 DEF Reap
  <2>3. QED
    BY <2>1, <2>2
<1>22. ASSUME NEW r \in Runs, Again(r) PROVE rt' \in [Runs -> RuntimeType]
  <2>1. [Onward(r) EXCEPT !.ready = FALSE] \in RuntimeType
    <3>1. \A x \in RuntimeType : [x EXCEPT !.ready = FALSE] \in RuntimeType
      OBVIOUS
    <3>2. QED
      BY <3>1, Endings
  <2>2. rt' = [rt EXCEPT ![r] = [Onward(r) EXCEPT !.ready = FALSE]]
    BY <1>22 DEF Again
  <2>3. QED
    BY <2>1, <2>2
<1>23. ASSUME NEW r \in Runs, Pause(r) PROVE rt' \in [Runs -> RuntimeType]
  <2>1. CASE rt[r].stop
    BY <1>23, <2>1, Endings DEF Pause
  <2>2. CASE ~rt[r].stop
    BY <1>23, <2>2 DEF Pause
  <2>3. QED
    BY <2>1, <2>2
<1>24. ASSUME NEW r \in Runs, NEW n \in Spawns, Bind(r, n) PROVE rt' \in [Runs -> RuntimeType]
  BY <1>24 DEF Bind, mixer, processes
<1>25. ASSUME NEW r \in Runs, NEW n \in Spawns, Exit(r, n) PROVE rt' \in [Runs -> RuntimeType]
  BY <1>25 DEF Exit, mixer, processes
<1>26. ASSUME NEW r \in Runs, NEW n \in Spawns, Crash(r, n) PROVE rt' \in [Runs -> RuntimeType]
  BY <1>26 DEF Crash, mixer, processes
<1>27. CASE UNCHANGED vars
  BY <1>27 DEF vars, mixer, processes
<1>28. QED
  BY <1>1, <1>2, <1>3, <1>4, <1>5, <1>6, <1>7, <1>8, <1>9, <1>10, <1>11, <1>12, <1>13, <1>14, <1>15, <1>16, <1>17, <1>18, <1>19, <1>20, <1>21, <1>22, <1>23, <1>24, <1>25, <1>26, <1>27 DEF Next, Caller, Supervisor

(* ... and of the other variables.                                         *)
LEMMA OthersStep == CallsInv /\ [Next]_vars => OthersTyped'
<1> SUFFICES ASSUME CallsInv, [Next]_vars PROVE OthersTyped'
  OBVIOUS
<1> USE RuntimeAssumption DEF CallsInv, CallsTyped, OthersTyped, TypeOK, Working, Spawns, NoProcess, mixer, processes, pushes
<1>1. ASSUME NEW c \in Clients, NEW r \in Runs, Start(c, r) PROVE OthersTyped'
  BY <1>1 DEF Start, mixer
<1>2. ASSUME NEW c \in Clients, StartReady(c) PROVE OthersTyped'
  BY <1>2 DEF StartReady, To
<1>3. ASSUME NEW c \in Clients, StartFails(c) PROVE OthersTyped'
  BY <1>3 DEF StartFails
<1>4. ASSUME NEW c \in Clients, StartUses(c) PROVE OthersTyped'
  BY <1>4 DEF StartUses, CallType
<1>5. ASSUME NEW c \in Clients, StartReturns(c) PROVE OthersTyped'
  BY <1>5 DEF StartReturns, Idle
<1>6. ASSUME NEW c \in Clients, Stop(c) PROVE OthersTyped'
  BY <1>6 DEF Stop
<1>7. ASSUME NEW c \in Clients, StopClears(c) PROVE OthersTyped'
  BY <1>7 DEF StopClears
<1>8. ASSUME NEW c \in Clients, StopReturns(c) PROVE OthersTyped'
  BY <1>8 DEF StopReturns
<1>9. ASSUME NEW c \in Clients, Halt(c) PROVE OthersTyped'
  BY <1>9 DEF Halt
<1>10. ASSUME NEW c \in Clients, Terminate(c) PROVE OthersTyped'
  <2>1. call[c].run \in Runs /\ call[c].seen \in 0 .. MaxSpawns
    BY <1>10 DEF Terminate, CallType
  <2>2. asked' \subseteq Runs \X Spawns
    BY <1>10, <2>1 DEF Terminate, SeenLives
  <2>3. QED
    BY <1>10, <2>2 DEF Terminate
<1>11. ASSUME NEW c \in Clients, SeenEnds(c) PROVE OthersTyped'
  BY <1>11 DEF SeenEnds, SeenLives
<1>12. ASSUME NEW c \in Clients, Join(c) PROVE OthersTyped'
  BY <1>12 DEF Join, Idle
<1>13. ASSUME NEW r \in Runs, Loop(r) PROVE OthersTyped'
  BY <1>13 DEF Loop, Ended
<1>14. ASSUME NEW r \in Runs, Spawn(r) PROVE OthersTyped'
  BY <1>14 DEF Spawn, mixer
<1>15. ASSUME NEW r \in Runs, SpawnFails(r) PROVE OthersTyped'
  BY <1>15 DEF SpawnFails, Onward, Ended
<1>16. ASSUME NEW r \in Runs, Publish(r) PROVE OthersTyped'
  BY <1>16 DEF Publish
<1>17. ASSUME NEW r \in Runs, Answered(r) PROVE OthersTyped'
  BY <1>17 DEF Answered, MineLives
<1>18. ASSUME NEW r \in Runs, WaitGivenUp(r) PROVE OthersTyped'
  BY <1>18 DEF WaitGivenUp, MineLives
<1>19. ASSUME NEW r \in Runs, WaitTimesOut(r) PROVE OthersTyped'
  BY <1>19 DEF WaitTimesOut, MineLives, Mine, RuntimeType
<1>20. ASSUME NEW r \in Runs, Push(r) PROVE OthersTyped'
  BY <1>20 DEF Push, Answering, Mine, RuntimeType
<1>21. ASSUME NEW r \in Runs, Reap(r) PROVE OthersTyped'
  BY <1>21 DEF Reap, MineLives
<1>22. ASSUME NEW r \in Runs, Again(r) PROVE OthersTyped'
  BY <1>22 DEF Again, Onward, Ended
<1>23. ASSUME NEW r \in Runs, Pause(r) PROVE OthersTyped'
  BY <1>23 DEF Pause, Ended
<1>24. ASSUME NEW r \in Runs, NEW n \in Spawns, Bind(r, n) PROVE OthersTyped'
  BY <1>24 DEF Bind
<1>25. ASSUME NEW r \in Runs, NEW n \in Spawns, Exit(r, n) PROVE OthersTyped'
  BY <1>25 DEF Exit
<1>26. ASSUME NEW r \in Runs, NEW n \in Spawns, Crash(r, n) PROVE OthersTyped'
  BY <1>26 DEF Crash
<1>27. CASE UNCHANGED vars
  BY <1>27 DEF vars, mixer, processes
<1>28. QED
  BY <1>1, <1>2, <1>3, <1>4, <1>5, <1>6, <1>7, <1>8, <1>9, <1>10, <1>11, <1>12, <1>13, <1>14, <1>15, <1>16, <1>17, <1>18, <1>19, <1>20, <1>21, <1>22, <1>23, <1>24, <1>25, <1>26, <1>27 DEF Next, Caller, Supervisor

(* A supervisor spawns only after its engine ended, and ends only then.    *)
LEMMA SupervisionStep == TypeOK /\ Supervised /\ [Next]_vars => Supervised'
<1> SUFFICES ASSUME TypeOK, Supervised, [Next]_vars PROVE Supervised'
  OBVIOUS
<1> USE DEF TypeOK, Supervised, Alive, ThreadSteps, Spawns, NoProcess, mixer, processes, pushes
<1>1. ASSUME NEW c \in Clients, NEW r \in Runs, Start(c, r) PROVE Supervised'
  BY <1>1 DEF Start, mixer
<1>2. ASSUME NEW c \in Clients, StartReady(c) PROVE Supervised'
  BY <1>2 DEF StartReady, To
<1>3. ASSUME NEW c \in Clients, StartFails(c) PROVE Supervised'
  BY <1>3 DEF StartFails
<1>4. ASSUME NEW c \in Clients, StartUses(c) PROVE Supervised'
  BY <1>4 DEF StartUses
<1>5. ASSUME NEW c \in Clients, StartReturns(c) PROVE Supervised'
  BY <1>5 DEF StartReturns, Idle
<1>6. ASSUME NEW c \in Clients, Stop(c) PROVE Supervised'
  BY <1>6 DEF Stop
<1>7. ASSUME NEW c \in Clients, StopClears(c) PROVE Supervised'
  BY <1>7 DEF StopClears
<1>8. ASSUME NEW c \in Clients, StopReturns(c) PROVE Supervised'
  BY <1>8 DEF StopReturns
<1>9. ASSUME NEW c \in Clients, Halt(c) PROVE Supervised'
  BY <1>9 DEF Halt
<1>10. ASSUME NEW c \in Clients, Terminate(c) PROVE Supervised'
  BY <1>10 DEF Terminate, SeenLives
<1>11. ASSUME NEW c \in Clients, SeenEnds(c) PROVE Supervised'
  BY <1>11 DEF SeenEnds, SeenLives
<1>12. ASSUME NEW c \in Clients, Join(c) PROVE Supervised'
  BY <1>12 DEF Join, Idle
<1>13. ASSUME NEW r \in Runs, Loop(r) PROVE Supervised'
  <2>1. \A n \in Spawns : ~Alive(r, n)
    BY <1>13 DEF Loop
  <2>2. \A q \in Runs \ {r} : rt'[q] = rt[q]
    BY <1>13 DEF Loop
  <2>3. UNCHANGED life
    BY <1>13 DEF Loop
  <2>4. QED
    BY <2>1, <2>2, <2>3
<1>14. ASSUME NEW r \in Runs, Spawn(r) PROVE Supervised'
  BY <1>14 DEF Spawn, mixer
<1>15. ASSUME NEW r \in Runs, SpawnFails(r) PROVE Supervised'
  BY <1>15 DEF SpawnFails, Onward, Ended
<1>16. ASSUME NEW r \in Runs, Publish(r) PROVE Supervised'
  BY <1>16 DEF Publish
<1>17. ASSUME NEW r \in Runs, Answered(r) PROVE Supervised'
  BY <1>17 DEF Answered, MineLives
<1>18. ASSUME NEW r \in Runs, WaitGivenUp(r) PROVE Supervised'
  BY <1>18 DEF WaitGivenUp, MineLives
<1>19. ASSUME NEW r \in Runs, WaitTimesOut(r) PROVE Supervised'
  BY <1>19 DEF WaitTimesOut, MineLives, Mine
<1>20. ASSUME NEW r \in Runs, Push(r) PROVE Supervised'
  BY <1>20 DEF Push
<1>21. ASSUME NEW r \in Runs, Reap(r) PROVE Supervised'
  BY <1>21 DEF Reap, MineLives
<1>22. ASSUME NEW r \in Runs, Again(r) PROVE Supervised'
  BY <1>22 DEF Again, Onward, Ended
<1>23. ASSUME NEW r \in Runs, Pause(r) PROVE Supervised'
  <2>1. \A n \in Spawns : ~Alive(r, n)
    BY <1>23 DEF Pause
  <2>2. \A q \in Runs \ {r} : rt'[q] = rt[q]
    BY <1>23 DEF Pause
  <2>3. UNCHANGED life
    BY <1>23 DEF Pause
  <2>4. QED
    BY <2>1, <2>2, <2>3
<1>24. ASSUME NEW r \in Runs, NEW n \in Spawns, Bind(r, n) PROVE Supervised'
  BY <1>24 DEF Bind
<1>25. ASSUME NEW r \in Runs, NEW n \in Spawns, Exit(r, n) PROVE Supervised'
  BY <1>25 DEF Exit
<1>26. ASSUME NEW r \in Runs, NEW n \in Spawns, Crash(r, n) PROVE Supervised'
  BY <1>26 DEF Crash
<1>27. CASE UNCHANGED vars
  BY <1>27 DEF vars, mixer, processes
<1>28. QED
  BY <1>1, <1>2, <1>3, <1>4, <1>5, <1>6, <1>7, <1>8, <1>9, <1>10, <1>11, <1>12, <1>13, <1>14, <1>15, <1>16, <1>17, <1>18, <1>19, <1>20, <1>21, <1>22, <1>23, <1>24, <1>25, <1>26, <1>27 DEF Next, Caller, Supervisor

(* A step that changes neither calls nor the mixer's engine, and of the    *)
(* runtimes neither stop nor whether they were started, keeps Used.        *)
LEMMA UsedKept ==
  ASSUME CallsInv, Used, UNCHANGED <<call, engine>>,
         \A r \in Runs : rt'[r].stop = rt[r].stop /\ (rt'[r].at = "none" => rt[r].at = "none")
  PROVE  Used'
<1>1. UsedIsNotStopped'
  BY DEF CallsInv, TypeOK, Used, UsedIsNotStopped
<1>2. \A r \in Runs : Fresh(r)'
  BY DEF Used, Fresh
<1>3. \A c \in Clients : Own(c)' /\ Stopping(c)'
  BY DEF Used, Own, Stopping, CallsInv, CallsTyped, Working, CallSteps
<1>4. QED
  BY <1>1, <1>2, <1>3 DEF Used

(* What a supervisor does to its runtime leaves stop alone. *)
LEMMA SupervisorKeeps ==
  ASSUME rt \in [Runs -> RuntimeType], NEW r \in Runs,
         Supervisor(r) \/ SpawnFails(r) \/ WaitTimesOut(r)
  PROVE  /\ UNCHANGED <<call, mixer>>
         /\ \A q \in Runs : rt'[q].stop = rt[q].stop /\ (rt'[q].at = "none" => rt[q].at = "none")
<1> USE DEF mixer
<1>2. CASE Loop(r)
  <2>1. CASE rt[r].stop
    BY <1>2, <2>1, Endings DEF Loop
  <2>2. CASE ~rt[r].stop
    BY <1>2, <2>2 DEF Loop, RuntimeType
  <2>3. QED
    BY <2>1, <2>2
<1>3. CASE Spawn(r) \/ Publish(r) \/ Answered(r) \/ WaitGivenUp(r) \/ WaitTimesOut(r) \/ Push(r) \/ Reap(r)
  BY <1>3 DEF Spawn, Publish, Answered, WaitGivenUp, WaitTimesOut, Push, Reap, RuntimeType
<1>4. CASE SpawnFails(r)
  BY <1>4, Endings DEF SpawnFails, RuntimeType
<1>5. CASE Again(r)
  BY <1>5, Endings DEF Again, RuntimeType
<1>6. CASE Pause(r)
  <2>1. CASE rt[r].stop
    BY <1>6, <2>1, Endings DEF Pause
  <2>2. CASE ~rt[r].stop
    BY <1>6, <2>2 DEF Pause, RuntimeType
  <2>3. QED
    BY <2>1, <2>2
<1>7. QED
  BY <1>2, <1>3, <1>4, <1>5, <1>6 DEF Supervisor

(* No runtime the mixer uses is stopped: every step keeps Used.            *)
LEMMA UsedStep == CallsInv /\ Used /\ [Next]_vars => Used'
<1> SUFFICES ASSUME CallsInv, Used, [Next]_vars PROVE Used'
  OBVIOUS
<1>1. call \in [Clients -> CallType] /\ rt \in [Runs -> RuntimeType] /\ None \notin Runs
  BY RuntimeAssumption DEF CallsInv, TypeOK
<1>2. \A c \in Clients : call[c].at \in Working => call[c].run \in Runs
  BY DEF CallsInv, CallsTyped
<1>3. ASSUME NEW c \in Clients, NEW r \in Runs, Start(c, r) PROVE Used'
  BY <1>3, <1>1, <1>2 DEF Start, Used, UsedIsNotStopped, Fresh, Own, Stopping, CallType, RuntimeType, Working, CallSteps
<1>4. ASSUME NEW c \in Clients, StartReady(c) \/ StartFails(c) PROVE Used'
  BY <1>4, <1>1, <1>2 DEF StartReady, StartFails, To, mixer, Used, UsedIsNotStopped, Fresh, Own, Stopping, CallType
<1>5. ASSUME NEW c \in Clients, StartUses(c) PROVE Used'
  BY <1>5, <1>1, <1>2 DEF StartUses, To, Used, UsedIsNotStopped, Fresh, Own, Stopping, CallType, Working, CallSteps
<1>6. ASSUME NEW c \in Clients, StartReturns(c) PROVE Used'
  BY <1>6, <1>1, <1>2 DEF StartReturns, Idle, Used, UsedIsNotStopped, Fresh, Own, Stopping, CallType, Working, CallSteps
<1>7. ASSUME NEW c \in Clients, Stop(c) PROVE Used'
  BY <1>7, <1>1, <1>2 DEF Stop, Used, UsedIsNotStopped, Fresh, Own, Stopping, CallType
<1>8. ASSUME NEW c \in Clients, StopClears(c) PROVE Used'
  BY <1>8, <1>1, <1>2 DEF StopClears, To, Used, UsedIsNotStopped, Fresh, Own, Stopping, CallType, Working, CallSteps
<1>9. ASSUME NEW c \in Clients, StopReturns(c) \/ Terminate(c) \/ SeenEnds(c) PROVE Used'
  BY <1>9, <1>1, <1>2 DEF StopReturns, Terminate, SeenEnds, To, mixer, Used, UsedIsNotStopped, Fresh, Own, Stopping, CallType
<1>10. ASSUME NEW c \in Clients, Halt(c) PROVE Used'
  BY <1>10, <1>1, <1>2 DEF Halt, mixer, Used, UsedIsNotStopped, Fresh, Own, Stopping, CallType, RuntimeType, Working, CallSteps
<1>11. ASSUME NEW c \in Clients, Join(c) PROVE Used'
  <2>1. \/ call' = [call EXCEPT ![c] = Idle(None)]
        \/ call' = [call EXCEPT ![c].at = "stopped"]
    BY <1>11 DEF Join, To
  <2>2. /\ engine' = engine /\ call[c].run \in Runs
        /\ rt' = [rt EXCEPT ![call[c].run].ready = FALSE, ![call[c].run].state = "stopped"]
    BY <1>11, <1>2 DEF Join, Working, CallSteps
  <2>3. \A q \in Runs : rt'[q].stop = rt[q].stop /\ rt'[q].at = rt[q].at
    BY <1>1, <2>2 DEF RuntimeType
  <2>4. \A d \in Clients : /\ call'[d].run \in {call[d].run, None}
                           /\ call'[d].at \in {call[d].at, "idle", "stopped"}
                           /\ call'[d].at \in Working => call'[d].run = call[d].run
    BY <1>1, <2>1 DEF Idle, CallType, Working, CallSteps
  <2>5. UsedIsNotStopped' /\ \A r \in Runs : Fresh(r)'
    BY <1>1, <2>2, <2>3, <2>4 DEF Used, UsedIsNotStopped, Fresh, CallsInv, TypeOK
  <2>6. \A d \in Clients : Stopping(d)'
    BY <2>2, <2>4 DEF Used, Stopping, Working, CallSteps
  <2>7. \A d \in Clients : Own(d)'
    BY <1>1, <1>2, <2>2, <2>3, <2>4 DEF Used, Own, Working, CallSteps
  <2>8. QED
    BY <2>5, <2>6, <2>7 DEF Used
<1>12. ASSUME NEW r \in Runs, Supervisor(r) \/ SpawnFails(r) \/ WaitTimesOut(r) PROVE Used'
  BY <1>12, <1>1, SupervisorKeeps, UsedKept DEF mixer
<1>13. ASSUME NEW r \in Runs, NEW n \in Spawns, Bind(r, n) \/ Exit(r, n) \/ Crash(r, n) PROVE Used'
  BY <1>13, UsedKept DEF Bind, Exit, Crash, mixer
<1>14. CASE UNCHANGED vars
  BY <1>14, UsedKept DEF vars
<1>15. QED
  BY <1>3, <1>4, <1>5, <1>6, <1>7, <1>8, <1>9, <1>10, <1>11, <1>12, <1>13, <1>14 DEF Next, Caller

(* The process that runs is the last one, and a runtime that spawns or     *)
(* starts is not ready.                                                    *)
LEMMA GivenStep == CallsInv /\ Given /\ [Next]_vars => Given'
<1> SUFFICES ASSUME CallsInv, Given, [Next]_vars PROVE Given'
  OBVIOUS
<1> USE DEF Mine, pushes
<1>1. /\ call \in [Clients -> CallType] /\ rt \in [Runs -> RuntimeType]
      /\ life \in [Runs -> [Spawns -> {"none", "starting", "answering", "ended"}]]
  BY DEF CallsInv, TypeOK
<1>2. \A c \in Clients : call[c].at \in Working => call[c].run \in Runs
  BY DEF CallsInv, CallsTyped
<1>3. CASE UNCHANGED <<rt, pushed, missed>>
  BY <1>3 DEF Given
<1>4. ASSUME NEW c \in Clients, NEW r \in Runs, Start(c, r) PROVE Given'
  BY <1>4, <1>1 DEF Start, Given, processes, RuntimeType
<1>5. ASSUME NEW c \in Clients, Halt(c) PROVE Given'
  BY <1>5, <1>1 DEF Halt, Given, processes, RuntimeType
<1>6. ASSUME NEW c \in Clients, Join(c) PROVE Given'
  BY <1>6, <1>1 DEF Join, Given, processes, RuntimeType
<1>7. ASSUME NEW r \in Runs, Loop(r) \/ Pause(r) PROVE Given'
  <2>1. UNCHANGED processes /\ ~rt[r].ready
    BY <1>7 DEF Loop, Pause, Given
  <2>2. \E x \in RuntimeType : ~x.ready /\ x.at # "push" /\ rt' = [rt EXCEPT ![r] = x]
    <3>1. CASE rt[r].stop
      BY <1>1, <1>7, <2>1, <3>1, Endings DEF Loop, Pause
    <3>2. CASE ~rt[r].stop /\ Loop(r)
      <4>1. [rt[r] EXCEPT !.at = "spawn", !.state = "starting"] \in RuntimeType
        BY <1>1 DEF RuntimeType, ThreadSteps
      <4>2. rt' = [rt EXCEPT ![r] = [rt[r] EXCEPT !.at = "spawn", !.state = "starting"]]
        BY <3>2 DEF Loop
      <4>3. QED
        BY <1>1, <2>1, <4>1, <4>2 DEF RuntimeType
    <3>3. CASE ~rt[r].stop /\ Pause(r)
      <4>1. [rt[r] EXCEPT !.at = "loop"] \in RuntimeType
        BY <1>1 DEF RuntimeType, ThreadSteps
      <4>2. rt' = [rt EXCEPT ![r] = [rt[r] EXCEPT !.at = "loop"]]
        BY <3>3 DEF Pause
      <4>3. QED
        BY <1>1, <2>1, <4>1, <4>2 DEF RuntimeType
    <3>4. QED
      BY <1>7, <3>1, <3>2, <3>3
  <2>3. QED
    BY <1>1, <2>1, <2>2 DEF Given, processes
<1>8. ASSUME NEW r \in Runs, Spawn(r) PROVE Given'
  BY <1>8, <1>1 DEF Spawn, Given, RuntimeType, Spawns
<1>9. ASSUME NEW r \in Runs, SpawnFails(r) PROVE Given'
  <2> DEFINE x == [Onward(r) EXCEPT !.spawned = Onward(r).spawned + 1]
  <2>1. ~rt[r].ready
    BY <1>9 DEF SpawnFails, Given
  <2>2. Onward(r) \in RuntimeType /\ Onward(r).at # "push" /\ ~Onward(r).ready
    BY <1>1, <2>1, Endings
  <2>3. x.at # "push" /\ ~x.ready
    BY <2>2 DEF RuntimeType
  <2>4. rt' = [rt EXCEPT ![r] = x] /\ UNCHANGED <<pushed, missed>>
    BY <1>9 DEF SpawnFails
  <2> HIDE DEF x
  <2>5. QED
    BY <1>1, <2>3, <2>4 DEF Given
<1>10. ASSUME NEW r \in Runs, Publish(r) \/ WaitGivenUp(r) \/ WaitTimesOut(r) \/ Reap(r) PROVE Given'
  BY <1>10, <1>1 DEF Publish, WaitGivenUp, WaitTimesOut, Reap, Given, processes, RuntimeType
<1>11. ASSUME NEW r \in Runs, Answered(r) PROVE Given'
  <2>1. rt[r].spawned # 0 /\ ~rt[r].ready
    BY <1>11 DEF Answered, MineLives, Given
  <2>2. QED
    BY <1>11, <1>1, <2>1 DEF Answered, Given, processes, RuntimeType
<1>12. ASSUME NEW r \in Runs, Push(r) PROVE Given'
  <2>0. r \in Runs /\ rt[r].spawned # 0
    BY <1>12 DEF Push, Given
  <2>1. Mine(r) \in pushed' \cup missed' /\ pushed \subseteq pushed' /\ missed \subseteq missed'
    BY <1>12 DEF Push
  <2>2. rt' = [rt EXCEPT ![r] = [rt[r] EXCEPT !.at = "wait", !.state = "running", !.ready = TRUE]]
    BY <1>12, <1>1 DEF Push
  <2>3. \A q \in Runs : rt'[q].spawned = rt[q].spawned
    BY <1>1, <2>2 DEF RuntimeType
  <2>4. rt'[r].at = "wait" /\ \A q \in Runs \ {r} : rt'[q] = rt[q]
    BY <1>1, <2>2 DEF RuntimeType
  <2>5. QED
    BY <2>0, <2>1, <2>3, <2>4 DEF Given
<1>13. ASSUME NEW r \in Runs, Again(r) PROVE Given'
  <2> DEFINE x == [Onward(r) EXCEPT !.ready = FALSE]
  <2>1. Onward(r) \in RuntimeType /\ Onward(r).at # "push"
    BY <1>1, Endings
  <2>2. x.at # "push" /\ ~x.ready
    BY <2>1 DEF RuntimeType
  <2>3. rt' = [rt EXCEPT ![r] = x] /\ UNCHANGED <<pushed, missed>>
    BY <1>13 DEF Again, processes
  <2> HIDE DEF x
  <2>4. QED
    BY <1>1, <2>2, <2>3 DEF Given
<1>14. ASSUME NEW r \in Runs, NEW n \in Spawns, Bind(r, n) \/ Exit(r, n) \/ Crash(r, n) PROVE Given'
  <2>1. UNCHANGED <<rt, pushed, missed>>
    BY <1>14 DEF Bind, Exit, Crash
  <2>2. QED
    BY <2>1, <1>3
<1>15. QED
  BY <1>3, <1>4, <1>5, <1>6, <1>7, <1>8, <1>9, <1>10, <1>11, <1>12, <1>13, <1>14
  DEF Next, Caller, Supervisor, vars, processes, StartReady, StartFails, StartUses, StartReturns, Stop, StopClears,
      StopReturns, Terminate, SeenEnds

---------------------------------------------------------------------------
(* What holds in every state.                                              *)
LEMMA Invariance == Spec => [](CallsInv /\ Supervised /\ Used)
<1> DEFINE Inv == CallsInv /\ Supervised /\ Used
<1>1. Init => Inv
  BY InitInv
<1>2. Inv /\ [Next]_vars => Inv'
  <2> SUFFICES ASSUME Inv, [Next]_vars PROVE Inv'
    OBVIOUS
  <2>1. TypeOK
    BY DEF CallsInv
  <2>2. CallsTyped' /\ rt' \in [Runs -> RuntimeType] /\ OthersTyped'
    BY <2>1, CallsStep, RuntimesStep, OthersStep DEF CallsInv, CallsTyped, TypeOK
  <2>3. CallsInv'
    BY <2>2 DEF CallsInv, CallsTyped, OthersTyped, TypeOK
  <2>4. QED
    BY <2>1, <2>3, SupervisionStep, UsedStep
<1>3. QED
  BY <1>1, <1>2, PTL DEF Spec

(* Every variable of the mixer's calls, the runtimes and the engines keeps *)
(* its type.                                                               *)
THEOREM TypeCorrect == Spec => []TypeOK
<1>1. CallsInv => TypeOK
  BY DEF CallsInv
<1>2. QED
  BY <1>1, Invariance, PTL

(* _supervise: an engine that runs is its runtime's last, with a thread    *)
(* that waits for it; so no runtime ever runs two.                         *)
THEOREM EnginesSupervised == Spec => []Supervised
  BY Invariance, PTL

(* VisionMixer.start and stop: whatever their order, the runtime the mixer *)
(* uses is one that stop() was not called on.                              *)
THEOREM UsedRuntimeRuns == Spec => []UsedIsNotStopped
<1>1. Used => UsedIsNotStopped
  BY DEF Used
<1>2. QED
  BY <1>1, Invariance, PTL

(* _wait_ready: an engine that answers while its runtime is ready had a    *)
(* push of its own before, after any number of crashes and restarts and    *)
(* with any number of runtimes: it has the state, or that push failed or   *)
(* went to the engine of another runtime.                                  *)
THEOREM ReadyEngineHasState == Spec => []ReadyHasState
<1>1. Init => Given
  BY InitInv
<1>2. CallsInv /\ Given /\ [Next]_vars => Given'
  BY GivenStep
<1>3. Supervised /\ Given => ReadyHasState
  <2> SUFFICES ASSUME Supervised, Given, NEW r \in Runs, NEW n \in Spawns, rt[r].ready, life[r][n] = "answering"
               PROVE  <<r, n>> \in pushed \cup missed
    BY DEF ReadyHasState
  <2>1. n = rt[r].spawned
    BY DEF Supervised, Alive
  <2>2. QED
    BY <2>1 DEF Given, Mine
<1>4. QED
  BY <1>1, <1>2, <1>3, Invariance, PTL DEF Spec
=============================================================================
