# Verification of FlowXer

FlowXer is a software vision mixer: a Python control plane (`src/src/flowxer`), a C++/CUDA media
engine (`src/engine`) and a web GUI (`src/gui`).  This directory holds TLA+ models of its logic,
TLC configurations that check them on small instances, and theorems about them that TLAPS proves
for every value of the constants.

Contents: [parts](#the-parts-of-the-system), [modules](#modules), the models
([mixer](#the-mixer-keyer-mixer), [engine runtime](#the-supervised-engine-engineruntime),
[panels](#the-control-planes-me-panels), [console](#the-console-workspace), [clip
ends](#the-ends-of-clips-clipends), [tally](#the-tally-tally), [media
library](#the-media-library-library-playable),
[NMOS](#the-nmos-node-nmosregistration-nmosconnection)), [runs](#the-runs),
[proofs](#what-is-proved), [disagreements](#what-the-code-does-otherwise-than-it-says), [limits of
the properties](#where-a-property-stops), [not modelled](#not-modelled).

## The parts of the system

| Part | State it keeps | Operations | Talks to | What is hard | Modules |
|---|---|---|---|---|---|
| Engine mixer (`engine/src/core/mixer.cpp`) | per ME: Program, Preview, a transition; per keyer: a fade, a run along keyframes, a tie; held takes | take, cut, auto, T-bar, Program, Preview, Fade to Black, keyer commands, planning of a grain | control API's thread, render thread | calls that release the lock half way, skipped grains, keyers tied to transitions, stingers that wait | `Keyer`, `Mixer` |
| Engine clip playout (`core/playout.cpp`) | the clock of a clip | load, play, pause, seek; the frame of a grain | render thread, control plane | the end of a clip, skipped grains | `ClipEnds` (without loops) |
| Control API of the engine (`engine/api.cpp`) | none | parses a command, makes held takes first, calls the mixer | control plane | order of commands | `Mixer`, `Panels` |
| Engine supervisor (`engine/runtime.py`) | the engine process, its stop and ready events, backoff | start, stop, restart, wait until ready | operating system, control plane | a stop that races a spawn, restarts, timeouts | `EngineRuntime` |
| Control plane, one ME (`engine/mixer.py`) | mirror of the buses, the T-bar and its levers, ties | take, cut, auto, T-bar, levers | REST calls in a pool of threads; engine | no lock, refused and lost commands, a mirror that may drift | `Panels` |
| Control plane, the console (`engine/mixer.py`, `state.py`) | inputs, layout, MEs, keyers, snapshots, saved state | layout, inputs, keyers, snapshots, start, stop, import, restart | REST calls, engine, state file | structures that shrink below what names them, calls during a start | `Workspace` |
| Control plane, clip ends and stingers | watcher's reply, timers, stinger players | poll, arm a timer, take | engine, threads | a late timer, an operator who is faster, the wait for a player | `ClipEnds` |
| Tally (`engine/tally.py`, `tally_export.py`) | red sources, receivers, timers, an export thread | publish, repeat, close | UDP receivers, a calculator | changes during a publish, the end of a mix without a call, backoff, shutdown | `Tally` |
| Media library (`library/`) | items, conversions, files, jobs, upload sessions | upload, import, convert, cancel, delete, change of format | FFmpeg, file system, mixer | a job cancelled or its item deleted as it ends, kills between two files | `Library`, `Playable` |
| NMOS node (`nmos/`) | resources, what the registry was told; staged and active receivers, timers | register, heartbeat, remove, deregister; stage, activate, attach | registry, controller, mixer | lost answers, a registry that forgets, activations that fire late, flows that come later | `NmosRegistration`, `NmosConnection` |
| Render pipeline, DME geometry, audio, previews, clip player threads, GUI | buffers, numbers, pixels | | | see [Not modelled](#not-modelled) | |

A call of the control plane's REST API (`api/`) is an action of the model whose state it changes; what
no model has is listed at the end.  Its handlers run in a pool of threads, so two calls interleave
wherever no lock is held, and `VisionMixer` holds one in few places.

## Modules

| Module | What it is |
|---|---|
| `Keyer` | Fades and keyers: pure operators on records, one per function of `mixer.cpp` that changes one |
| `Mixer` | The mixer with its two threads: state, one action per critical section, fairness |
| `MixerProperties`, `MCMixer` | Its properties; the instances TLC checks, by the use an operator makes of it |
| `MixerProofs` | Lemmas about the operators, the inductive invariants and the theorems |
| `EngineRuntime`, `EngineRuntimeProofs` | The supervisor of the engine with the calls that start and stop it; its theorems |
| `Panels`, `MCPanels`, `PanelsProofs` | One ME of the control plane composed with the engine's ME, as far as commands move it; its theorems |
| `Workspace`, `MCWorkspace`, `WorkspaceProofs` | The console: structure, sources, snapshots, start, stop, restart; its theorems |
| `ClipEnds`, `ClipEndsProofs` | Clip, engine, control plane, watcher, timers and operator, grain by grain; its theorems |
| `Tally`, `TallyProofs` | Receivers, export and shutdown; its theorems |
| `Library` | The media library: intake, jobs, workers, calls, kills |
| `Playable` | What it promises to a player of its files, which `Library` implements |
| `LibraryProofs` | Deleted items stay deleted, the intake, the queue, and the refinement, proved |
| `NmosNode` | Inputs, essences and keyers, which both sides of the node are about |
| `NmosRegistration` | IS-04: the node against a registry |
| `NmosConnection` | IS-05: activation, REST, engine and state file |
| `NmosProofs` | The theorems of both |

`Panels` composes the control plane with the engine: its operators on the engine's ME (`Takes`,
`Ended`, `Back`, ...) are `Mixer`'s commands with a transition that may end at any time.
`ClipEnds` composes watcher, timers, clip clock and held takes; `NmosConnection` composes the NMOS
node with the mixer service, the engine and the state file; `Library` composes jobs, store, calls
and the mixer's binding of a clip.

A definition with the comment "(Bug: ...)" is a wrong version of the definition that follows it.
No action uses it; it is there to show that the property it belongs to (`PROJECT.json`, `mutants`)
notices that bug.

In every model the constants named `Max...` are bounds, as are the variables marked `(bound)`;
variables marked `(history)` only remember what a property needs.

## The mixer (`Keyer`, `Mixer`)

**State.** `me[m]` is `Mixer::Me`: the two buses, the transition (`mix`), the settings of the next
one (`next`).  `key[k]` is `Mixer::Key` with its `Fade`, run and tie.  `ftb[m]` is the Fade to
Black, `held[m]` the map `deferred`, `keySource[k]` the source of a luma key or pip.  `plan[m]` is
the `MePlan` the last grain was rendered from.  What only exists on a thread's stack is state too:
`pc`, the held takes a thread has taken out (`due`, the local `due` of `runHeld`), what a call
read before it released the lock (`seen`), and the distance to the grain being planned (`grain`).

**Actions.** An action is one critical section of `Mixer::mutex`.  `cut`, `autoTransition` and a
`position` that starts a stinger release the lock between reading and taking, so they are two
actions (`Cut`, `CutTake`; `AutoTransition`, `AutoTake`; `Position`, `ScrubAuto`).  `runHeld` is
three: take out under the lock, make each take, note that it was made.  A command of the control
API is a call (`CallMe`, `CallKey`, which is `runDeferred`), its held takes, and the command
itself.  The render thread wakes for a grain some grains after the last one (`Wake`), makes the
takes due, and plans (`Plan`, which is the whole of `Mixer::frame` for all MEs and keyers).

**Abstractions.** Gains and T-bar positions are integers `0 ..  Full` (rounded down).  Absolute
grain numbers are kept as distances, so the state space is finite without a bound on time.  A wipe
is a mix; boxes and the values of keyframes are dropped, their count is kept because the code
indexes the list.  Refused arguments change nothing and are not modelled.  Which stinger players
have their first frame is chosen freely in every grain.

**Uses.** `MCMixer` splits the commands by what an operator uses of the mixer (`Uses`: buses,
ties, swap, rest, fades, holds).  A behaviour chooses one use and interleaves its commands in any
order.  The proofs do not need this: they are about `Mixer` with all commands.

**Fairness.** Weak fairness of `Render` (the render thread waits for the time of the next grain
and plans it, `engine.cpp` `renderMain`) and of the commands of a call that has started.  Nothing
makes the operator call: liveness is stated after the operator rests.

## The supervised engine (`EngineRuntime`)

**State.** `rt[r]` is one `EngineRuntime` object (`stop` and `ready` are its events, `process`
what `stop()` sees) with the step of its supervisor thread (`at`) and that thread's local process
(`spawned`, the number of the last one).  Every start that gets that far makes a new one.
`engine`, `mixerState`, `autostartDone` and `lock` are the attributes of `VisionMixer`; `call[c]`
is what a thread of the API (or the autostart) is doing.  `life`, `asked` and `pushed` are the
engine processes: whether they run and answer on the control port, were sent SIGTERM, were given
the state.  `missed` remembers those whose runtime is ready though the push failed or reached
another runtime's engine.

**Actions.** `Start`, `StartReady`, `StartFails`, `StartUses`, `StartReturns` are the steps of
`VisionMixer.start` and `runtime.start`; `Stop`, `StopClears`, `StopReturns` those of
`VisionMixer.stop`; `Halt`, `Terminate`, `SeenEnds`, `Join` those of `runtime.stop`, which a
failed start calls too.  `Loop` to `Pause` are `_supervise` and `_wait_ready`.  `Bind`, `Exit` and
`Crash` are the process: all engines listen on one port, the second one exits (`main.cpp`).

**Abstractions.** A timeout or a backoff may pass at any time, but a start's deadline not before
its process was spawned.  SIGTERM with the SIGKILL after it ends a process.  An engine on the port
takes the state pushed to it, or an exception ends the push: the code logs it and sets ready all
the same (`runtime.py:253-262`); a refused part of a push is logged and passed over, which is not
told apart from a push here (`NmosConnection` does it for routes).  The status
poller, the log, the counters and the engine's own MediaMTX are left out.

**Fairness.** Weak fairness of the steps of a started call, of the supervisor, of an engine that
comes up and of one that was told to end: threads and processes of the operating system.  A crash,
a failed spawn and a timeout are not fair.  The last process within `MaxSpawns` does not fail,
which is how "restarts stop failing some time" is said.

**More than one runtime.** `stop()` takes no lock.  While a start waits it sees no engine and
returns, and the start then takes the mixer on air; while one stop ends the engine a second one
returns idle at once, and a start that follows meets the old engine on the control port, takes its
answer for that of its own and leaves its own without the state.  The model has these steps
(`Runs` with two elements).  `Supervised`, `UsedIsNotStopped` and `ReadyHasState` are proved for any
`Runs`; the last one names the engine left without the state (`missed`).

## The control plane's ME (`Panels`)

**State.** `panel` is one ME's mirror in `VisionMixer`: buses, the tied keyer, the sources it
keeps red (`_mixes`), the transition the T-bar holds, the end it rests at, the levers that are
picked up, the last value of each lever.  `next` is the next transition.  `engine` is the ME of
the media engine (None while it takes no commands).  `call[c]` is an API thread between its two
halves: what a handler does up to its command to the engine is one step, the command and what
comes after the reply (`Tell`) is another.

**Actions.** `Operator` has one disjunct per handler (take, cut, fade, auto, Preview, T-bar
position, next transition, keyer, GUI lever), `Hardware` is `set_lever`, `Tell` sends the command:
it is taken, refused (the engine's own conditions) or lost.  `Clock` has a transition that ends by
time, a stop, a start and the death of the engine with the push of the state to the next one.

**History.** `apart` says why the two MEs may differ since the last push: a command was refused or
lost, two calls raced, a keyer was untied or a transition chosen again under a held T-bar.
`EngineFollows` is about everything else, so it says that in any sequence of calls, one at a time,
only these reasons separate the mirror from the engine.  `been` is what each lever was seen at
since the T-bar's end last changed.

## The console (`Workspace`)

**State.** `console` is what a snapshot of the saved state has (`Fields`, from `export_state`):
inputs in slot order, the layout's counts, each ME's buses and ties (`panels`), its keyers, ME 1's
mirror (`main`), snapshots and the start-up number.  `booting` is the structure a start gave to
its engine; `engine` the structure of the one the mixer has; `stopping` counts the stops that wait
for an engine's end; `crossed` and `asked` are histories of what came into a start.

**Actions.** One per route that changes the structure or what names it: layout, register, delete
and change the kind of an input, take, cut, Preview, ties, keyers, snapshots (store, recall with
and without Program/on-air, delete, start-up), import.  `_sync_sources`, `_sync_panels` and
`_sync_keyers` are part of the call that makes them.  A start is two steps (`Start` gives a
structure to an engine, `Started` is on air or in error).  So is a stop, which takes no lock
(`Stop` drops the engine, `mixer.py:2048`; `StopEnds` sets the state when the engine has ended,
`mixer.py:2053`), and any number of stops may wait side by side.  A restart loads the saved state
and repairs it.

**Abstractions.** A keyer is its mode, source and whether it is on; every call that succeeds is
saved before the next one.  Visibility (`Shows`, `Visible`) is the control plane's copy of the
engine's, over nested MEs (`Through`).  A linear key has no source in the mixer: whatever its
`src` is, it is neither checked (`KeyTaken`) nor shown, and `NoRenderLoop` is about buses, luma
keys and pips (`Named`).  An input may be given the id of an ME that is not there yet
(`InputIds`, `mixer.py:1278`): names are looked up among the inputs first, then among the MEs.

## The ends of clips (`ClipEnds`)

**State.** The engine's clip and buses by output grain, with the take it holds for a grain; the
control plane's buses, the watcher's reply (`watch`) and what it remembers (`seen`, `done`,
`heard`), the timer (`pending`), what the thread of a timer that ran off has decided (`fired`), the
stinger takes that sleep for their player.  Time is `now`, up to `MaxGrain`.

**Actions.** `Grain` plans the next grain or skips one.  `Read` is the watcher's request, `Judge`
what it does with the reply later.  The timer's call is three steps: `Fire` (or `FireNothing`)
checks and decides, `Aim` reads the source on Preview and the grain to take it in, `Act` takes,
and looks at nothing again.  It holds `_lock` over the three (`Acting`), but of the other calls
only a start takes that lock: every other one comes between any two of them.  `Take`, `Mix`,
`Stinger`, `SetPreview`, `Transport`, `SetOnEnd`, `Load`, `StopProgram`, `StartProgram` are the
operator's, and `Wake` is a stinger take whose player is free (or late, then it is a cut).  A clip
that comes on Program plays with `PlayOnCut` (`play_on_cut`), which is true in the run; the
theorems are about both.

**Time instead of fairness.** A watcher or a timer that is due runs before the clock has gone on
by `Lag` grains; properties say within how many grains something happens, so no fairness is
needed.  `GrainAssumption` keeps the order of the code's times: poll 0.2 s, horizon, lead and
lateness as multiples of it (`Lead > 2 * Lag`, `Horizon >= Lead + Poll + 2 * Lag`).

**History.** `crossed` says that something crossed an end action on its way: a call the watcher's
reply was read before, one between the action's check and its take or during the wait for a
stinger's player, or a new clip on the player (`Crosses`).  `OnlyAtItsEnd` claims nothing then,
since the code sends the action all the same; `OncePerEnd`, `EngineFollows` and `OnItsGrain` hold
whatever crosses.

## The tally (`Tally`)

**State.** What is on air (`program`, `mix`, `key`), the timers that repeat the tally at the end
of a mix or fade, `notices` (threads that changed something and have still to wake the export and
publish), `publishers` that wait for `TallyService`'s lock and the `publish` that holds it; per
receiver what it shows and its last error; the export's thread with its event, its pause and its
backoff; the shutdown.  Times count down in ticks, so the clock needs no bound.  Three variables
are history: the ticks a mix or fade runs on without a timer for its end (`untimed`), whether a
stop cancelled the timer of the key's fade (`cancelled`), and the receivers whose lamps were made
in such a time (`blind`).

**Start.** Program runs on the first source, keys are as they were saved, any receivers are set,
and all of them show it.

**Actions.** An operator call, its notice, its publish (read the receivers, send to one after the
other, end), the export's steps (clear the event, take the state and send, wait), a tick, a change
of the receivers (`Replace`).  A send may fail `MaxFails` times.  The shutdown stops Program
(`ShutDown`) while publishes of calls and timers run or wait for the lock, wakes the export
(`Darken`), waits for the lock like any other (`Begin`), and closes the service (`Close`); a
publish that gets the lock after that does nothing.  A call that is still answering when the
graceful shutdown gives it up (half of `SHUTDOWN_TIMEOUT_S`, `app.py:279`) has changed the state
by then: one that starts Program or sets receivers later than the stop, the autostart thread
included, could leave lamps lit and is not in the model.

**Fairness.** Weak fairness of the publishing threads, of the export and of time: threads that can
run do, and a send is bounded by its socket's timeout.

## The media library (`Library`, `Playable`)

**State.** Items (`stored`, `source`, `options`), conversions by item and format (`conv`), the
derived files with the options they were made with (`files`: sound and picture apart, they are put
in place one after the other), two queues, the workers with the options they read, the jobs a
deletion has read and still has to cancel (`doomed`), the upload session with its chunks, the threads that make items (upload, import directory, legacy storage),
the format and the change of it, the clip player's binding.

**Actions.** A worker's job is seven steps (taken, converted, sound, picture, extra, finish, done,
or settled as cancelled or failed); what the store does under its lock is one step.  `Api` are
convert, cancel, delete, bind; a deletion reads the item's jobs and cancels them one by one, each
under the queue's lock; `SetFormat` and `KeepFormat` are the change of the format, item by item,
which a deletion of an item it has not come to ends (`"change"` in `killed`); `Upload` the chunks, complete and prune; `Intake` the threads that move a file, write
`item.json` and queue the job; `Stop`, `Exit` (also as a kill, in any step) and `Start`, which
resumes what is half done.  Errors of the disk are steps of their own: one after the move deletes
the directory with the original (`Breaks`, `service.py:447-449`), one between two files leaves the
new one beside the old (`WorkFails`), one at the end of a job leaves the item waiting without it
(`SettleFails`, only logged: `convert.py:278-282`), and a removal, also one that is killed, may end
between two files (`Remain`, `DeleteFails`).  What was left in the middle is in `killed`, and each
property names the entries it stops at.

**Fairness.** Weak fairness of the workers (FFmpeg has a timeout), of a start after an end, and of
the end of a process that was told to stop.

**Abstract specification.** `Playable` is what those who play from the library rely on: an item
comes once and goes for good; what it plays in a format stays until a newer conversion replaces it
or it is deleted; only a kill or an error between two files that are put in place or removed may
lose it (`Lose` needs `torn`).  `Library` implements it (`KeepsPromise`): `life` is `stored`,
`plays` is what a ready conversion was made with, `torn` is `TornApart`.  This is for one worker,
the default (`settings.py:92`); with two, the late end of a cancelled job may mark as failed what
the other worker has just made, in the code as in the model.

## The NMOS node (`NmosRegistration`, `NmosConnection`)

**Registration.** The resources are a function of the inputs and panels.  The thread's round reads
them under the lock (`BeginRound`, `ReadResources`), sends one request after the other, parents
first and stale children before their parents (`Before`, `Due`; within a kind in any order, which
for the removals is the order of a Python set), sees each succeed, fail or lose its answer
(`Succeeds`, `Refused`, `RequestLost`, `AnswerLost`), and waits; a change marks the node
dirty only after it released its own lock (`MarkChanged`).  The registry may forget the node
(`RegistryLoses`), the process may be killed and start again (`Crash`, `Boot`), and a shutdown
joins the thread and deregisters (`Shutdown`, `Joined`, `Deregister`).  Fair are the thread, the
mark that follows a change, a start after a kill, the join and the deregistration; faults are
bounded by `MaxFaults`.

**Connection.** Receivers of live inputs and keyers, staged and active parameters, the timer that
can still be cancelled and those that already wait for the lock (`timer`, `fired`), the route each
gives to its input, what the engine was last told to read (`reader`), REST calls on the same input
step by step, the state file and a restart from it, an engine that comes up and goes, and flows
that appear and disappear below the MXL root.  What is under the node's lock is one step.  A
request names a receiver (`AskPatch`, in `asked` until its body is applied under the lock: the
receiver may be gone by then); `Restored` is what the state file gives a receiver at a restart.
A start reads the flow that each essence without one has by its group hint (`StartReads`) and makes
it the route (`StartBinds`), which the node is not told: `hinted` keeps the receivers of such
routes.  A command for a route may be refused or time out, also one of those that `on_ready`
pushes (`Push`, `PushState`: `sent`); it is not sent again, and `unsent` keeps the keys whose last
command did not arrive.
`subject` is the only bound on requests: the receivers that IS-05, REST and group hints work with
and whose commands may fail, `AtOnce` of them in the run, chosen at the start among all; everything
else moves without it.  Fair
are the two loops that refresh waiting receivers and attach flows, each of which runs for ever.

## The runs

Merged properties name their parts: each part has its own comment in the module.

| Run | Instance | Properties (parts) | What it shows |
|---|---|---|---|
| `MixerUses` | 1 ME, 2 inputs, 1 keyer, positions 0..2, 2 frames, a skipped grain; uses buses, ties, swap, rest, fades | `KeysAreDriven` (`TieHasTransition`, `OneDriver`, `TargetsExist`), `EndsInTime`, `ShownIsKept`, `SwapsAndRests` (`BusesSwap`, `KeysSwap`, `KeysRest`, `FlyOffStaysOff`) | Takes, Cut, Auto, T-bar, stingers, keyer commands in any order: transitions end in time, their last picture stays, ties end with them, one thing moves a keyer |
| `MixerSettles` | 2 MEs, 1 input, 1 keyer; uses swap, fades, holds; fair | `NoRenderLoop`, `HeldTakesAreKept`, `AllSettles` | Re-entry and held takes: no ME shows itself, each held take is made once, everything ends |
| `EngineRuntime` | 1 runtime, autostart and 2 API threads, 3 processes; fair | `Supervised`, `UsedIsNotStopped`, `ReadyHasState`, `CallsAndRestartsEnd` (`StopEndsSupervisor`, `StartsReturn`, `ServesAgain`) | Starts and stops against crashes, failed spawns and engines that do not answer |
| `NmosRegistration` | 1 input, keyer, panel, 1 essence each, 2 changes, 2 faults; fair | `TreeInv` (`RegistryTypeOK`, `ParentsFirst`, `HeldTree`), `RegistryAgrees` (`RegistryTells`, `NoGhosts`), `StaysDeregistered`, `CatchesUp` | Lost requests and answers, a registry that forgets, kills, shutdown |
| `NmosConnection` | 1 input (video), 1 keyer, 1 flow that comes and goes, 1 time, 1 REST client, 1 receiver at once that requests work with; fair | `PlaneInv` (`TypeOK`, `ControlAgrees`, `KeysAreRead`), `SavedWhenQuiet`, `ScheduleIsArmed`, `WaitingEnds` | Activations at once and scheduled, REST, layouts, engine and process restarts |
| `Library` | 1 item, 2 formats, 2 options, 1 chunk, 1 worker, 1 client, 2 events; fair | `QueueInv` (`TypeOK`, `ConversionsGoOn`, `NewItemsConvert`), `ReadyPlays`, `IntakeInv` (`LegacyStaysDeleted`, `UploadsAreWhole`, `OneItemPerUpload`, `FilesAreKept`), `DeletedStays`, `JobsEnd`, `KeepsPromise` (refinement of `Playable`) | Intake, jobs, cancels, deletions, format changes, stops and kills |
| `Panels` | 3 sources, 2 levers, 1 call at a time, positions 0..2, 1 pickup beside the driver, 1 event | `PanelInv` (`TypeOK`, `EngineFollows`), `AirIsRed`, `LeverMoved`, `DriverKeepsCounting` | Mirror and engine under every call, lever, lost command, restart |
| `Workspace` | 3 or 4 inputs, 1 to 3 MEs, 0 or 1 keyers, 1 snapshot, 1 document, 4 calls | `ConsoleInv` (`TypeOK`, `NoRenderLoop`, `TiesHold`, `MirrorAgrees`, `OnAirKnown`, `StartupExists`), `EngineAgrees`, `StopHolds`, `Settles` (`RestartSettles`, `RecallSettles`), `Keeps` (`OffKeepsAir`, `RestartKeeps`) | Structures that grow and shrink under buses, keys and snapshots; starts and stops |
| `ClipEnds` | clip of 5 frames, mix of 2, stinger of 3, lag 1, skips of 1, 12 grains, 2 operator calls | `EndsInv` (`TypeOK`, `OncePerEnd`, `EngineFollows`), `NoEndMissed`, `TakesAreDue` (`OnItsGrain`, `OnlyAtItsEnd`) | End actions on their grain, once, and only for their own end |
| `Tally` | 2 sources and a key, 1 receiver, 2 calls, 1 failed send; fair | `TallyInv` (`TypeOK`, `ReceiversAgree`, `ExportIsAwake`), `EndsSilent`, `ExportSettles` | What is on air is shown, and dark at the end |
| `EngineOrphan`, `WorkspaceForgets` | as above (`EngineOrphan` with one client) | `StopEndsEngine`, `RestartKeepsInputs` | Violations, see [below](#what-the-code-does-otherwise-than-it-says) |

**Why the bounds are enough.** They are the smallest in which each case happens.

- Mixer: `Full = 2` gives a position between the ends, rates of 2 grains a first and a last grain,
  `MaxStep = 2` a skipped grain, `StingerWait = 2` a stinger that waits and one that is given up
  (players get ready or do not in any grain).  One ME has all the interplay of a transition with
  its keyers; two are needed only for re-entry.  Keyers do not interact, so one is enough.
- Engine: three processes are a failed start, a crash and a restart that lasts; two operators are
  two stops at once, or a stop during a start.
- NMOS: a parent and a child of each kind; a change while a round runs and one after it; a fault
  and a second one during the repair.  One receiver of each owner, since receivers share only the
  lock; two times of one timer come from staging it again.  `AtOnce = 1` lets requests work with
  the input or with the keyer in one behaviour; the theorems of `NmosProofs` are for any
  number.
- Library: ids do not interact but for the queue's order; two formats are a job for the old one
  while the mixer has the new one; two options make an old and a new conversion; two events are a
  kill during the resumption of another, or a format change and a stop.  An error uses up what is
  left of them (`Errs`), so it comes last of the events, after at most one other; an upload begins
  only while there is an id left for its item.  With two workers or two
  items TLC does not end in minutes; the theorems about deleted items, the intake and the queue
  are for any number.
- Panels: three sources are a Program, a Preview and another one; a lever and one that fights it.
  `Together` stops a behaviour in which the MEs have parted for a reason of `Reasons`, until the
  next push: nothing is claimed of it.  Levers and sources are symmetric.
- Workspace: the smaller and the larger of each count; four calls are, for example, a snapshot, a
  layout that shrinks, a start and a recall.  Clients register one input, change a live input to a
  clip player and a clip player to Black, and set a linear key, a luma key, a pip and a luma key
  without its source; the document has a pip on air and a bus without its ME.  The input that they
  register is called `me-2`, so that a layout of two or three MEs brings an ME of its name;
  `NoRenderLoop` is about `me-1` and `me-3` then.  Three MEs nest re-entry.
- Clip ends: 12 grains are two ends of a clip of five frames with a restart in between; `Lag = 1`
  makes a read and a timer late together; two calls cross an end action twice.
- Tally: a mix shorter than the refresh and a backoff longer than it, as in the code; at the
  shutdown one publish besides its own is under way (`MaxRacing`), which waits for the lock, holds
  it, or comes after the close (the theorems are about any number); one receiver
  that comes, fails and goes (two receivers are sent to one after the other, without effect on
  each other).

Deadlock is checked but in `ClipEnds`, `Library`, `NmosRegistration` and `Panels`: there the
clock, the calls or the process end at a bound or by a shutdown.

## What is proved

The theorems are about all commands and any constants that the named assumptions allow; `TLC`
evaluates the assumptions in the runs.

`MixerProofs` (any number of MEs, inputs and keyers, any rates and skips; `FullAssumption`,
`MixerAssumption`: naturals, a `KeyMe` that maps keyers to MEs, takes of the type of takes):

| Theorem | States |
|---|---|
| `TypeCorrect` | `Spec => []TypeOK` |
| `KeysDriven` | `Spec => []KeysAreDriven` |
| `TransitionsKeepTime` | `Spec => []EndsInTime` |
| `RenderOrder` | `Spec => []NoRenderLoop` |
| `PictureStays` | `Spec => ShownIsKept` |
| `HeldAreMade` | `Spec => HeldTakesAreKept` |
| `SwapsHold` | `UsesAssumption => (UsesSpec => SwapsAndRests)` |

These follow from one invariant, `Inv`.  None of the properties is inductive: that a tie has a
transition needs that a transition which waits is not running, that the T-bar never holds a
stinger and that a transition of none has no stinger (`MixSound`); that a source renders before
its ME has to hold of every place a source is kept, also of what a thread took out or read before
it released the lock (`Carried`, `DueInv`).  Lemmas show of every operator of `Keyer` what it
keeps of `Sound` (type, one driver, existing keyframes), whether it ties, and that a box marked as
flying runs (`Flies`), then the same of the operators on an ME, then there is one lemma per action,
which `Invariance` combines.  `InitInv` holds for any initial settings of transitions
and keyers, so for the initial states of all the runs.

No held take is lost because what leaves `held` goes into hands that are empty: a thread has takes
in its hands only between taking them out and noting the last one (`HandInv`).

`SwapsAndRests` holds of an operator's use of the mixer, so `SwapsHold` is about `UsesSpec`, for
any choice of the uses in `MCMixer`; one that only swaps needs two inputs, since with one both
buses of an ME show it and no keyer could tell them apart (`UsesAssumption`).  That the
buses hold the same two sources at rest is not inductive: a transition under way has to end with
them exchanged, and a call between its two sections has to hold both, and, if it is an Auto, as
they still are on the buses (`Swaps`, `SeenUsed`).  That holds because no grain starts a transition
and no held take is made in these uses.  A keyer turns with the
background because it is tied as long as the transition lasts, is over already while it lasts, and
turns back with the T-bar (`Turns`); it rests at its level because whatever moves it, its fade, its
tie or its fly, goes there (`Levels`), and a fly keeps its path and has no fade beside it (`FlyOk`).
`UsesKeep` shows `Inv` of `UsesSpec` too, with all state properties that follow from it.

`EngineRuntimeProofs` (any number of runtimes, threads and restarts; `RuntimeAssumption`: at least
one spawn, and `None` is neither a runtime nor a client):

| Theorem | States |
|---|---|
| `TypeCorrect` | `Spec => []TypeOK` |
| `EnginesSupervised` | `Spec => []Supervised` |
| `UsedRuntimeRuns` | `Spec => []UsedIsNotStopped` |
| `ReadyEngineHasState` | `Spec => []ReadyHasState` |

`Supervised` is inductive with the types.  `UsedIsNotStopped` is not: it needs that a runtime
being started is known to its start alone and that a call about to stop a runtime has dropped it
(`Used`).  `ReadyHasState` needs that ready is set by the push for the last process and cleared
before the next one is spawned (`Given`).

`LibraryProofs` (any workers, clients and finite set of items; `LibraryAssumption`): `DeletedIsGone`, `Spec =>
DeletedStays`.  A deleted item could come back through a job that ends, an upload, an import or a
restart.  `IInv` says why not: what is not stored has no files (`Bare`), what a thread placed is
not stored yet and no other thread's (`Placed`), and a call that deletes has an item that was
stored (`Deleting`).

The same module proves the refinement (any items, formats, options, calls, events; one worker):

| Theorem | States |
|---|---|
| `KeepsThePromise` | `Workers = {W}` implies `Spec => KeepsPromise`: the library implements `Playable` |
| `ReadyIsPlayable` | `Workers = {W}` implies `Spec => []ReadyPlays` |

The refinement maps a job's end to `Replace`, the thread that writes `item.json` to `Add`, a
deletion to `Remove`, a kill or an error after a move to `Abandon`, a restart that finds files
missing to `Lose`, and everything else to a stutter.  It needs that a job that is past a file has
put its own options there (`Made`), that a ready conversion has its files while no job is between
them and nothing tore them apart (`Ready`), and that what is not stored is not ready (`Unready`).  One worker is the
default (`FLOWXER_CONVERT_CONCURRENCY`, `settings.py:92`).  With two the proof fails where the
code does: the late `_settle_item` of a cancelled job may mark a conversion as failed that the
other worker is just ending.

`IntakeHolds`, `Spec => []IntakeInv` (any items, formats, options, chunks, workers, clients): an
upload counts no chunk whose bytes are not there (`Counted`), since the step that counts one puts
its bytes in place and one that is cut off or sent again takes none away; an upload has its item
from the step that ends it.  For the legacy import it needs that there is one legacy item at most
and none while an import runs (`OneLegacy`), and that a deletion is remembered before it removes
anything (`Remembered`), also when it is killed in between.

`QueueHolds`, `Spec => []QueueInv` (any formats, options, workers, clients, finite set of items):
types, no conversion is forgotten, and every new item gets one.  A job is held by its queue or by
a worker; it lives until its worker has nothing more to do but forget it.  What waits has a job
that lives (`GoOn`, until the end of a job could not be written), in the format of the mixer, and in any format while a worker is about to
forget a job of it, since that job still keeps another from being queued.  What has a job is not
missing (`HeldKnown`), so that a new item for which a job stands already needs no other; what is
not stored has no conversions (`Unmade`), so that a new item begins without; the format an import
began with is one (`LegacyFormat`).  Lemmas say what queues contain after each operation
(`ContainsHead`, `WithoutIs`, `SetToSeqIs`), what `Queues` and `Cancels` do (`QueuesDo`,
`CancelsDo`), and that a step which leaves what waits with its jobs keeps the rest
(`JobsFollow`), and what an item that is removed, in full or in half, leaves behind
(`RemainLeaves`, `GoneKeeps`).  The proof corrected the model: a deletion cancels job by job, which had been one
step, and one that comes between a change of format and an item of it ends the change, so that
`QueueInv` and `JobsEnd` except that case (`"change"`); one item, which the run has, had not shown
it.

`WorkspaceProofs` (any layouts, inputs, keys, numbers of MEs and keyers, snapshots, documents,
requests, length of behaviour; `WorkspaceAssumption`: counts are numbers, at most four MEs;
`NamesAssumption`: enough cameras of different ids, none an ME's, and `None` no id;
`DocsAssumption`: an imported document has what an export has):

| Theorem | States |
|---|---|
| `EngineNumbers` | `Spec => []EngineAgrees` |
| `StopsHold` | `Spec => []StopHolds` |
| `ConsoleHolds` | `NoneApart => (Spec => []ConsoleInv)`, `NoneApart` that `None` is no snapshot: types, `NoRenderLoop`, `TiesHold`, `MirrorAgrees`, `OnAirKnown`, `StartupExists` |
| `LoadsSettle` | `Spec => []Settles`: `RestartSettles`, `RecallSettles` |
| `RecallsKeep` | `Spec => Keeps`: `OffKeepsAir`, `RestartKeeps` |

The first two need the shape of the console (`Shape`), what a start gave to its engine while
nothing crossed it (`Given`), and that a stop outside a start leaves neither an engine nor a
start, and a mixer on air only until it ends (`Stopped`); every operator on a console keeps its shape, one lemma each.

The others follow from `SoundInv`.  Its core is `Sound`: inputs of different ids in the order of
their slots, as many panels, keyers and keys as the layout says, ties that fit their keyers, a
start-up snapshot that exists.  Layout, load and import need less than that (`Loose`) and make a
console sound: `_sync_sources`, `_sync_panels` and `_sync_keyers` each have a lemma about what
they are given and leave, in this order.  What an operator or a snapshot sets keeps it sound
(`Fits`).  `NoRenderLoop` does not follow from what the console knows, because buses and keys go
on naming a source that was deleted, or an ME that is gone and comes back: inductive is that a
name of an ME is that of a higher one, whatever there is at the time, or was given to an input
(`Higher`), also in every key that a layout without its ME kept.  Snapshots need no such clause, since a recall checks each
source again (`Fit`, `KeyTaken`).  `OnAir` has ME 1's buses known and mirrored from the first half
of a start, so that it holds whenever the second half comes; a change of the structure in between
is the only thing that ends it.

That a second load changes nothing (`LoadedTwice`) needs that trimming, growing and renumbering
are fixed on what they made: nothing is left over or missing, and each kind is already in its
order.  These are facts about a recursion over sequences of any length.  The library's induction
takes a predicate as a parameter, which the provers cannot instantiate, so `UptoInduction` and
`SeqInduction` state it for sets, and `Those` selects by a set where the code filters by a
condition.  A recall without Program/on-air keeps what is visible through any nesting of MEs, as
it keeps what each ME shows (`Visible` is a function of it).

No theorem assumes that the ids of inputs and MEs are apart, as the code does not ensure it:
`register_input()` refuses the ids of the MEs that there are (`mixer.py:1278`), not those that a
larger layout brings, and an import looks at no ME.  A live input registered as `me-2` on a
console of one ME can be taken by ME 2 itself once the layout has it, and when the input is
deleted ME 2's bus names ME 2.  `NoRenderLoop` therefore says of each name of an ME that it is no
loop or was given to an input (`InputIds`), the other parts of `ConsoleInv` and the other four
theorems hold of that console as of any other.  What they assume of documents (`DocsAssumption`)
is what an export gives, under the same proviso.

`TallyProofs` (any sources, receivers, times, calls and failures; `TallyAssumption`: the key is no
source, `None` no value of another kind, the times at least one tick):

| Theorem | States |
|---|---|
| `ClosesSilently` | `Spec => EndsSilent` |
| `TallyHolds` | `Spec => []TallyInv`: types, `ReceiversAgree`, `ExportIsAwake` |

`ShutdownInv` says, for each step of the shutdown, what publishes can still be under way: a lit
one that began before the stop is over when the shutdown's own gets the lock, every one that
begins after the stop is dark, and none sends once the service is closed under that lock.  `ReceiversAgree` is stated of a tally at rest; inductive is that a
change is announced by a call that has still to publish, or is the end of a mix or fade, which a
timer meets or which is known to come untimed (`EndsAreMet`), that a publish under way will leave
a receiver with what is on air unless another one follows it (`ReceiversFollow`), and the same of
the export between its steps (`ExportFollows`).  The proof found what TLC could not with two
calls: a stop of Program cancels the timer of a fade, and a start before the fade has ended lets the
calculator keep the key's lamp until its next refresh; `ExportIsAwake` names this case.

`PanelsProofs` (any sources, levers, API threads, positions of the T-bar, cap of pickups, length
of a behaviour; `PanelsAssumption`, `NoneApart`: `None` is no value of another kind):

| Theorem | States |
|---|---|
| `PanelHolds` | `Spec => []PanelInv`: types, and the mirror agrees with the engine (`EngineFollows`) |
| `AirHolds` | `Spec => []AirIsRed` |
| `LeverHolds` | `Spec => LeverMoved` |
| `DriverHolds` | `Spec => DriverKeepsCounting` |

That the two MEs agree is not inductive: a call changes the mirror first and the engine later.
`Agree` says what the mirror at rest is to the engine, also of a transition that the engine is
still running (as if it had `Ended`) or that the T-bar holds (as if it went `Back`); `Pending`
says, command by command, what the mirror is to the engine while a call is between its halves, in
terms of `Agree` for the mirror before the call.  Each call then has a lemma that leads from
`Agree` to its `Pending`, and each command one that leads from `Pending` to `Agree`, with the
engine's transition ending at any time in between.  `Alone` is why a second call cannot be there
without the reason `raced`, `BeenSince` ties the levers that count to what they were seen at.

`NmosProofs` on `NmosConnection` (any inputs, essences, keyers, flows, times, REST calls and receivers at
once; `ConnectionAssumption`: `None` is no flow, time or connection, inputs are not keyers):

| Theorem | States |
|---|---|
| `PlaneHolds` | `Spec => []PlaneInv`: types, `ControlAgrees`, `KeysAreRead` |
| `SavedHolds` | `Spec => []SavedWhenQuiet` |
| `ScheduleHolds` | `Spec => []ScheduleIsArmed` |

`ControlAgrees` is stated of inputs that no call is changing; inductive is that an input agrees
with its receivers unless a call has stored it and not yet synced (`Agrees`).  Both except the
routes that a start gave by a group hint, until the next activation or call for that input.  The
keys are read from `on_ready` on, not only once the engine is ready (`KeysRead`), but for those
whose last command did not arrive (`unsent`).  What a restart brings back is
what was saved, so `SavedWhenQuiet` needs that parameters and routes agreed when the document was
written; that an activation saves it again is why it holds in spite of timers that fire late.

`NmosProofs` on `NmosRegistration` (any inputs, keyers, MEs, essences, changes and faults;
`RegistrationAssumption`: no essence of an input is called `"key"`):

| Theorem | States |
|---|---|
| `TreeHolds` | `RegistrationSpec => []TreeInv`: types, `ParentsFirst`, `HeldTree` |
| `RegistryHolds` | `RegistrationSpec => []RegistryAgrees`: `RegistryTells`, `NoGhosts` |
| `DeregisteredHolds` | `RegistrationSpec => StaysDeregistered` |

`RegistryTells` is stated of the time between two rounds; inductive is that at each request of a
round what the round has read is still to be posted or held as it was read, as long as the
registry holds the node (`Sent`): a heartbeat that succeeds proves that it does, since a registry
that forgot the node refuses it.  A change that no round has read is still to be marked, or marked
(`Fresh`).  `HeldTree` needs that a resource to be removed takes along what names it (`Pruned`),
which holds at the start of a round because `_registered` is always a whole set of resources
(`Noted`), however many rounds broke off since.  A node stays deregistered because a round under
way at `shutdown()` has posted the node before the join ends (`Halts`), and nothing else is
accepted without it.

`ClipEndsProofs` (any length of clip and stinger, rate, times of the watcher and its timers,
lateness, grains and calls; `GrainAssumption`: positive lengths and rates, `Lead > 2 * Lag`,
`Horizon >= Lead + Poll + 2 * Lag`, `None` no value of another kind):

| Theorem | States |
|---|---|
| `EndsHold` | `Spec => []EndsInv`: types, `OncePerEnd`, `EngineFollows` |
| `NoneMissed` | `Spec => []NoEndMissed` |
| `TakesHold` | `Spec => TakesAreDue`: `OnItsGrain`, `OnlyAtItsEnd` |

Ends are read, timed and acted on in their order: the grain in which the clip ends at the earliest
(`Bound`) never falls, whatever the engine skips or a call does, so an end that was acted on is
below every one still to come (`Counted`).  An action is on its grain because a timer armed in
time runs off before it: the reply and the timer are each late by `Lag`, the lead is more than
both (`Timed`).  `Crossed` says that where nothing crossed them the reply, the timer, a decided
action and a take that sleeps are all of the clip's end.  No end is missed because one that waits for its action (`Awaited`) is
still to be read, is being judged, or has a timer, each with the grain by which it is over; a
reply read after the end tells it (`ReplyTells`).  The proof corrected the model in three places:
an operator's stinger take that slept and wakes after the end is a call too (`lastCall`; with a
longer wait for the player than the run has, `NoEndMissed` was false without it), a clip of one
frame that comes on air again ends at once and again, which counts as crossing (`Grain`), and the
cases of `Advanced` overlapped.

Only model-checked: all liveness (fairness and `ENABLED` are out of the prover's reach):
`AllSettles`, `CallsAndRestartsEnd`, `CatchesUp`, `WaitingEnds`, `JobsEnd`, `ExportSettles`.

## What the code does otherwise than it says

- `EngineOrphan`: the supervisor checks the stop event, spawns, and only then publishes the
  process (`runtime.py:202-213`).  A stop in between (an operator who stops a crashed engine while
  it is restarted) sees no process, ends nothing and returns when its join times out; the engine
  runs on.
- `WorkspaceForgets`: registering an input leaves the layout's count as it is (`mixer.py:1285`),
  and the load of the saved state removes inputs down to that count: an input that was registered
  is gone after a restart, which `README.md:279` says keeps inputs.

## Where a property stops

These are stated in the modules, with the line they are taken from, and do not hold of the code in
general.  The properties that are checked say the same under the condition that excludes the case.

| Definition | What it states | Where it ends |
|---|---|---|
| `CutEndsTransition` (`MixerProperties`) | a Cut during an Auto ends it as at its end (`mixer.hpp:283-284`) | it takes the Preview it read, which was changed meanwhile (`mixer.cpp:372`) |
| `HeldBeforeCommand` | held takes come before a later command (`mixer.hpp:280-281`) | the render thread has the take out of the map and not made yet (`mixer.cpp:342`) |
| `KeysFollowBackground`, `AtRestAgrees` | keyers swap with the background, and rest on or off in full | a Cut that read before a T-bar at 0 was ended; a T-bar back at 0 leaves a keyer that was fading at a part of its gain (`mixer.cpp:723`, `docs/engine-p4.md:322`); a fly option changed during a fly |
| `NoGhostsEver` (`NmosRegistration`) | the registry holds nothing that does not exist (`nmos/service.py:305`) | an answer that is lost, or a kill: the registry has a resource the node has not noted (`_registered`), and when that goes it is never removed |
| `EngineReads` (`NmosConnection`) | a route not sent while the engine is not up is pushed when it is ready (`mixer.py` `_engine_call`) | a route between the push and the ready event; a command that is refused or times out is logged and not sent again (`mixer.py:1724-1727`) |
| `ControlAgrees` without `hinted` | IS-05 and REST are one control plane (`docs/nmos.md:100`) | a start binds the flows of group hints (`mixer.py:1888`, `2099-2115`) without `sync_from_rest`: the receiver still says it reads nothing, until it is activated or the input is changed |
| `KeyAgrees` | a keyer's receiver says what it reads (`service.py:967`) | an IS-05 activation of a keyer that the layout has just removed sets its route, which is still there when the keyer comes back without an activation |
| `NothingHalfDone` (`Library`) | an interrupted run leaves nothing half done (`library/legacy.py:3-5`) | a kill between `item.json` and the queue: no conversion, and none at the start; an item that is deleted while a change of format goes through the items ends it with a `KeyError`, and the later ones (`library/service.py:169`: all) are not queued |
| `FailedFilesAreKept` | a file that cannot be imported moves to `.failed/` (`src/README.md:425`) | an error after the move, say of `item.json` or in the fields of the item, removes the item's directory with the moved original (`library/service.py:428-449`): `file` is "lost" |
| `ConversionsGoOn`, `JobsEnd` without "record" | a failed job ends its item's waiting (`convert.py:274-280`) | the end cannot be written: that is logged, and the item stays queued or converting until the next start |
| `UsedItemsExist` | an item in use is not deleted (`api/library_routes.py:150`) | it is bound between the check and the deletion, by a second client |
| `NoRenderLoop` (`Workspace`) without `InputIds` | an ME takes the Program of a higher ME only (`mixer.py:777`) | an input with the id of an ME that came later, taken by that ME and deleted: the bus names its own ME |
| `OneMoveOneAuto` (`Panels`) | one move of a lever is one Auto (`mixer.py:2337`) | two values of a lever sent without waiting for the first reply |
| `NoEndAfterAll` (`ClipEnds`) | a manual take, stop or cue cancels the end action (`docs/clip-end.md:35`) | what `crossed` marks: among it a take or a Cut between the timer's check (`mixer.py:2858-2863`) and its take, after which the end action takes Program from the operator's source |
| `ReceiversAlwaysAgree` (`Tally`) | receivers get every change (`README.md:476`) | a receiver that was set while a mix or a fade ran: there was none before, so no timer waits for its end |

What else was seen while reading the code against the models, kept here so that nobody reads more
into a passing run:

- NMOS: `join()` at shutdown outlasts one request of the thread by the code's timeouts, which the
  model takes over.  A REST change of a label and an activation that meet may write back the old
  route.  A refused IS-05 request still stages its parameters and drops the scheduled activation.
  Two concurrent REST changes of one input are not modelled.
- Library: converting again with other options while a job runs returns that job.  The
  reconversion of a ready item that a restart cut short is not resumed.  `set_format` breaks off
  when an item is deleted under it.  A file of the import directory is lost if the process is
  killed between its move and `item.json` (`FilesAreKept` says so), and deleted by an error there
  (`FailedFilesAreKept` above).
- Console: a layout with fewer MEs can leave `me-3` on the bus of a lower ME until the next
  restart; deleting an input leaves its name on buses off air; a recall with Program/on-air can
  turn on a key it skipped; an input registered as `me-3` clashes with an ME that comes later
  (`NoRenderLoop` leaves out its name); `autostart` tries again with ids that are gone.  A stop
  that ends after another stop and a start turns the state idle under the new engine
  (`mixer.py:2053`): the structure may be changed then with the engine on air, of which
  `EngineAgrees` says nothing until the next start.
- Clip ends: a stinger's player is given up 1.0 s after its end, before the engine's wait of 50
  grains at 25 frames a second has passed; `_cue_stingers` takes no lock.
- Tally: stopping Program keeps the time of a key's fade and cancels its timer; closing the export
  during its backoff sends nothing; a datagram that is lost is not sent again before the next
  change.

## Not modelled

| Part | Why |
|---|---|
| GPU kernels, render slots, multiview, MXL readers and writers | Buffers and grains: what is decided there is only which picture a grain uses, and that is `plan` in `Mixer` |
| Clip player threads (`engine/player.cpp`), clip loops and ranges | C++ decoder threads over FFmpeg and GPU buffers; whether a player has its first frame is an input of `Mixer`, when a clip ends is in `ClipEnds` |
| DME geometry, wipes, keyframe curves, audio, meters | Arithmetic of one grain, without control state; which keyframe and how long is in `Keyer` |
| Previews, encoders, the media server | Child processes and statistics |
| Values of keyframes, boxes, crops, colours, labels, pinned layouts, stinger slots, downstream keys' details, full-raster cover | Data that no property tells apart |
| REST validation, authentication, metrics, logging, settings | Stateless |
| FFmpeg's commands, disk space, grabs, image sequences, ZIP unpacking, thumbnails | One outcome, success or failure, of a job's step |
| TSL packets and INDEX numbers, preview lamps, SDP files, IS-05 constraints, senders' connection API | Formats; senders are always active |
| Web GUI | Shows the status and calls the API; it keeps no state of the mixer |
| FFmpeg, MXL, CUDA, the registry, the operating system | External: only what the code does with their answers, each of which may fail |
