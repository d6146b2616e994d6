------------------------------- MODULE Tally -------------------------------
(***************************************************************************)
(* Tally: what is visible on Program goes to the TSL receivers             *)
(* (engine/tally.py) on each change and when a mix or a key's fade ends,   *)
(* by timers (engine/mixer.py), and to the tally calculator by a thread of *)
(* its own (engine/tally_export.py).  Every operator call runs in a thread *)
(* of its own: it changes the state, then wakes the export, then publishes *)
(* to the receivers under the lock of TallyService.                        *)
(*                                                                         *)
(* One ME with a background and one key; what a source's visibility is     *)
(* made of (nested MEs, boxes) is Workspace's matter, the preview lamps    *)
(* and the packets are left out.  Times are counted down in ticks, so the  *)
(* clock has no bound.                                                     *)
(***************************************************************************)
EXTENDS Integers, FiniteSets

CONSTANTS
    Sources,        \* what Program can take
    First,          \* what it has at the start
    Key,            \* the key's source
    Receivers,      \* the TSL receivers that may be set
    None,
    MixTicks, FadeTicks,    \* how long a mix and a key's fade take
    Refresh,        \* REFRESH_S
    Backoff,        \* RETRY_BACKOFF_S (one pause for all)
    MaxCalls, MaxFails,     \* bounds: operator calls, failed sends
    MaxRacing               \* bound: publishes of calls and timers under way at the shutdown

\* A publish: its lamps, if they were made while a mix or fade ran untimed, for whom they were made
\* and who is left (None: not yet known).
Publishes == [lamps : SUBSET (Sources \cup {Key}), blind : BOOLEAN, made : SUBSET Receivers,
              left : {None} \cup SUBSET Receivers]

\* A running mix: its outgoing source and the ticks left.
Mixes == [out : Sources, left : 1..MixTicks]

ASSUME TallyAssumption ==
    /\ Key \notin Sources /\ None \notin Sources /\ First \in Sources
    /\ {MixTicks, FadeTicks, Refresh, Backoff} \subseteq Nat \ {0}
    /\ MaxCalls \in Nat /\ MaxFails \in Nat /\ MaxRacing \in Nat
    /\ \A set \in SUBSET Receivers : set # None
    /\ \A p \in Publishes : p # None
    /\ None \notin Mixes

VARIABLES
    running, program,   \* Program runs, its source
    mix,            \* _mixes: the outgoing source and the ticks left (None: no mix)
    key,            \* the key is on, and the ticks it fades off
    timers,         \* _tally_timers: ticks left, for the export too
    notices,        \* threads that have still to wake the export and publish
    publishers,     \* threads that wait for TallyService's lock
    publish,        \* the publish that holds it: its lamps, whom they were made for, who is left
    receivers,      \* the receivers that are set
    shown, error,   \* per receiver its lamps, and _last_error
    closed,         \* TallyService is closed
    down,           \* how far the shutdown is: "up", "stopped" (its publish to come), "waiting"
                    \* (for the lock), "sending", "dark" (its publish over), "closed"
    thread,         \* the export's thread: where it is, and if it closes after this send
    wake,           \* the export's event
    wait, retry,    \* ticks to its next send, and to the end of its backoff
    failing,        \* its last send failed (_failures)
    exported,       \* the lamps at the calculator
    untimed,        \* history: ticks a mix or fade runs on without a timer for its end
    cancelled,      \* history: a stop cancelled the timer of the key's fade
    blind,          \* history: receivers whose lamps are from when one did
    calls, fails    \* calls and failed sends left

air == <<running, program, mix, key>>
service == <<publish, shown, error, blind>>
export == <<thread, wait, retry, failing, exported>>
unended == <<untimed, cancelled>>
vars == <<air, timers, notices, publishers, service, receivers, closed, down, export, wake,
          unended, calls, fails>>

Later(a, b) == IF a > b THEN a ELSE b
Less(n) == IF n = 0 THEN 0 ELSE n - 1

-----------------------------------------------------------------------------
\* The sources visible on Program (_me_layers): both of a running mix, and the key's until it has
\* faded off.
Lamps ==
    IF ~running THEN {}
    ELSE {program} \cup (IF mix = None THEN {} ELSE {mix.out})
                   \cup (IF key.on \/ key.left > 0 THEN {Key} ELSE {})

\* (Bug: the timer runs off before the end.)
AgainEarly(ticks, forExport) ==
    /\ timers' = timers \cup {[left |-> ticks - 1, export |-> forExport]}
    /\ UNCHANGED untimed

\* The tally again in `ticks`, at the end of a mix or a fade: nothing without a receiver that
\* wants it.
Again(ticks, forExport) ==
    IF receivers # {} \/ forExport
    THEN /\ timers' = timers \cup {[left |-> ticks, export |-> forExport]}
         /\ UNCHANGED untimed
    ELSE /\ untimed' = Later(untimed, ticks)
         /\ UNCHANGED timers

\* Every timer is cancelled; a fade that runs has none any more.
CancelTimers == /\ timers' = {}
                /\ untimed' = Later(untimed, key.left)
                /\ cancelled' = (cancelled \/ key.left > 0)

\* A call of the operator; it announces its change (Announce), also after the shutdown began.
Call == /\ down = "up" /\ calls > 0 /\ calls' = calls - 1
        /\ notices' = notices + 1
        /\ UNCHANGED <<publishers, closed, down, export, wake, fails>>

Cut(source) ==
    /\ Call /\ running
    /\ program' = source /\ mix' = None
    /\ UNCHANGED <<running, key, timers, unended, receivers, service>>

\* A mix: the export sends at its end by itself.
Mix(source) ==
    /\ Call /\ running /\ source # program
    /\ program' = source /\ mix' = [out |-> program, left |-> MixTicks]
    /\ Again(MixTicks, FALSE)
    /\ UNCHANGED <<running, key, cancelled, receivers, service>>

SwitchKey ==
    /\ Call
    /\ IF key.on THEN key' = [on |-> FALSE, left |-> FadeTicks] /\ Again(FadeTicks, TRUE)
       ELSE key' = [on |-> TRUE, left |-> 0] /\ UNCHANGED <<timers, untimed>>
    /\ cancelled' = FALSE
    /\ UNCHANGED <<running, program, mix, receivers, service>>

\* PUT /tally/receivers: takes no lock, a publish may be under way.
Replace(set) ==
    /\ Call
    /\ receivers' = set /\ error' = error \cap set
    /\ UNCHANGED <<air, timers, unended, publish, shown, blind>>

StartProgram ==
    /\ Call /\ ~running
    /\ running' = TRUE
    /\ UNCHANGED <<program, mix, key, timers, unended, receivers, service>>

\* What stop() does to the state (a fade's end it keeps).
Stopped == running' = FALSE /\ mix' = None /\ UNCHANGED <<program, key>>

StopProgram ==
    /\ Call /\ running
    /\ Stopped /\ CancelTimers
    /\ UNCHANGED <<receivers, service>>

-----------------------------------------------------------------------------
(* The receivers                                                           *)

\* _publish_tally(): the export is woken, then the receivers' turn comes.
Announce ==
    /\ notices > 0 /\ notices' = notices - 1
    /\ wake' = TRUE
    /\ publishers' = publishers + 1
    /\ UNCHANGED <<air, timers, service, receivers, closed, down, export, unended, calls, fails>>

\* A timer at its end, still in the set (not cancelled): one publish more.
TimerFires ==
    \E t \in timers :
        /\ t.left = 0
        /\ timers' = timers \ {t}
        /\ notices' = IF t.export THEN notices + 1 ELSE notices
        /\ publishers' = IF t.export THEN publishers ELSE publishers + 1
        /\ UNCHANGED <<air, service, receivers, closed, down, export, wake, unended, calls, fails>>

\* publish() gets the lock, for one that waits or for the shutdown (`own`): nothing once closed,
\* else the lamps for the receivers as they are.
Begin(own) ==
    /\ publish = None
    /\ IF own THEN down = "waiting" ELSE publishers > 0
    /\ publishers' = IF own THEN publishers ELSE publishers - 1
    /\ down' = IF own THEN "sending" ELSE down
    /\ publish' = IF closed THEN None
                  ELSE [lamps |-> Lamps, blind |-> untimed > 0, made |-> receivers, left |-> None]
    /\ UNCHANGED <<air, timers, notices, shown, error, blind, receivers, closed, export, wake,
                   unended, calls, fails>>

\* The sends begin: over the receivers as they are by now.  One the lamps were not made for ends
\* the publish (KeyError, logged): the call that set it publishes too.
Turn ==
    /\ publish # None /\ publish.left = None
    /\ publish' = [publish EXCEPT !.left = receivers]
    /\ UNCHANGED <<air, timers, notices, publishers, shown, error, blind, receivers, closed, down,
                   export, wake, unended, calls, fails>>

\* One receiver gets its packet, or the send fails (a TCP one after a reconnect).
Send(r, ok) ==
    /\ publish # None /\ publish.left # None /\ r \in publish.left \cap publish.made
    /\ ~ok => fails > 0
    /\ fails' = IF ok THEN fails ELSE fails - 1
    /\ shown' = IF ok THEN [shown EXCEPT ![r] = publish.lamps] ELSE shown
    /\ error' = IF ok THEN error \ {r} ELSE error \cup {r}
    /\ blind' = IF ~ok THEN blind ELSE IF publish.blind THEN blind \cup {r} ELSE blind \ {r}
    /\ publish' = [publish EXCEPT !.left = @ \ {r}]
    /\ UNCHANGED <<air, timers, notices, publishers, receivers, closed, down, export, wake,
                   unended, calls>>

Done ==
    /\ publish # None /\ publish.left # None
    /\ publish.left = {} \/ publish.left \ publish.made # {}
    /\ publish' = None
    /\ down' = IF down = "sending" THEN "dark" ELSE down
    /\ UNCHANGED <<air, timers, notices, publishers, shown, error, blind, receivers, closed,
                   export, wake, unended, calls, fails>>

-----------------------------------------------------------------------------
(* The export's thread                                                     *)

\* The event is cleared before the state is read, and `closing` read before it too.
Clear == thread' = [at |-> "send", closing |-> down = "closed"] /\ wake' = FALSE

\* A round begins.
Round ==
    /\ thread.at = "begin"
    /\ Clear
    /\ UNCHANGED <<air, timers, notices, publishers, service, receivers, closed, down, wait, retry,
                   failing, exported, unended, calls, fails>>

\* When it sends again: at the end of a mix, and after Refresh at the latest.
NextSend == IF mix # None /\ mix.left < Refresh THEN mix.left ELSE Refresh

\* (Bug: a round that only waits begins the backoff again.)
RetryAlways(ok) == IF ok /\ retry = 0 THEN 0 ELSE Backoff

\* The backoff, begun by a failed send.
RetryAfter(ok) == IF ok THEN retry ELSE Backoff

\* The round's send: nothing while it backs off; a failed one backs off.  Then it waits, or ends.
ExportSend(ok) ==
    /\ thread.at = "send"
    /\ ~ok => retry = 0 /\ fails > 0
    /\ fails' = IF ok THEN fails ELSE fails - 1
    /\ exported' = IF ok /\ retry = 0 THEN Lamps ELSE exported
    /\ retry' = RetryAfter(ok)
    /\ failing' = (IF retry = 0 THEN ~ok ELSE failing)
    /\ wait' = IF ok /\ retry = 0 THEN NextSend ELSE Refresh
    /\ thread' = [thread EXCEPT !.at = IF thread.closing THEN "ended" ELSE "wait"]
    /\ UNCHANGED <<air, timers, notices, publishers, service, receivers, closed, down, wake,
                   unended, calls>>

\* The wait ends by the event or its time.
Wake ==
    /\ thread.at = "wait" /\ (wake \/ wait = 0)
    /\ thread' = [thread EXCEPT !.at = "begin"]
    /\ UNCHANGED <<air, timers, notices, publishers, service, receivers, closed, down, wait, retry,
                   failing, wake, exported, unended, calls, fails>>

-----------------------------------------------------------------------------
(* Shutdown and time                                                       *)

\* The publishes of calls and timers that wait or run.
Racing == notices + publishers + (IF publish = None THEN 0 ELSE 1)

\* shutdown(): Program stops, whatever publishes are under way.
ShutDown ==
    /\ down = "up" /\ Racing <= MaxRacing
    /\ down' = "stopped"
    /\ Stopped /\ CancelTimers
    /\ UNCHANGED <<notices, publishers, service, receivers, closed, export, wake, calls, fails>>

\* Its publish wakes the export, then waits for its turn.
Darken ==
    /\ down = "stopped"
    /\ down' = "waiting" /\ wake' = TRUE
    /\ UNCHANGED <<air, timers, notices, publishers, service, receivers, closed, export, unended,
                   calls, fails>>

\* (Bug: the service closes without waiting for the publish that runs.)
CloseNow == TRUE

\* The service closes under its lock.
CloseWaits == publish = None

\* The stop's publish is over: what timers were set meanwhile are cancelled, the service closes,
\* and the export is told to end.
Close ==
    /\ down = "dark" /\ CloseWaits
    /\ CancelTimers
    /\ closed' = TRUE
    /\ down' = "closed" /\ wake' = TRUE
    /\ UNCHANGED <<air, notices, publishers, service, receivers, export, calls, fails>>

\* Time passes.  Threads that can run do before: a tick is long against them.
Tick ==
    /\ \A t \in timers : t.left > 0
    /\ ~(thread.at = "wait" /\ wait = 0)
    /\ mix' = IF mix = None \/ mix.left = 1 THEN None ELSE [mix EXCEPT !.left = @ - 1]
    /\ key' = [key EXCEPT !.left = Less(@)]
    /\ timers' = {[t EXCEPT !.left = @ - 1] : t \in timers}
    /\ wait' = Less(wait) /\ retry' = Less(retry) /\ untimed' = Less(untimed)
    /\ UNCHANGED <<running, program, notices, publishers, service, receivers, closed, down, thread,
                   failing, wake, exported, cancelled, calls, fails>>

-----------------------------------------------------------------------------
\* Program has started, with the keys as they were saved, and its publish is over.
Init ==
    /\ running = TRUE /\ program = First /\ mix = None
    /\ \E on \in BOOLEAN : key = [on |-> on, left |-> 0]
    /\ timers = {} /\ notices = 0 /\ publishers = 0 /\ publish = None
    /\ receivers \in SUBSET Receivers
    /\ shown = [r \in Receivers |-> IF r \in receivers THEN Lamps ELSE {}]
    /\ error = {} /\ blind = {}
    /\ closed = FALSE /\ down = "up"
    /\ thread = [at |-> "wait", closing |-> FALSE] /\ wake = FALSE
    /\ wait = Refresh /\ retry = 0 /\ failing = FALSE /\ exported = Lamps
    /\ untimed = 0 /\ cancelled = FALSE /\ calls = MaxCalls /\ fails = MaxFails

Operator ==
    \/ \E source \in Sources : Cut(source) \/ Mix(source)
    \/ SwitchKey \/ StartProgram \/ StopProgram
    \/ \E set \in SUBSET Receivers : Replace(set)

Service == Announce \/ TimerFires \/ Darken \/ Turn \/ Done
           \/ \E own \in BOOLEAN : Begin(own)
           \/ \E r \in Receivers : Send(r, TRUE)
Export == Round \/ ExportSend(TRUE) \/ Wake

Next == \/ Operator \/ Service \/ Export \/ Tick \/ ShutDown \/ Close
        \/ ExportSend(FALSE) \/ \E r \in Receivers : Send(r, FALSE)

\* Threads that can run do, and time passes: sends are bounded by their socket's timeout.
Spec == Init /\ [][Next]_vars /\ WF_vars(Service) /\ WF_vars(Export) /\ WF_vars(Tick)

-----------------------------------------------------------------------------
\* Every value is of its kind.
TypeOK ==
    /\ running \in BOOLEAN /\ program \in Sources
    /\ mix # None => running /\ mix \in Mixes
    /\ key.left \in 0..FadeTicks /\ (key.on => key.left = 0)
    /\ {t.left : t \in timers} \subseteq 0..Later(MixTicks, FadeTicks)
    /\ receivers \subseteq Receivers /\ shown \in [Receivers -> SUBSET (Sources \cup {Key})]
    /\ thread.at \in {"begin", "send", "wait", "ended"}
    /\ wait \in 0..Refresh /\ retry \in 0..Backoff

\* Nothing of the receivers' is under way.
Quiet == /\ notices = 0 /\ publishers = 0 /\ publish = None /\ down \notin {"stopped", "waiting"}
         /\ \A t \in timers : t.left > 0

\* Once every publish is over, each receiver shows what is on air, the outgoing source of a mix
\* or of a fade off as soon as it ends (engine/tally.py, _tally_again_at()); but one whose last
\* send failed, and one that was set while a mix or fade ran that has no timer.
ReceiversAgree ==
    Quiet => \A r \in receivers \ (error \cup blind) : shown[r] = Lamps

\* The export never sleeps on an old state: while it waits without a call or a timer on its way
\* to wake it, and its last send was made, the calculator has what is on air (no wake-up is lost
\* between its snapshot and its wait, and a mix's end ends the wait); but for the key's lamp when a
\* stop cancelled the timer of its fade and Program started again before the fade had ended.
ExportIsAwake ==
    thread.at = "wait" /\ ~wake /\ wait > 0 /\ ~failing /\ notices = 0 /\ down # "stopped"
    /\ (\A t \in timers : t.left > 0)
        => \/ exported = Lamps
           \/ cancelled /\ exported \ {Key} = Lamps \ {Key}

\* After the shutdown every lamp is off that could be reached: the receivers' whose last send was
\* made, the calculator's when the export's last send was made.
DarkAtTheEnd ==
    /\ closed => \A r \in receivers \ error : shown[r] = {}
    /\ thread.at = "ended" /\ ~failing => exported = {}

\* When the operator is done, the calculator ends up with what is on air whatever sends failed,
\* unless the export ended first.
ExportSettles == <>[](exported = Lamps \/ thread.at = "ended")

\* The manual says the receivers get a packet when a mix or a key's fade ends, without an
\* operator action.
ReceiversAlwaysAgree == Quiet => \A r \in receivers \ error : shown[r] = Lamps

\* The lamps that were sent are those on air, at the receivers and at the calculator.
TallyInv == TypeOK /\ ReceiversAgree /\ ExportIsAwake

\* After the shutdown the lamps are off, and nothing is sent to a receiver any more, whatever
\* publishes of calls and timers run or wait for the lock while it stops and closes.
EndsSilent == [][DarkAtTheEnd' /\ (closed => UNCHANGED <<shown, error>>)]_vars
=============================================================================
