----------------------------- MODULE Visualizer -----------------------------
(***************************************************************************)
(* The two threads of the Python visualizer.  The simulation thread         *)
(* (SimulationThread.run) waits for the event `go' and, under the lock,     *)
(* runs the simulator up to target_time.  The view thread runs the GTK      *)
(* main loop: it dispatches the idle callbacks update_model (which go       *)
(* before everything else), the user's events and the timer callback        *)
(* update_view_timeout (which comes last).  While the lock is taken         *)
(* update_view_timeout runs the main loop nested inside itself, so any of   *)
(* these callbacks may run in the middle of it, another timer included.     *)
(*                                                                         *)
(* Simulated time is abstracted to whether target_time is ahead of Now,     *)
(* the samples of a period to whether they have been read, and pause        *)
(* messages are counted.                                                    *)
(***************************************************************************)
EXTENDS Integers, Sequences, FiniteSets, SequencesExt

CONSTANTS
    UserEvents,   \* number of user events in a run
    MaxPauses     \* pause messages raised and not yet shown

ASSUME VisualizerAssumption == UserEvents \in Nat /\ MaxPauses \in Nat

NoTimer == 0

VARIABLES
    simAt,        \* next step of the simulation thread
    go,           \* the threading.Event
    quit,         \* SimulationThread.quit
    locked,       \* the simulation thread holds the lock
    ahead,        \* target_time > Simulator::Now
    samples,      \* m_transmissionSamples and m_packetDrops
    raised,       \* m_pauseMessages of PyViz
    pause_messages,
    mainAt,       \* next step of the view thread
    spins,        \* activations of update_view_timeout, with their timers
    taken,        \* pause messages the innermost activation has taken over
    models,       \* update_model callbacks waiting in the main loop
    timers,       \* timer sources that exist
    timerId,      \* _update_timeout_id
    playing,      \* play_button.get_active()
    created,      \* timers created so far
    userEvents,   \* user events left
    unshown,      \* pause messages raised and not shown (history variable)
    lost,         \* samples of some period were never read (history variable)
    late          \* periods simulated since the play button was released (history)

simVars == <<simAt, locked, ahead, samples, raised, pause_messages, unshown, lost, late>>
viewVars == <<mainAt, spins, taken, timers, timerId, playing, created, userEvents>>
vars == <<simVars, viewVars, go, quit, models>>

Init ==
    /\ simAt = "test" /\ go = FALSE /\ quit = FALSE /\ locked = FALSE
    /\ ahead = FALSE /\ samples = "none" /\ raised = 0 /\ pause_messages = 0
    /\ mainAt = "loop" /\ spins = << >> /\ taken = 0 /\ models = 0
    /\ timers = {1} /\ timerId = 1 /\ created = 1   \* _speed_changed of the window
    /\ playing = FALSE
    /\ userEvents = UserEvents
    /\ unshown = 0 /\ lost = FALSE /\ late = 0

-----------------------------------------------------------------------------
(***************************************************************************)
(* SimulationThread.run.                                                    *)
(***************************************************************************)
SimTest ==
    /\ simAt = "test"
    /\ simAt' = IF quit THEN "exited" ELSE "wait"
    /\ UNCHANGED <<viewVars, go, quit, models, locked, ahead, samples, raised,
                   pause_messages, unshown, lost, late>>

SimWait ==
    /\ simAt = "wait" /\ go
    /\ simAt' = "clear"
    /\ UNCHANGED <<viewVars, go, quit, models, locked, ahead, samples, raised,
                   pause_messages, unshown, lost, late>>

SimClear ==
    /\ simAt = "clear"
    /\ go' = FALSE
    /\ simAt' = "check"
    /\ UNCHANGED <<viewVars, quit, models, locked, ahead, samples, raised,
                   pause_messages, unshown, lost, late>>

SimCheck ==
    /\ simAt = "check"
    /\ simAt' = IF quit THEN "exited" ELSE "acquire"
    /\ UNCHANGED <<viewVars, go, quit, models, locked, ahead, samples, raised,
                   pause_messages, unshown, lost, late>>

SimAcquire ==
    /\ simAt = "acquire" /\ ~locked
    /\ locked' = TRUE
    /\ simAt' = "run"
    /\ UNCHANGED <<viewVars, go, quit, models, ahead, samples, raised,
                   pause_messages, unshown, lost, late>>

(***************************************************************************)
(* PyViz::SimulatorRunUntil clears what the last period left, and runs only *)
(* when the target is ahead; then an event may call Pause.                  *)
(***************************************************************************)
SimulatorRunUntil(pauses) ==
    /\ simAt = "run"
    /\ pauses \in IF ahead /\ unshown < MaxPauses THEN {0, 1} ELSE {0}
    /\ raised' = pauses
    /\ unshown' = unshown + pauses
    /\ lost' = (lost \/ samples = "fresh")
    /\ samples' = IF ahead THEN "fresh" ELSE "none"
    /\ late' = IF ahead /\ ~playing THEN late + 1 ELSE late
    /\ ahead' = FALSE
    /\ simAt' = "extend"
    /\ UNCHANGED <<viewVars, go, quit, models, locked, pause_messages>>

SimExtend ==
    /\ simAt = "extend"
    /\ pause_messages' = pause_messages + raised
    /\ simAt' = "idle_add"
    /\ UNCHANGED <<viewVars, go, quit, models, locked, ahead, samples, raised,
                   unshown, lost, late>>

SimIdleAdd ==
    /\ simAt = "idle_add"
    /\ models' = models + 1
    /\ simAt' = "release"
    /\ UNCHANGED <<viewVars, go, quit, locked, ahead, samples, raised,
                   pause_messages, unshown, lost, late>>

SimRelease ==
    /\ simAt = "release"
    /\ locked' = FALSE
    /\ simAt' = "test"
    /\ UNCHANGED <<viewVars, go, quit, models, ahead, samples, raised,
                   pause_messages, unshown, lost, late>>

-----------------------------------------------------------------------------
(***************************************************************************)
(* The main loop of the view thread.  It dispatches in "loop" and, nested   *)
(* in update_view_timeout, in "events".                                     *)
(***************************************************************************)
Dispatching == mainAt \in {"loop", "events"}
Return(stack) == IF stack /= << >> THEN "events" ELSE IF quit THEN "ended" ELSE "loop"

DispatchUpdateModel ==
    /\ Dispatching /\ models > 0
    /\ models' = models - 1
    /\ mainAt' = "model"
    /\ UNCHANGED <<simVars, spins, taken, timers, timerId, playing, created,
                   userEvents, go, quit>>

\* update_model waits for the lock and emits simulation-periodic-update.
update_model ==
    /\ mainAt = "model" /\ ~locked
    /\ samples' = IF samples = "fresh" THEN "read" ELSE samples
    /\ mainAt' = Return(spins)
    /\ UNCHANGED <<simAt, locked, ahead, raised, pause_messages, unshown, lost, late,
                   spins, taken, timers, timerId, playing, created, userEvents,
                   go, quit, models>>

\* A timer is due.  GLib does not dispatch a source inside itself.
DispatchTimer(t) ==
    /\ Dispatching /\ models = 0
    /\ t \in timers /\ t \notin ToSet(spins)
    /\ spins' = Append(spins, t)
    /\ mainAt' = "try"
    /\ UNCHANGED <<simVars, taken, timers, timerId, playing, created, userEvents,
                   go, quit, models>>

-----------------------------------------------------------------------------
(***************************************************************************)
(* update_view_timeout.                                                     *)
(***************************************************************************)
LockIsTaken ==
    /\ mainAt = "try" /\ locked
    /\ mainAt' = "events"
    /\ UNCHANGED <<simVars, spins, taken, timers, timerId, playing, created,
                   userEvents, go, quit, models>>

NoEventsPending ==
    /\ mainAt = "events" /\ models = 0
    /\ mainAt' = "try"
    /\ UNCHANGED <<simVars, spins, taken, timers, timerId, playing, created,
                   userEvents, go, quit, models>>

\* Mutant: the pause messages are not swapped out.
UpdateViewTwice ==
    /\ mainAt = "try" /\ ~locked
    /\ taken' = pause_messages
    /\ ahead' = TRUE
    /\ mainAt' = "after"
    /\ UNCHANGED <<simAt, locked, samples, raised, unshown, lost, late, spins, timers,
                   timerId, playing, created, userEvents, go, quit, models,
                   pause_messages>>

UpdateView ==
    /\ mainAt = "try" /\ ~locked
    /\ taken' = pause_messages
    /\ pause_messages' = 0
    /\ ahead' = TRUE
    /\ mainAt' = "after"
    /\ UNCHANGED <<simAt, locked, samples, raised, unshown, lost, late, spins, timers,
                   timerId, playing, created, userEvents, go, quit, models>>

\* Releasing the button removes the source, but the id is not forgotten.
StopPlaying == timers \ {timerId}

\* Mutant: go is set also when paused.
FinishAlwaysGo ==
    /\ mainAt = "after"
    /\ unshown' = unshown - taken
    /\ playing' = (playing /\ taken = 0)
    /\ go' = TRUE
    /\ late' = IF playing' THEN 0 ELSE late
    /\ taken' = 0
    /\ spins' = Front(spins)
    /\ mainAt' = Return(spins')
    /\ UNCHANGED <<simAt, locked, ahead, samples, raised, pause_messages, lost, created,
                   timers, timerId, userEvents, quit, models>>

Finish ==
    LET left == IF playing /\ taken > 0 THEN StopPlaying ELSE timers IN
    /\ mainAt = "after"
    /\ unshown' = unshown - taken
    /\ playing' = (playing /\ taken = 0)
    /\ IF playing'
       THEN /\ go' = TRUE
            /\ UNCHANGED <<timers, timerId>>
       ELSE /\ timerId' = NoTimer
            /\ timers' = left \ {Last(spins)}
            /\ UNCHANGED go
    /\ late' = IF playing' THEN 0 ELSE late
    /\ taken' = 0
    /\ spins' = Front(spins)
    /\ mainAt' = Return(spins')
    /\ UNCHANGED <<simAt, locked, ahead, samples, raised, pause_messages, lost, created,
                   userEvents, quit, models>>

-----------------------------------------------------------------------------
(***************************************************************************)
(* The user.                                                                *)
(***************************************************************************)
UserEvent ==
    /\ Dispatching /\ models = 0 /\ ~quit
    /\ userEvents > 0 /\ userEvents' = userEvents - 1

_start_update_timer ==
    /\ created' = created + 1
    /\ timers' = (timers \ {timerId}) \cup {created'}
    /\ timerId' = created'

\* Mutant: the timer is not started.
ToggledWithoutTimer ==
    /\ UserEvent
    /\ playing' = ~playing
    /\ timers' = StopPlaying /\ UNCHANGED <<timerId, created>>
    /\ late' = 0
    /\ UNCHANGED <<simAt, locked, ahead, samples, raised, pause_messages, unshown, lost,
                   mainAt, spins, taken, go, quit, models>>

on_play_button_toggled ==
    /\ UserEvent
    /\ playing' = ~playing
    /\ IF playing' THEN _start_update_timer
       ELSE timers' = StopPlaying /\ UNCHANGED <<timerId, created>>
    /\ late' = 0
    /\ UNCHANGED <<simAt, locked, ahead, samples, raised, pause_messages, unshown, lost,
                   mainAt, spins, taken, go, quit, models>>

speed_changed ==
    /\ UserEvent
    /\ _start_update_timer
    /\ UNCHANGED <<simVars, mainAt, spins, taken, playing, go, quit, models>>

Quit ==
    /\ UserEvent
    /\ timers' = timers \ {timerId}
    /\ timerId' = NoTimer
    /\ quit' = TRUE
    /\ mainAt' = "set_go"
    /\ UNCHANGED <<simVars, spins, taken, playing, created, go, models>>

\* Mutant: go is not set.
QuitGoForgotten ==
    /\ mainAt = "set_go"
    /\ mainAt' = "join"
    /\ UNCHANGED <<simVars, spins, taken, timers, timerId, playing, created,
                   userEvents, quit, models, go>>

QuitGo ==
    /\ mainAt = "set_go"
    /\ go' = TRUE
    /\ mainAt' = "join"
    /\ UNCHANGED <<simVars, spins, taken, timers, timerId, playing, created,
                   userEvents, quit, models>>

QuitJoin ==
    /\ mainAt = "join" /\ simAt = "exited"
    /\ mainAt' = Return(spins)
    /\ UNCHANGED <<simVars, spins, taken, timers, timerId, playing, created,
                   userEvents, go, quit, models>>

\* The program has ended, or waits for a user who does nothing any more.
Rest ==
    /\ mainAt = "ended" \/ userEvents = 0
    /\ UNCHANGED vars

SimStep ==
    \/ SimTest \/ SimWait \/ SimClear \/ SimCheck \/ SimAcquire
    \/ \E pauses \in {0, 1} : SimulatorRunUntil(pauses)
    \/ SimExtend \/ SimIdleAdd \/ SimRelease

\* What the view thread does without the user.
ViewStep ==
    \/ DispatchUpdateModel \/ update_model
    \/ LockIsTaken \/ UpdateView \/ Finish
    \/ QuitGo \/ QuitJoin

Tick == \E t \in timers : DispatchTimer(t)

Next ==
    \/ SimStep \/ ViewStep \/ Tick \/ NoEventsPending
    \/ on_play_button_toggled \/ speed_changed \/ Quit
    \/ Rest

(***************************************************************************)
(* Both threads are scheduled and a timer that exists fires.  Nothing is    *)
(* assumed of the user.                                                     *)
(***************************************************************************)
Fairness ==
    WF_vars(SimStep) /\ WF_vars(ViewStep) /\ WF_vars(Tick) /\ WF_vars(NoEventsPending)

Spec == Init /\ [][Next]_vars /\ Fairness

-----------------------------------------------------------------------------
\* Type invariant.
TypeOK ==
    /\ simAt \in {"test", "wait", "clear", "check", "acquire", "run", "extend",
                  "idle_add", "release", "exited"}
    /\ go \in BOOLEAN /\ quit \in BOOLEAN /\ locked \in BOOLEAN
    /\ ahead \in BOOLEAN /\ playing \in BOOLEAN /\ lost \in BOOLEAN
    /\ samples \in {"none", "fresh", "read"}
    /\ raised \in 0 .. 1
    /\ pause_messages \in 0 .. MaxPauses /\ taken \in 0 .. MaxPauses
    /\ unshown \in 0 .. MaxPauses
    /\ mainAt \in {"loop", "model", "try", "events", "after", "set_go", "join", "ended"}
    /\ spins \in Seq(1 .. UserEvents + 1)
    /\ models \in Nat
    /\ timers \subseteq 1 .. created
    /\ created \in 1 .. UserEvents + 1
    /\ timerId \in 0 .. created
    /\ userEvents \in 0 .. UserEvents
    /\ late \in Nat

(***************************************************************************)
(* No pause message is lost or shown twice between the threads, wherever    *)
(* the view takes the list over: every message that is not shown is in      *)
(* exactly one place.                                                       *)
(***************************************************************************)
NoMessageLost ==
    unshown = pause_messages + taken + (IF simAt = "extend" THEN raised ELSE 0)

(***************************************************************************)
(* A paused simulation comes to rest: go is only set by update_view_timeout *)
(* while playing, so after the button is released, by the user or by a      *)
(* pause message, at most the period in progress and one for which go was   *)
(* already set again are simulated.                                         *)
(***************************************************************************)
PauseComesToRest == late <= 2

(***************************************************************************)
(* _quit ends: the simulation thread sees quit wherever it is, also when    *)
(* it has just consumed an earlier go, and can be joined, also from a main  *)
(* loop nested in update_view_timeout.                                      *)
(***************************************************************************)
QuitEnds == quit ~> mainAt = "ended"

(***************************************************************************)
(* A pause message is shown unless the user stops or quits first, in which  *)
(* case it is shown when the user plays on.                                 *)
(***************************************************************************)
MessageIsShown == (pause_messages > 0 /\ playing) ~> (unshown = 0 \/ ~playing \/ quit)

(***************************************************************************)
(* The comment on simulation-periodic-update: the signal is emitted after   *)
(* every simulation period, so the samples of a period are read before the  *)
(* next one clears them.                                                    *)
(***************************************************************************)
EveryPeriodIsSeen == ~lost

(***************************************************************************)
(* The comment in update_view_timeout: if we're paused, stop the update     *)
(* timer.  Once it has set _update_timeout_id to None no timer is left.     *)
(***************************************************************************)
PausedStopsTimer == timerId = NoTimer => timers = {}
=============================================================================
