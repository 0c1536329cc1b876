-------------------------- MODULE VisualizerProofs --------------------------
(***************************************************************************)
(* Proofs about the two threads of the visualizer, for any number of user   *)
(* events and of pause messages.                                            *)
(***************************************************************************)
EXTENDS Visualizer, SequenceTheorems, TLAPS

(***************************************************************************)
(* The type invariant in parts: flags, program counters, pause messages,    *)
(* and the timers with the stack of activations.  Every timer but the first *)
(* one is due to a user event.                                              *)
(***************************************************************************)
Flags ==
    /\ go \in BOOLEAN /\ quit \in BOOLEAN /\ locked \in BOOLEAN
    /\ ahead \in BOOLEAN /\ playing \in BOOLEAN /\ lost \in BOOLEAN

Labels ==
    /\ simAt \in {"test", "wait", "clear", "check", "acquire", "run", "extend",
                  "idle_add", "release", "exited"}
    /\ samples \in {"none", "fresh", "read"}
    /\ mainAt \in {"loop", "model", "try", "events", "after", "set_go", "join", "ended"}

Messages ==
    /\ raised \in 0 .. 1
    /\ pause_messages \in Nat /\ taken \in Nat
    /\ unshown \in 0 .. MaxPauses
    /\ models \in Nat

Timers ==
    /\ created \in 1 .. UserEvents + 1
    /\ userEvents \in 0 .. UserEvents
    /\ created + userEvents <= UserEvents + 1
    /\ timers \subseteq 1 .. created
    /\ timerId \in 0 .. created

Stack ==
    /\ spins \in Seq(1 .. UserEvents + 1)
    /\ mainAt \in {"try", "after", "events"} => spins /= << >>

(***************************************************************************)
(* What the places of the threads imply: the simulation thread holds the    *)
(* lock exactly inside its with statement, the pause messages are only      *)
(* taken over between the two parts of update_view_timeout, and _quit sets  *)
(* the flag before it does anything else.                                   *)
(***************************************************************************)
Places ==
    /\ locked <=> simAt \in {"run", "extend", "idle_add", "release"}
    /\ mainAt /= "after" => taken = 0
    /\ mainAt \in {"set_go", "join"} => quit

(***************************************************************************)
(* The periods the simulation thread will still begin if the play button    *)
(* stays released: the one it is about to run, and one more when go has     *)
(* been set since it was cleared.  After quit only the first one.           *)
(***************************************************************************)
Pending ==
    IF quit THEN IF simAt \in {"acquire", "run"} THEN 1 ELSE 0
    ELSE (IF simAt \in {"clear", "check", "acquire", "run"} THEN 1 ELSE 0)
         + (IF go /\ simAt /= "clear" THEN 1 ELSE 0)

RestIsNear ==
    /\ late \in Nat
    /\ playing => late = 0
    /\ ~playing => late + Pending <= 2

IInv ==
    /\ Flags /\ Labels /\ Messages /\ Timers /\ Stack
    /\ Places /\ NoMessageLost /\ RestIsNear

-----------------------------------------------------------------------------
\* Leaving the innermost activation leaves a stack of activations.
LEMMA FrontIsSeq ==
    ASSUME NEW S, NEW s \in Seq(S), s /= << >>
    PROVE  Front(s) \in Seq(S)
  <1>1. Len(s) \in Nat \ {0}
    BY EmptySeq, LenProperties
  <1>2. SubSeq(s, 1, Len(s) - 1) \in Seq(S)
    BY <1>1, SubSeqProperties, SMT
  <1>3. QED
    BY <1>2 DEF Front

\* A user event that starts a timer creates one of those that are left.
LEMMA TimerStarted ==
    ASSUME Timers, _start_update_timer, userEvents > 0, userEvents' = userEvents - 1
    PROVE  Timers'
  <1>1. /\ created' = created + 1 /\ timerId' = created + 1
        /\ timers' = (timers \ {timerId}) \cup {created + 1}
    BY DEF _start_update_timer
  <1>2. created' \in 1 .. UserEvents + 1 /\ userEvents' \in 0 .. UserEvents
    BY <1>1, VisualizerAssumption DEF Timers
  <1> QED
    BY <1>1, <1>2, VisualizerAssumption DEF Timers

\* The strengthened invariant holds when the window opens.
LEMMA InitIInv == Init => IInv
  <1> SUFFICES ASSUME Init PROVE IInv
    OBVIOUS
  <1>1. Flags /\ Labels /\ Places
    BY DEF Init, Flags, Labels, Places
  <1>2. Messages /\ Timers
    BY VisualizerAssumption DEF Init, Messages, Timers
  <1>3. Stack
    BY EmptySeq DEF Init, Stack
  <1>4. NoMessageLost /\ RestIsNear
    BY DEF Init, NoMessageLost, RestIsNear, Pending
  <1> QED
    BY <1>1, <1>2, <1>3, <1>4 DEF IInv

(***************************************************************************)
(* Every step of the two threads and of the user keeps the strengthened     *)
(* invariant.                                                               *)
(***************************************************************************)
LEMMA NextIInv == IInv /\ [Next]_vars => IInv'
  <1> SUFFICES ASSUME IInv, [Next]_vars PROVE IInv'
    OBVIOUS
  <1> USE DEF IInv
  <1>1. ASSUME SimTest PROVE IInv'
    <2>1. Labels'
      BY <1>1 DEF SimTest, viewVars, Labels
    <2>2. Places'
      BY <1>1 DEF SimTest, viewVars, Places
    <2>3. NoMessageLost'
      BY <1>1 DEF SimTest, viewVars, NoMessageLost
    <2>4. RestIsNear'
      BY <1>1 DEF SimTest, viewVars, RestIsNear, Pending
    <2>5. Flags' /\ Messages' /\ Timers' /\ Stack'
      BY <1>1 DEF SimTest, viewVars, Flags, Messages, Timers, Stack
    <2> QED
      BY <2>1, <2>2, <2>3, <2>4, <2>5
  <1>2. ASSUME SimWait PROVE IInv'
    <2>1. Labels'
      BY <1>2 DEF SimWait, viewVars, Labels
    <2>2. Places'
      BY <1>2 DEF SimWait, viewVars, Places
    <2>3. NoMessageLost'
      BY <1>2 DEF SimWait, viewVars, NoMessageLost
    <2>4. RestIsNear'
      <3>1. /\ simAt = "wait" /\ simAt' = "clear" /\ go = TRUE /\ go' = TRUE
            /\ quit' = quit /\ late' = late /\ playing' = playing
        BY <1>2 DEF SimWait, viewVars, Flags
      <3> QED
        BY <3>1 DEF Flags, RestIsNear, Pending
    <2>5. Flags' /\ Messages' /\ Timers' /\ Stack'
      BY <1>2 DEF SimWait, viewVars, Flags, Messages, Timers, Stack
    <2> QED
      BY <2>1, <2>2, <2>3, <2>4, <2>5
  <1>3. ASSUME SimClear PROVE IInv'
    <2>1. Flags'
      BY <1>3 DEF SimClear, viewVars, Flags
    <2>2. Labels'
      BY <1>3 DEF SimClear, viewVars, Labels
    <2>3. Places'
      BY <1>3 DEF SimClear, viewVars, Places
    <2>4. NoMessageLost'
      BY <1>3 DEF SimClear, viewVars, NoMessageLost
    <2>5. RestIsNear'
      BY <1>3 DEF SimClear, viewVars, RestIsNear, Pending
    <2>6. Messages' /\ Timers' /\ Stack'
      BY <1>3 DEF SimClear, viewVars, Messages, Timers, Stack
    <2> QED
      BY <2>1, <2>2, <2>3, <2>4, <2>5, <2>6
  <1>4. ASSUME SimCheck PROVE IInv'
    <2>1. Labels'
      BY <1>4 DEF SimCheck, viewVars, Labels
    <2>2. Places'
      BY <1>4 DEF SimCheck, viewVars, Places
    <2>3. NoMessageLost'
      BY <1>4 DEF SimCheck, viewVars, NoMessageLost
    <2>4. RestIsNear'
      BY <1>4 DEF SimCheck, viewVars, Flags, RestIsNear, Pending
    <2>5. Flags' /\ Messages' /\ Timers' /\ Stack'
      BY <1>4 DEF SimCheck, viewVars, Flags, Messages, Timers, Stack
    <2> QED
      BY <2>1, <2>2, <2>3, <2>4, <2>5
  <1>5. ASSUME SimAcquire PROVE IInv'
    <2>1. Flags'
      BY <1>5 DEF SimAcquire, viewVars, Flags
    <2>2. Labels'
      BY <1>5 DEF SimAcquire, viewVars, Labels
    <2>3. Places'
      BY <1>5 DEF SimAcquire, viewVars, Places
    <2>4. NoMessageLost'
      BY <1>5 DEF SimAcquire, viewVars, NoMessageLost
    <2>5. RestIsNear'
      BY <1>5 DEF SimAcquire, viewVars, RestIsNear, Pending
    <2>6. Messages' /\ Timers' /\ Stack'
      BY <1>5 DEF SimAcquire, viewVars, Messages, Timers, Stack
    <2> QED
      BY <2>1, <2>2, <2>3, <2>4, <2>5, <2>6
  <1>6. ASSUME NEW pauses \in {0, 1}, SimulatorRunUntil(pauses) PROVE IInv'
    <2>1. Flags'
      BY <1>6 DEF SimulatorRunUntil, viewVars, Flags
    <2>2. Labels'
      BY <1>6 DEF SimulatorRunUntil, viewVars, Labels
    <2>3. Messages'
      BY <1>6, VisualizerAssumption DEF SimulatorRunUntil, viewVars, Messages
    <2>4. Places'
      BY <1>6 DEF SimulatorRunUntil, viewVars, Places
    <2>5. NoMessageLost'
      <3>1. unshown = pause_messages + taken
        BY <1>6 DEF SimulatorRunUntil, NoMessageLost, Messages
      <3>2. /\ simAt' = "extend" /\ raised' = pauses /\ unshown' = unshown + pauses
            /\ pause_messages' = pause_messages /\ taken' = taken
        BY <1>6 DEF SimulatorRunUntil, viewVars
      <3> QED
        BY <3>1, <3>2 DEF NoMessageLost, Messages
    <2>6. RestIsNear'
      <3>1. /\ simAt = "run" /\ simAt' = "extend" /\ go' = go /\ quit' = quit
            /\ late' = (IF ahead /\ ~playing THEN late + 1 ELSE late) /\ playing' = playing
        BY <1>6 DEF SimulatorRunUntil, viewVars
      <3> QED
        BY <3>1 DEF Flags, RestIsNear, Pending
    <2>7. Timers' /\ Stack'
      BY <1>6 DEF SimulatorRunUntil, viewVars, Timers, Stack
    <2> QED
      BY <2>1, <2>2, <2>3, <2>4, <2>5, <2>6, <2>7
  <1>7. ASSUME SimExtend PROVE IInv'
    <2>1. Labels'
      BY <1>7 DEF SimExtend, viewVars, Labels
    <2>2. Messages'
      BY <1>7 DEF SimExtend, viewVars, Messages
    <2>3. Places'
      BY <1>7 DEF SimExtend, viewVars, Places
    <2>4. NoMessageLost'
      <3>1. unshown = pause_messages + taken + raised
        BY <1>7 DEF SimExtend, NoMessageLost
      <3>2. /\ simAt' = "idle_add" /\ unshown' = unshown /\ taken' = taken
            /\ pause_messages' = pause_messages + raised
        BY <1>7 DEF SimExtend, viewVars
      <3> QED
        BY <3>1, <3>2 DEF NoMessageLost, Messages
    <2>5. RestIsNear'
      BY <1>7 DEF SimExtend, viewVars, RestIsNear, Pending
    <2>6. Flags' /\ Timers' /\ Stack'
      BY <1>7 DEF SimExtend, viewVars, Flags, Timers, Stack
    <2> QED
      BY <2>1, <2>2, <2>3, <2>4, <2>5, <2>6
  <1>8. ASSUME SimIdleAdd PROVE IInv'
    <2>1. Labels'
      BY <1>8 DEF SimIdleAdd, viewVars, Labels
    <2>2. Messages'
      BY <1>8 DEF SimIdleAdd, viewVars, Messages
    <2>3. Places'
      BY <1>8 DEF SimIdleAdd, viewVars, Places
    <2>4. NoMessageLost'
      BY <1>8 DEF SimIdleAdd, viewVars, NoMessageLost
    <2>5. RestIsNear'
      BY <1>8 DEF SimIdleAdd, viewVars, RestIsNear, Pending
    <2>6. Flags' /\ Timers' /\ Stack'
      BY <1>8 DEF SimIdleAdd, viewVars, Flags, Timers, Stack
    <2> QED
      BY <2>1, <2>2, <2>3, <2>4, <2>5, <2>6
  <1>9. ASSUME SimRelease PROVE IInv'
    <2>1. Flags'
      BY <1>9 DEF SimRelease, viewVars, Flags
    <2>2. Labels'
      BY <1>9 DEF SimRelease, viewVars, Labels
    <2>3. Places'
      BY <1>9 DEF SimRelease, viewVars, Places
    <2>4. NoMessageLost'
      BY <1>9 DEF SimRelease, viewVars, NoMessageLost
    <2>5. RestIsNear'
      BY <1>9 DEF SimRelease, viewVars, RestIsNear, Pending
    <2>6. Messages' /\ Timers' /\ Stack'
      BY <1>9 DEF SimRelease, viewVars, Messages, Timers, Stack
    <2> QED
      BY <2>1, <2>2, <2>3, <2>4, <2>5, <2>6
  <1>10. ASSUME DispatchUpdateModel PROVE IInv'
    <2>1. Labels'
      BY <1>10 DEF DispatchUpdateModel, Dispatching, simVars, Labels
    <2>2. Messages'
      BY <1>10 DEF DispatchUpdateModel, Dispatching, simVars, Messages
    <2>3. Stack'
      BY <1>10 DEF DispatchUpdateModel, Dispatching, simVars, Stack
    <2>4. Places'
      BY <1>10 DEF DispatchUpdateModel, Dispatching, simVars, Places
    <2>5. Flags' /\ Timers' /\ NoMessageLost' /\ RestIsNear'
      BY <1>10 DEF DispatchUpdateModel, Dispatching, simVars, Flags, Timers,
         NoMessageLost, RestIsNear, Pending
    <2> QED
      BY <2>1, <2>2, <2>3, <2>4, <2>5
  <1>11. ASSUME update_model PROVE IInv'
    <2>1. Labels'
      BY <1>11 DEF update_model, Return, Labels
    <2>2. Stack'
      BY <1>11 DEF update_model, Return, Stack
    <2>3. Places'
      BY <1>11 DEF update_model, Return, Places
    <2>4. Flags' /\ Messages' /\ Timers' /\ NoMessageLost' /\ RestIsNear'
      BY <1>11 DEF update_model, Return, Flags, Messages, Timers,
         NoMessageLost, RestIsNear, Pending
    <2> QED
      BY <2>1, <2>2, <2>3, <2>4
  <1>12. ASSUME Tick PROVE IInv'
    <2>1. Labels'
      BY <1>12 DEF Tick, DispatchTimer, Dispatching, simVars, Labels
    <2>2. Stack'
      <3>1. PICK t \in timers : DispatchTimer(t)
        BY <1>12 DEF Tick
      <3>2. t \in 1 .. UserEvents + 1
        BY VisualizerAssumption DEF Timers
      <3>3. spins' = Append(spins, t)
        BY <3>1 DEF DispatchTimer
      <3>4. spins' \in Seq(1 .. UserEvents + 1) /\ Len(spins') = Len(spins) + 1 /\ Len(spins) \in Nat
        BY <3>2, <3>3, AppendProperties, LenProperties DEF Stack
      <3>5. spins' /= << >>
        BY <3>4
      <3> QED
        BY <3>4, <3>5 DEF Stack
    <2>3. Places'
      <3>1. /\ mainAt \in {"loop", "events"} /\ mainAt' = "try" /\ taken' = taken
            /\ locked' = locked /\ simAt' = simAt
        BY <1>12 DEF Tick, DispatchTimer, Dispatching, simVars
      <3> QED
        BY <3>1 DEF Places
    <2>4. Flags' /\ Messages' /\ Timers' /\ NoMessageLost' /\ RestIsNear'
      BY <1>12 DEF Tick, DispatchTimer, Dispatching, simVars, Flags, Messages,
         Timers, NoMessageLost, RestIsNear, Pending
    <2> QED
      BY <2>1, <2>2, <2>3, <2>4
  <1>13. ASSUME LockIsTaken PROVE IInv'
    <2>1. Labels'
      BY <1>13 DEF LockIsTaken, simVars, Labels
    <2>2. Stack'
      BY <1>13 DEF LockIsTaken, simVars, Stack
    <2>3. Places'
      BY <1>13 DEF LockIsTaken, simVars, Places
    <2>4. Flags' /\ Messages' /\ Timers' /\ NoMessageLost' /\ RestIsNear'
      BY <1>13 DEF LockIsTaken, simVars, Flags, Messages, Timers,
         NoMessageLost, RestIsNear, Pending
    <2> QED
      BY <2>1, <2>2, <2>3, <2>4
  <1>14. ASSUME NoEventsPending PROVE IInv'
    <2>1. Labels'
      BY <1>14 DEF NoEventsPending, simVars, Labels
    <2>2. Stack'
      BY <1>14 DEF NoEventsPending, simVars, Stack
    <2>3. Places'
      BY <1>14 DEF NoEventsPending, simVars, Places
    <2>4. Flags' /\ Messages' /\ Timers' /\ NoMessageLost' /\ RestIsNear'
      BY <1>14 DEF NoEventsPending, simVars, Flags, Messages, Timers,
         NoMessageLost, RestIsNear, Pending
    <2> QED
      BY <2>1, <2>2, <2>3, <2>4
  <1>15. ASSUME UpdateView PROVE IInv'
    <2>1. Flags'
      BY <1>15 DEF UpdateView, Flags
    <2>2. Labels'
      BY <1>15 DEF UpdateView, Labels
    <2>3. Messages'
      BY <1>15 DEF UpdateView, Messages
    <2>4. Stack'
      BY <1>15 DEF UpdateView, Stack
    <2>5. Places'
      BY <1>15 DEF UpdateView, Places
    <2>6. NoMessageLost'
      BY <1>15 DEF UpdateView, NoMessageLost, Messages, Places
    <2>7. Timers' /\ RestIsNear'
      BY <1>15 DEF UpdateView, Timers, RestIsNear, Pending
    <2> QED
      BY <2>1, <2>2, <2>3, <2>4, <2>5, <2>6, <2>7
  <1>16. ASSUME Finish PROVE IInv'
    <2>1. Flags'
      BY <1>16 DEF Finish, Return, Flags
    <2>2. Labels'
      BY <1>16 DEF Finish, Return, Labels
    <2>3. Messages'
      <3>1. /\ unshown' = unshown - taken /\ taken' = 0 /\ raised' = raised
            /\ pause_messages' = pause_messages /\ models' = models
        BY <1>16 DEF Finish
      <3>2. unshown >= taken
        BY DEF Messages, NoMessageLost
      <3> QED
        BY <3>1, <3>2, VisualizerAssumption DEF Messages
    <2>4. Timers'
      <3>1. timers' \subseteq timers
        BY <1>16 DEF Finish, StopPlaying
      <3>2. timerId' \in {timerId, 0} /\ created' = created /\ userEvents' = userEvents
        BY <1>16 DEF Finish, NoTimer
      <3> QED
        BY <3>1, <3>2, VisualizerAssumption DEF Timers
    <2>5. Stack'
      BY <1>16, FrontIsSeq DEF Finish, Return, Stack
    <2>6. Places'
      BY <1>16 DEF Finish, Return, Places
    <2>7. NoMessageLost'
      BY <1>16 DEF Finish, Return, NoMessageLost, Messages
    <2>8. RestIsNear'
      BY <1>16 DEF Finish, Return, Flags, RestIsNear, Pending
    <2> QED
      BY <2>1, <2>2, <2>3, <2>4, <2>5, <2>6, <2>7, <2>8
  <1>17. ASSUME on_play_button_toggled PROVE IInv'
    <2>1. Flags'
      BY <1>17 DEF on_play_button_toggled, UserEvent, Flags
    <2>2. Timers'
      <3>1. CASE playing' = TRUE
        BY <1>17, <3>1, TimerStarted DEF on_play_button_toggled, UserEvent
      <3>2. CASE playing' = FALSE
        <4>1. /\ timers' = timers \ {timerId} /\ timerId' = timerId /\ created' = created
              /\ userEvents' = userEvents - 1 /\ userEvents > 0
          BY <1>17, <3>2 DEF on_play_button_toggled, UserEvent, StopPlaying
        <4> QED
          BY <4>1, VisualizerAssumption DEF Timers
      <3> QED
        BY <1>17, <3>1, <3>2 DEF on_play_button_toggled, Flags
    <2>3. RestIsNear'
      <3>1. /\ simAt' = simAt /\ go' = go /\ quit' = quit
            /\ late' = 0 /\ playing' = ~playing
        BY <1>17 DEF on_play_button_toggled
      <3> QED
        BY <3>1 DEF Flags, RestIsNear, Pending
    <2>4. Labels' /\ Messages' /\ Stack' /\ Places' /\ NoMessageLost'
      BY <1>17 DEF on_play_button_toggled, UserEvent, Labels, Messages, Stack,
         Places, NoMessageLost
    <2> QED
      BY <2>1, <2>2, <2>3, <2>4
  <1>18. ASSUME speed_changed PROVE IInv'
    <2>1. Flags'
      BY <1>18 DEF speed_changed, simVars, Flags
    <2>2. Timers'
      BY <1>18, TimerStarted DEF speed_changed, UserEvent
    <2>3. Stack'
      BY <1>18 DEF speed_changed, Stack
    <2>4. RestIsNear'
      BY <1>18 DEF speed_changed, simVars, RestIsNear, Pending
    <2>5. Labels' /\ Messages' /\ Places' /\ NoMessageLost'
      BY <1>18 DEF speed_changed, UserEvent, simVars, Labels, Messages,
         Places, NoMessageLost
    <2> QED
      BY <2>1, <2>2, <2>3, <2>4, <2>5
  <1>19. ASSUME Quit PROVE IInv'
    <2>1. Flags'
      BY <1>19 DEF Quit, UserEvent, Dispatching, simVars, Flags
    <2>2. Labels'
      BY <1>19 DEF Quit, UserEvent, Dispatching, simVars, Labels
    <2>3. Timers'
      <3>1. /\ timers' = timers \ {timerId} /\ timerId' = 0 /\ created' = created
            /\ userEvents' = userEvents - 1 /\ userEvents > 0
        BY <1>19 DEF Quit, UserEvent, NoTimer
      <3> QED
        BY <3>1, VisualizerAssumption DEF Timers
    <2>4. Stack'
      BY <1>19 DEF Quit, UserEvent, Dispatching, simVars, Stack
    <2>5. Places'
      BY <1>19 DEF Quit, UserEvent, Dispatching, simVars, Places
    <2>6. RestIsNear'
      <3>1. /\ simAt' = simAt /\ go' = go /\ quit = FALSE /\ quit' = TRUE
            /\ late' = late /\ playing' = playing
        BY <1>19 DEF Quit, UserEvent, Flags, simVars
      <3> QED
        BY <3>1 DEF Flags, RestIsNear, Pending
    <2>7. Messages' /\ NoMessageLost'
      BY <1>19 DEF Quit, UserEvent, Dispatching, simVars, Messages,
         NoMessageLost
    <2> QED
      BY <2>1, <2>2, <2>3, <2>4, <2>5, <2>6, <2>7
  <1>20. ASSUME QuitGo PROVE IInv'
    <2>1. Flags'
      BY <1>20 DEF QuitGo, simVars, Flags
    <2>2. Labels'
      BY <1>20 DEF QuitGo, simVars, Labels
    <2>3. Stack'
      BY <1>20 DEF QuitGo, simVars, Stack
    <2>4. Places'
      BY <1>20 DEF QuitGo, simVars, Places
    <2>5. RestIsNear'
      BY <1>20 DEF QuitGo, simVars, Flags, Places, RestIsNear, Pending
    <2>6. Messages' /\ Timers' /\ NoMessageLost'
      BY <1>20 DEF QuitGo, simVars, Messages, Timers, NoMessageLost
    <2> QED
      BY <2>1, <2>2, <2>3, <2>4, <2>5, <2>6
  <1>21. ASSUME QuitJoin PROVE IInv'
    <2>1. Labels'
      BY <1>21 DEF QuitJoin, Return, simVars, Labels
    <2>2. Stack'
      BY <1>21 DEF QuitJoin, Return, simVars, Stack
    <2>3. Places'
      BY <1>21 DEF QuitJoin, Return, simVars, Places
    <2>4. Flags' /\ Messages' /\ Timers' /\ NoMessageLost' /\ RestIsNear'
      BY <1>21 DEF QuitJoin, Return, simVars, Flags, Messages, Timers,
         NoMessageLost, RestIsNear, Pending
    <2> QED
      BY <2>1, <2>2, <2>3, <2>4
  <1>22. ASSUME UNCHANGED vars PROVE IInv'
    <2>1. Flags'
      BY <1>22 DEF vars, simVars, viewVars, Flags
    <2>2. Timers'
      BY <1>22 DEF vars, simVars, viewVars, Timers
    <2>3. Stack'
      BY <1>22 DEF vars, simVars, viewVars, Stack
    <2>4. RestIsNear'
      BY <1>22 DEF vars, simVars, viewVars, RestIsNear, Pending
    <2>5. Labels' /\ Messages' /\ Places' /\ NoMessageLost'
      BY <1>22 DEF vars, simVars, viewVars, Labels, Messages, Places,
         NoMessageLost
    <2> QED
      BY <2>1, <2>2, <2>3, <2>4, <2>5
  <1> QED
    BY <1>1, <1>2, <1>3, <1>4, <1>5, <1>6, <1>7, <1>8, <1>9, <1>10,
       <1>11, <1>12, <1>13, <1>14, <1>15, <1>16, <1>17, <1>18, <1>19, <1>20,
       <1>21, <1>22
       DEF Next, SimStep, ViewStep, Rest

\* The strengthened invariant, from which the properties follow.
THEOREM Invariance == Spec => []IInv
  <1> QED
    BY InitIInv, NextIInv, PTL DEF Spec

(***************************************************************************)
(* Every variable of the two threads stays in its type; in particular no    *)
(* more pause messages are taken over or stored than were raised, and no    *)
(* activation is left that was not entered.                                 *)
(***************************************************************************)
THEOREM TypeCorrect == Spec => []TypeOK
  <1>1. IInv => TypeOK
    <2> SUFFICES ASSUME IInv PROVE TypeOK
      OBVIOUS
    <2>1. pause_messages \in 0 .. MaxPauses /\ taken \in 0 .. MaxPauses
      BY VisualizerAssumption DEF IInv, Messages, NoMessageLost
    <2> QED
      BY <2>1 DEF IInv, Flags, Labels, Messages, Timers, Stack, RestIsNear, TypeOK
  <1> QED
    BY <1>1, Invariance, PTL

(***************************************************************************)
(* No pause message is lost or shown twice, for any number of messages and  *)
(* wherever update_view_timeout takes the list over between the steps of    *)
(* the simulation thread.                                                   *)
(***************************************************************************)
THEOREM MessagesKept == Spec => []NoMessageLost
  <1> QED
    BY Invariance, PTL DEF IInv

(***************************************************************************)
(* After the play button is released at most two more periods are           *)
(* simulated, however often the user plays, stops and changes the speed.    *)
(***************************************************************************)
THEOREM ComesToRest == Spec => []PauseComesToRest
  <1>1. IInv => PauseComesToRest
    <2> SUFFICES ASSUME IInv PROVE PauseComesToRest
      OBVIOUS
    <2>1. Pending \in Nat
      BY DEF Pending
    <2> QED
      BY <2>1 DEF IInv, Flags, RestIsNear, PauseComesToRest
  <1> QED
    BY <1>1, Invariance, PTL
=============================================================================
